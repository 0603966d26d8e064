-------------------------- MODULE PromptGateProofs --------------------------
(***************************************************************************)
(* The prompt gate keeps its leases and closes what it opens, and it is a  *)
(* queue for limit places, for any finite set of calls and any limits.     *)
(***************************************************************************)
EXTENDS PromptGate, FiniteSetTheorems, SequenceTheorems, TLAPS

(***************************************************************************)
(* Queues without repetitions.                                             *)
(***************************************************************************)

Distinct(s) == \A i, j \in 1..Len(s) : s[i] = s[j] => i = j

\* A queue without repetitions holds as many requests as it is long: the
\* counter may be advanced by the number of grants (_drain_inference_waiters).
LEMMA PrefixCardinality ==
  ASSUME NEW T, NEW s \in Seq(T), Distinct(s), NEW k \in 0..Len(s)
  PROVE  /\ IsFiniteSet({s[i] : i \in 1..k})
         /\ Cardinality({s[i] : i \in 1..k}) = k
<1> DEFINE P == {s[i] : i \in 1..k}
           f == [i \in 1..k |-> s[i]]
<1>1. f \in Bijection(1..k, P)
  BY DEF Distinct, Bijection, Injection, Surjection, IsInjective
<1>2. ExistsBijection(1..k, P)
  BY <1>1 DEF ExistsBijection
<1>3. k \in Nat
  OBVIOUS
<1>4. Cardinality(P) = k
  BY <1>2, <1>3, FS_CountingElements
<1>5. IsFiniteSet(P)
  BY <1>2, <1>3, FS_NatBijection
<1> QED BY <1>4, <1>5

\* What deque.remove leaves: the same requests but r, in the same order.
LEMMA WithoutProperties ==
  ASSUME NEW T, NEW s \in Seq(T), Distinct(s), NEW p \in 1..Len(s)
  PROVE  LET w == Without(s, s[p]) IN
         /\ w \in Seq(T)
         /\ Len(w) = Len(s) - 1
         /\ \A i \in 1..Len(w) : w[i] = IF i < p THEN s[i] ELSE s[i + 1]
<1> DEFINE at == CHOOSE i \in 1..Len(s) : s[i] = s[p]
<1>1. at = p
  BY DEF Distinct
<1>2. s[p] \in Elems(s)
  BY DEF Elems
<1> DEFINE g == [i \in 1..(Len(s) - 1) |-> IF i < p THEN s[i] ELSE s[i + 1]]
<1>3. Without(s, s[p]) = g
  BY <1>1, <1>2 DEF Without
<1>4. Len(s) - 1 \in Nat
  OBVIOUS
<1>5. \A i \in 1..(Len(s) - 1) : g[i] \in T
  OBVIOUS
<1>6. g \in Seq(T) /\ Len(g) = Len(s) - 1
  <2>1. g \in [1..(Len(s) - 1) -> T]
    BY <1>5
  <2> QED BY <2>1, <1>4
<1> QED BY <1>3, <1>6

\* Serving the first k leaves the others, in their order (a drain, a refresh).
LEMMA PrefixServed ==
  ASSUME NEW T, NEW s \in Seq(T), Distinct(s), NEW k \in 0..Len(s)
  PROVE  LET w == SubSeq(s, k + 1, Len(s))
             first == {s[i] : i \in 1..k} IN
         /\ w \in Seq(T) /\ Len(w) = Len(s) - k /\ Distinct(w)
         /\ first \subseteq Elems(s)
         /\ Elems(w) = Elems(s) \ first
<1> DEFINE w == SubSeq(s, k + 1, Len(s))
           first == {s[i] : i \in 1..k}
<1>1. Len(s) \in Nat /\ k \in Nat /\ k <= Len(s)
  BY LenProperties
<1>2. \A i \in (k + 1)..Len(s) : s[i] \in T
  BY <1>1, ElementOfSeq
<1>3. /\ w \in Seq(T)
      /\ Len(w) = IF k + 1 <= Len(s) THEN Len(s) - (k + 1) + 1 ELSE 0
      /\ \A i \in 1..(Len(s) - (k + 1) + 1) : w[i] = s[(k + 1) + i - 1]
  <2>1. k + 1 \in Int /\ Len(s) \in Int
    BY <1>1
  <2> QED BY <1>2, <2>1, SubSeqProperties
<1>4. Len(w) = Len(s) - k /\ \A i \in 1..Len(w) : w[i] = s[k + i]
  <2> HIDE DEF w
  <2> QED BY <1>1, <1>3
<1> HIDE DEF w
<1>5. Distinct(w)
  <2> SUFFICES ASSUME NEW i \in 1..Len(w), NEW j \in 1..Len(w), w[i] = w[j] PROVE i = j
    BY DEF Distinct
  <2>1. k + i \in 1..Len(s) /\ k + j \in 1..Len(s)
    BY <1>1, <1>4
  <2>2. s[k + i] = s[k + j]
    BY <1>4
  <2>3. k + i = k + j
    BY <2>1, <2>2 DEF Distinct
  <2> QED BY <1>1, <1>4, <2>3
<1>6. first \subseteq Elems(s)
  BY <1>1 DEF Elems
<1>7. ASSUME NEW x \in Elems(w) PROVE x \in Elems(s) \ first
  <2>1. PICK i \in 1..Len(w) : x = w[i]
    BY <1>7 DEF Elems
  <2>2. k + i \in 1..Len(s) /\ x = s[k + i] /\ ~(k + i <= k)
    BY <1>1, <1>4, <2>1
  <2>3. x \in Elems(s)
    BY <2>2 DEF Elems
  <2>4. \A j \in 1..k : j \in 1..Len(s) /\ j # k + i
    BY <1>1, <2>2
  <2>5. x \notin first
    BY <2>2, <2>4 DEF Distinct
  <2> QED BY <2>3, <2>5
<1>8. ASSUME NEW x \in Elems(s) \ first PROVE x \in Elems(w)
  <2>1. PICK j \in 1..Len(s) : x = s[j]
    BY <1>8 DEF Elems
  <2>2. ~(j \in 1..k)
    BY <1>8, <2>1
  <2>3. j - k \in 1..Len(w) /\ k + (j - k) = j
    BY <1>1, <1>4, <2>2
  <2>4. w[j - k] = x
    BY <1>4, <2>1, <2>3
  <2> QED BY <2>3, <2>4 DEF Elems
<1> QED BY <1>3, <1>4, <1>5, <1>6, <1>7, <1>8 DEF w

\* A queue without the caller that leaves it.
LEMMA WithoutElems ==
  ASSUME NEW T, NEW s \in Seq(T), Distinct(s), NEW r \in Elems(s)
  PROVE  LET w == Without(s, r) IN
         /\ w \in Seq(T) /\ Distinct(w) /\ Elems(w) = Elems(s) \ {r}
<1>1. PICK p \in 1..Len(s) : s[p] = r
  BY DEF Elems
<1> DEFINE w == Without(s, s[p])
<1>2. /\ w \in Seq(T) /\ Len(w) = Len(s) - 1
      /\ \A i \in 1..Len(w) : w[i] = IF i < p THEN s[i] ELSE s[i + 1]
  BY WithoutProperties
<1>3. Len(s) \in Nat /\ p \in Nat
  BY LenProperties
<1> HIDE DEF w
<1> DEFINE at(i) == IF i < p THEN i ELSE i + 1
<1>4. \A i \in 1..Len(w) : at(i) \in 1..Len(s) /\ at(i) # p /\ w[i] = s[at(i)]
  BY <1>2, <1>3
<1>5. Distinct(w)
  <2> SUFFICES ASSUME NEW i \in 1..Len(w), NEW j \in 1..Len(w), w[i] = w[j] PROVE i = j
    BY DEF Distinct
  <2>1. at(i) = at(j)
    <3> HIDE DEF at
    <3> QED BY <1>4 DEF Distinct
  <2> QED BY <1>3, <2>1
<1>6. ASSUME NEW x \in Elems(w) PROVE x \in Elems(s) \ {r}
  <2>1. PICK i \in 1..Len(w) : x = w[i]
    BY <1>6 DEF Elems
  <2> HIDE DEF at
  <2> QED BY <1>1, <1>4, <2>1 DEF Elems, Distinct
<1>7. ASSUME NEW x \in Elems(s) \ {r} PROVE x \in Elems(w)
  <2>1. PICK j \in 1..Len(s) : x = s[j] /\ j # p
    BY <1>1, <1>7 DEF Elems
  <2>2. CASE j < p
    <3>1. j \in 1..Len(w) /\ w[j] = x
      BY <1>2, <1>3, <2>1, <2>2
    <3> QED BY <3>1 DEF Elems
  <2>3. CASE ~(j < p)
    <3>1. j - 1 \in 1..Len(w) /\ ~(j - 1 < p) /\ (j - 1) + 1 = j
      BY <1>2, <1>3, <2>1, <2>3
    <3>2. w[j - 1] = x
      BY <1>2, <2>1, <3>1
    <3> QED BY <3>1, <3>2 DEF Elems
  <2> QED BY <2>2, <2>3
<1> QED BY <1>1, <1>2, <1>5, <1>6, <1>7 DEF w

\* A queue with a caller that was not in it.
LEMMA AppendElems ==
  ASSUME NEW T, NEW s \in Seq(T), Distinct(s), NEW r \in T, r \notin Elems(s)
  PROVE  LET w == Append(s, r) IN
         /\ w \in Seq(T) /\ Distinct(w) /\ Elems(w) = Elems(s) \cup {r}
<1> DEFINE w == Append(s, r)
<1>1. /\ w \in Seq(T) /\ Len(w) = Len(s) + 1 /\ Len(s) \in Nat
      /\ \A i \in 1..Len(s) : w[i] = s[i]
      /\ w[Len(s) + 1] = r
  BY AppendProperties, LenProperties
<1> HIDE DEF w
<1>2. \A i \in 1..Len(w) : i \in 1..Len(s) \/ i = Len(s) + 1
  BY <1>1
<1>3. \A i \in 1..Len(s) : i \in 1..Len(w) /\ w[i] \in Elems(s) /\ w[i] # r
  BY <1>1 DEF Elems
<1>4. Len(s) + 1 \in 1..Len(w)
  BY <1>1
<1>5. Distinct(w)
  BY <1>1, <1>2, <1>3 DEF Distinct
<1>6. Elems(w) = Elems(s) \cup {r}
  BY <1>1, <1>2, <1>3, <1>4 DEF Elems
<1> QED BY <1>1, <1>5, <1>6 DEF w

(***************************************************************************)
(* Consistent gates.                                                       *)
(***************************************************************************)

Tickets == {"none", "waiting", "held", "released"}

\* The calls that hold a lease, in a state G of the gate.
Held(G) == {r \in Requests : G.ticket[r] = "held"}

\* The counter counts the leases, and the queue holds the pending futures.
GateOK(G) ==
  /\ G \in [ticket : [Requests -> Tickets], active : Nat, waiting : Seq(Requests)]
  /\ G.active = Cardinality(Held(G))
  /\ Distinct(G.waiting)
  /\ Elems(G.waiting) = {r \in Requests : G.ticket[r] = "waiting"}

\* Nobody waits beside a free place.
Full(G, n) == G.waiting # << >> => G.active >= n

\* N admits the head of queue q to n places of which h are taken (FifoSlots!Admit).
Admits(N, h, q, n) ==
  LET k == IF Cardinality(h) >= n THEN 0 ELSE Least(Len(q), n - Cardinality(h))
  IN  Held(N) = h \cup {q[i] : i \in 1..k} /\ N.waiting = SubSeq(q, k + 1, Len(q))

\* Other calls only move up.
OthersMoveUp(G, N, r) ==
  \A o \in Requests \ {r} :
    N.ticket[o] = G.ticket[o] \/ (G.ticket[o] = "waiting" /\ N.ticket[o] = "held")

\* Where a call at p stands: t is its ticket, w its task, s whether it streams, o
\* whether its exchange is open, d whether it has shown output.  The lease is kept
\* until output was shown or the task is over, and a task that is over has closed
\* the exchange unless its clean-up was cut short or a stream is left to close.
CallOK(p, t, w, s, o, d) ==
  /\ t = "waiting" => p = "waiting"
  /\ p \in {"new", "waiting"} => w = "none" /\ ~s /\ ~o /\ ~d
  /\ p = "new" => t = "none"
  /\ p = "waiting" => t \in {"waiting", "held"}
  /\ p = "dispatching" => w \in {"created", "running", "finishing", "ended"}
  /\ p = "cleanup" => w \in {"doomed", "closing", "cut", "ended", "unstarted", "leaked"}
  /\ p \in {"dispatching", "cleanup"} =>
       /\ t = "held" /\ ~d /\ (s => w = "ended")
       /\ w \in {"created", "doomed", "unstarted"} \/ (w = "ended" /\ ~s) => ~o
  /\ p = "streaming" => w \in {"created", "running", "finishing", "closing", "cut",
                               "ended", "leaked"}
  /\ p = "joining" => w \in {"doomed", "closing", "cut", "ended", "unstarted", "leaked"}
  /\ p \in {"streaming", "joining"} =>
       /\ s /\ t \in {"held", "released"}
       /\ w = "created" => t = "held"
       /\ w \in {"ended", "unstarted", "leaked"} => t = "released"
       /\ w = "ended" => ~o
       /\ t = "released" /\ o => d \/ w \in {"unstarted", "leaked"}
  /\ p = "disposing" =>
       /\ s /\ t \in {"held", "released"} /\ w \in {"ended", "unstarted", "leaked"}
       /\ t = "released" => w \in {"unstarted", "leaked"}
  /\ p = "done" =>
       t \in {"none", "released"} /\ w \in {"none", "leaked"} /\ ~s /\ ~d /\ (o => w = "leaked")

Stands(r) == CallOK(pc[r], ticket[r], work[r], streams[r], open[r], shown[r])

CallTypes ==
  /\ pc \in [Requests -> {"new", "waiting", "dispatching", "cleanup", "streaming",
                          "joining", "disposing", "done"}]
  /\ cancel \in [Requests -> BOOLEAN]
  /\ work \in [Requests -> {"none", "created", "running", "finishing", "closing", "cut",
                            "doomed", "ended", "unstarted", "leaked"}]
  /\ streams \in [Requests -> BOOLEAN]
  /\ open \in [Requests -> BOOLEAN]
  /\ shown \in [Requests -> BOOLEAN]
  /\ limit \in Limits

\* The inductive invariant.
IInv ==
  /\ CallTypes
  /\ GateOK(Gate)
  /\ Full(Gate, limit)
  /\ \A r \in Requests : Stands(r)

\* A step of call r changes nothing of another call but its place in the queue.
OnlyCall(r) ==
  \A o \in Requests \ {r} :
    /\ pc'[o] = pc[o] /\ work'[o] = work[o] /\ streams'[o] = streams[o]
    /\ open'[o] = open[o] /\ shown'[o] = shown[o]

-----------------------------------------------------------------------------
\* refresh serves the head of the queue, and stops only when it is empty or the
\* places are taken.
LEMMA RefreshServes ==
  ASSUME NEW G, GateOK(G), NEW n \in Limits, NEW N, N = Refresh(G, n)
  PROVE  /\ GateOK(N) /\ Full(N, n)
         /\ Admits(N, Held(G), G.waiting, n)
         /\ \A r \in Requests : \/ N.ticket[r] = G.ticket[r]
                                \/ G.ticket[r] = "waiting" /\ N.ticket[r] = "held"
<1> DEFINE k == IF G.active >= n THEN 0 ELSE Least(Len(G.waiting), n - G.active)
           first == {G.waiting[i] : i \in 1..k}
           rest == SubSeq(G.waiting, k + 1, Len(G.waiting))
<1>1. /\ G.waiting \in Seq(Requests) /\ G.active \in Nat /\ n \in Nat /\ n > 0
      /\ G.ticket \in [Requests -> Tickets] /\ Distinct(G.waiting)
      /\ G.active = Cardinality(Held(G))
      /\ Elems(G.waiting) = {r \in Requests : G.ticket[r] = "waiting"}
  BY ConstantsAssumption DEF GateOK, ConstantsAssumption
<1>2. Len(G.waiting) \in Nat
  BY <1>1, LenProperties
<1>3. k \in 0..Len(G.waiting)
  BY <1>1, <1>2 DEF Least
<1>4. N = [ticket |-> [r \in Requests |-> IF r \in first THEN "held" ELSE G.ticket[r]],
           active |-> G.active + k, waiting |-> rest]
  BY DEF Refresh
<1>5. k < Len(G.waiting) => G.active + k >= n
  BY <1>1, <1>2 DEF Least
<1>6. /\ rest \in Seq(Requests) /\ Len(rest) = Len(G.waiting) - k /\ Distinct(rest)
      /\ first \subseteq Elems(G.waiting)
      /\ Elems(rest) = Elems(G.waiting) \ first
  <2> HIDE DEF k
  <2> QED BY <1>1, <1>3, PrefixServed
<1>7. IsFiniteSet(first) /\ Cardinality(first) = k
  <2> HIDE DEF k
  <2>1. G.waiting \in Seq(Requests) /\ Distinct(G.waiting)
    BY <1>1
  <2> QED BY <1>3, <2>1, PrefixCardinality, Zenon
<1>taken. k = IF Cardinality(Held(G)) >= n THEN 0
          ELSE Least(Len(G.waiting), n - Cardinality(Held(G)))
  BY <1>1
<1> HIDE DEF k, first, rest
<1>8. Held(N) = Held(G) \cup first
  BY <1>1, <1>4, <1>6 DEF Held
<1>9. IsFiniteSet(Held(G)) /\ Held(G) \cap first = {}
  <2>1. IsFiniteSet(Held(G))
    BY ConstantsAssumption, FS_Subset DEF ConstantsAssumption, Held
  <2>2. Held(G) \cap first = {}
    BY <1>1, <1>6 DEF Held
  <2> QED BY <2>1, <2>2
<1>10. Cardinality(Held(N)) = G.active + k
  <2>1. Cardinality(Held(G) \cup first)
          = Cardinality(Held(G)) + Cardinality(first) - Cardinality(Held(G) \cap first)
    BY <1>7, <1>9, FS_Union
  <2>2. Cardinality(Held(G) \cap first) = 0
    BY <1>9, FS_EmptySet
  <2> QED BY <1>1, <1>3, <1>7, <1>8, <2>1, <2>2
<1>11. GateOK(N)
  <2>1. N \in [ticket : [Requests -> Tickets], active : Nat, waiting : Seq(Requests)]
    BY <1>1, <1>3, <1>4, <1>6 DEF Tickets
  <2>2. Elems(N.waiting) = {r \in Requests : N.ticket[r] = "waiting"}
    BY <1>1, <1>4, <1>6
  <2> QED BY <1>4, <1>6, <1>10, <2>1, <2>2 DEF GateOK
<1>12. Full(N, n)
  <2>1. CASE k = Len(G.waiting)
    <3>1. Len(rest) = 0
      BY <1>2, <1>6, <2>1
    <3>2. rest = << >>
      BY <1>6, <3>1, EmptySeq
    <3> QED BY <1>4, <3>2 DEF Full
  <2>2. CASE k < Len(G.waiting)
    BY <1>4, <1>5, <2>2 DEF Full
  <2> QED BY <1>2, <1>3, <2>1, <2>2
<1>13. Admits(N, Held(G), G.waiting, n)
  <2>1. N.waiting = rest
    BY <1>4
  <2>2. Held(N) = Held(G) \cup {G.waiting[i] : i \in 1..k}
    BY <1>8 DEF first
  <2> QED BY <2>1, <2>2, <1>taken, Zenon DEF Admits, rest
<1>14. \A r \in Requests : \/ N.ticket[r] = G.ticket[r]
                           \/ G.ticket[r] = "waiting" /\ N.ticket[r] = "held"
  BY <1>1, <1>4, <1>6
<1> QED BY <1>11, <1>12, <1>13, <1>14

\* A lease that comes back: its place is free again.
LEMMA Returned ==
  ASSUME NEW G, GateOK(G), NEW r \in Requests, G.ticket[r] = "held"
  PROVE  LET N == [G EXCEPT !.ticket[r] = "released", !.active = G.active - 1] IN
         /\ GateOK(N) /\ N.waiting = G.waiting
         /\ Held(N) = Held(G) \ {r}
         /\ N.ticket = [G.ticket EXCEPT ![r] = "released"]
<1> DEFINE N == [G EXCEPT !.ticket[r] = "released", !.active = G.active - 1]
<1>1. /\ G \in [ticket : [Requests -> Tickets], active : Nat, waiting : Seq(Requests)]
      /\ G.active = Cardinality(Held(G)) /\ Distinct(G.waiting)
      /\ Elems(G.waiting) = {o \in Requests : G.ticket[o] = "waiting"}
  BY DEF GateOK
<1>2. /\ N.ticket = [G.ticket EXCEPT ![r] = "released"]
      /\ N.active = G.active - 1 /\ N.waiting = G.waiting
  BY <1>1
<1>3. IsFiniteSet(Held(G)) /\ r \in Held(G)
  BY ConstantsAssumption, FS_Subset DEF ConstantsAssumption, Held
<1>4. Held(N) = Held(G) \ {r}
  BY <1>1, <1>2 DEF Held
<1>5. Cardinality(Held(N)) = G.active - 1
  BY <1>1, <1>3, <1>4, FS_RemoveElement
<1>6. Cardinality(Held(N)) \in Nat
  BY <1>3, <1>4, FS_RemoveElement, FS_CardinalityType
<1>7. N \in [ticket : [Requests -> Tickets], active : Nat, waiting : Seq(Requests)]
  <2>1. G.active - 1 \in Nat
    BY <1>5, <1>6
  <2> QED BY <1>1, <2>1 DEF Tickets
<1> HIDE DEF N
<1>8. Elems(N.waiting) = {o \in Requests : N.ticket[o] = "waiting"}
  BY <1>1, <1>2
<1> QED BY <1>1, <1>2, <1>4, <1>5, <1>7, <1>8 DEF N, GateOK

\* A call that joins the queue.
LEMMA Joined ==
  ASSUME NEW G, GateOK(G), NEW r \in Requests, G.ticket[r] = "none"
  PROVE  LET N == [G EXCEPT !.ticket[r] = "waiting", !.waiting = Append(G.waiting, r)] IN
         /\ GateOK(N) /\ N.waiting = Append(G.waiting, r)
         /\ Held(N) = Held(G)
         /\ r \notin Elems(G.waiting)
         /\ N.ticket = [G.ticket EXCEPT ![r] = "waiting"]
<1> DEFINE N == [G EXCEPT !.ticket[r] = "waiting", !.waiting = Append(G.waiting, r)]
<1>1. /\ G \in [ticket : [Requests -> Tickets], active : Nat, waiting : Seq(Requests)]
      /\ G.active = Cardinality(Held(G)) /\ Distinct(G.waiting)
      /\ Elems(G.waiting) = {o \in Requests : G.ticket[o] = "waiting"}
  BY DEF GateOK
<1>2. /\ N.ticket = [G.ticket EXCEPT ![r] = "waiting"]
      /\ N.active = G.active /\ N.waiting = Append(G.waiting, r)
  BY <1>1
<1>3. G.waiting \in Seq(Requests) /\ r \notin Elems(G.waiting)
  BY <1>1
<1>4. /\ Append(G.waiting, r) \in Seq(Requests) /\ Distinct(Append(G.waiting, r))
      /\ Elems(Append(G.waiting, r)) = Elems(G.waiting) \cup {r}
  BY <1>1, <1>3, AppendElems
<1>5. N \in [ticket : [Requests -> Tickets], active : Nat, waiting : Seq(Requests)]
  BY <1>1, <1>4 DEF Tickets
<1> HIDE DEF N
<1>6. Held(N) = Held(G)
  BY <1>1, <1>2 DEF Held
<1>7. Elems(N.waiting) = {o \in Requests : N.ticket[o] = "waiting"}
  BY <1>1, <1>2, <1>4
<1> QED BY <1>1, <1>2, <1>3, <1>4, <1>5, <1>6, <1>7 DEF N, GateOK

\* release of a lease serves the queue; a second release does nothing.
LEMMA ReleaseServes ==
  ASSUME NEW G, GateOK(G), limit \in Limits, Full(G, limit), NEW r \in Requests
  PROVE  LET N == Release(G, r) IN
         /\ GateOK(N) /\ Full(N, limit) /\ OthersMoveUp(G, N, r)
         /\ G.ticket[r] # "held" => N = G
         /\ G.ticket[r] = "held" =>
              N.ticket[r] = "released" /\ Admits(N, Held(G) \ {r}, G.waiting, limit)
<1> DEFINE N == Release(G, r)
           B == [G EXCEPT !.ticket[r] = "released", !.active = G.active - 1]
<1>1. CASE G.ticket[r] # "held"
  <2>1. N = G
    BY <1>1 DEF Release
  <2> QED BY <1>1, <2>1 DEF OthersMoveUp
<1>2. CASE G.ticket[r] = "held"
  <2>1. N = Refresh(B, limit)
    BY <1>2 DEF Release
  <2>2. /\ GateOK(B) /\ B.waiting = G.waiting /\ Held(B) = Held(G) \ {r}
        /\ B.ticket = [G.ticket EXCEPT ![r] = "released"]
    BY <1>2, Returned
  <2>3. G.ticket \in [Requests -> Tickets]
    BY DEF GateOK
  <2> HIDE DEF B, N
  <2>4. /\ GateOK(N) /\ Full(N, limit) /\ Admits(N, Held(B), B.waiting, limit)
        /\ \A o \in Requests : \/ N.ticket[o] = B.ticket[o]
                               \/ B.ticket[o] = "waiting" /\ N.ticket[o] = "held"
    <3>1. GateOK(B)
      BY <2>2
    <3> QED BY <2>1, <3>1, RefreshServes, Zenon
  <2>5. OthersMoveUp(G, N, r) /\ N.ticket[r] = "released"
    BY <2>2, <2>3, <2>4 DEF OthersMoveUp
  <2> QED BY <1>2, <2>2, <2>4, <2>5 DEF N
<1> QED BY <1>1, <1>2

\* A call that gives up leaves the queue, or returns the lease it got meanwhile.
LEMMA LeaveServes ==
  ASSUME NEW G, GateOK(G), limit \in Limits, Full(G, limit), NEW r \in Requests,
         G.ticket[r] \in {"waiting", "held"}
  PROVE  LET N == Leave(G, r) IN
         /\ GateOK(N) /\ Full(N, limit) /\ OthersMoveUp(G, N, r)
         /\ N.ticket[r] = "released"
         /\ G.ticket[r] = "held" => Admits(N, Held(G) \ {r}, G.waiting, limit)
         /\ G.ticket[r] = "waiting" =>
              r \in Elems(G.waiting) /\ Admits(N, Held(G), Without(G.waiting, r), limit)
<1> DEFINE N == Leave(G, r)
<1>1. CASE G.ticket[r] = "held"
  BY <1>1, ReleaseServes DEF Leave
<1>2. CASE G.ticket[r] = "waiting"
  <2>1. /\ G \in [ticket : [Requests -> Tickets], active : Nat, waiting : Seq(Requests)]
        /\ G.active = Cardinality(Held(G)) /\ Distinct(G.waiting)
        /\ Elems(G.waiting) = {o \in Requests : G.ticket[o] = "waiting"}
    BY DEF GateOK
  <2> DEFINE w == Without(G.waiting, r)
  <2>2. r \in Elems(G.waiting) /\ G.waiting \in Seq(Requests)
    BY <1>2, <2>1
  <2>3. w \in Seq(Requests) /\ Distinct(w) /\ Elems(w) = Elems(G.waiting) \ {r}
    BY <2>1, <2>2, WithoutElems
  <2>4. N = [G EXCEPT !.ticket[r] = "released", !.waiting = w]
    BY <1>2 DEF Leave
  <2> HIDE DEF w
  <2>5. /\ N.ticket = [G.ticket EXCEPT ![r] = "released"]
        /\ N.active = G.active /\ N.waiting = w
    BY <2>1, <2>4
  <2> HIDE DEF N
  <2>6. N \in [ticket : [Requests -> Tickets], active : Nat, waiting : Seq(Requests)]
    BY <2>1, <2>3, <2>4 DEF Tickets
  <2>7. Held(N) = Held(G)
    BY <1>2, <2>1, <2>5 DEF Held
  <2>8. Elems(N.waiting) = {o \in Requests : N.ticket[o] = "waiting"}
    BY <2>1, <2>3, <2>5
  <2>9. GateOK(N)
    BY <2>1, <2>3, <2>5, <2>6, <2>7, <2>8 DEF GateOK
  <2>10. OthersMoveUp(G, N, r) /\ N.ticket[r] = "released"
    BY <2>1, <2>5 DEF OthersMoveUp
  <2>11. G.active >= limit
    <3>1. G.waiting # << >>
      BY <2>2 DEF Elems
    <3> QED BY <3>1 DEF Full
  <2>12. Full(N, limit)
    BY <2>5, <2>11 DEF Full
  <2>13. Admits(N, Held(G), w, limit)
    <3>1. {w[i] : i \in 1..0} = {}
      OBVIOUS
    <3>2. SubSeq(w, 1, Len(w)) = w
      BY <2>3
    <3>3. Cardinality(Held(G)) >= limit
      BY <2>1, <2>11
    <3> QED BY <2>5, <2>7, <3>1, <3>2, <3>3 DEF Admits
  <2> QED BY <1>2, <2>2, <2>9, <2>10, <2>12, <2>13 DEF w, N
<1> QED BY <1>1, <1>2

-----------------------------------------------------------------------------
\* An assignment of the gate.
LEMMA Assigned ==
  ASSUME NEW N, GateOK(N), Becomes(N)
  PROVE  Gate' = N
<1>1. N \in [ticket : [Requests -> Tickets], active : Nat, waiting : Seq(Requests)]
  BY DEF GateOK
<1>2. N = [ticket |-> N.ticket, active |-> N.active, waiting |-> N.waiting]
  BY <1>1
<1>3. ticket' = N.ticket /\ active' = N.active /\ waiting' = N.waiting
  BY DEF Becomes
<1> QED BY <1>2, <1>3 DEF Gate

\* A step of one call: the others keep their place or are served.
LEMMA CallStep ==
  ASSUME IInv, NEW r \in Requests, NEW N, GateOK(N), Full(N, limit),
         OthersMoveUp(Gate, N, r), Becomes(N), limit' = limit, OnlyCall(r), CallTypes',
         Stands(r)'
  PROVE  IInv'
<1>1. Gate' = N
  BY Assigned
<1>2. GateOK(Gate)' /\ Full(Gate, limit)'
  <2>1. GateOK(Gate') /\ Full(Gate', limit')
    BY <1>1
  <2> QED BY <2>1 DEF GateOK, Full, Held, Gate
<1>3. ASSUME NEW o \in Requests PROVE Stands(o)'
  <2>1. CASE o = r
    BY <2>1
  <2>2. CASE o # r
    <3>1. \/ ticket'[o] = ticket[o]
          \/ ticket[o] = "waiting" /\ ticket'[o] = "held"
      BY <1>1, <2>2 DEF OthersMoveUp, Gate
    <3>2. /\ pc'[o] = pc[o] /\ work'[o] = work[o] /\ streams'[o] = streams[o]
          /\ open'[o] = open[o] /\ shown'[o] = shown[o]
      BY <2>2 DEF OnlyCall
    <3>3. Stands(o)
      BY DEF IInv
    <3> QED BY <3>1, <3>2, <3>3 DEF Stands, CallOK
  <2> QED BY <2>1, <2>2
<1> QED BY <1>2, <1>3 DEF IInv

\* The same for a step that leaves the gate alone.
LEMMA QuietStep ==
  ASSUME IInv, NEW r \in Requests, UNCHANGED gateVars, OnlyCall(r), CallTypes', Stands(r)'
  PROVE  IInv'
<1>1. GateOK(Gate) /\ Full(Gate, limit)
  BY DEF IInv
<1>2. OthersMoveUp(Gate, Gate, r)
  BY DEF OthersMoveUp
<1>3. Becomes(Gate) /\ limit' = limit
  BY DEF Becomes, Gate, gateVars
<1> QED BY <1>1, <1>2, <1>3, CallStep

LEMMA InitIInv == Init => IInv
<1> SUFFICES ASSUME Init PROVE IInv
  OBVIOUS
<1>1. CallTypes /\ \A r \in Requests : Stands(r)
  BY DEF Init, CallTypes, Stands, CallOK
<1>2. Held(Gate) = {} /\ {r \in Requests : ticket[r] = "waiting"} = {}
  BY DEF Init, Held, Gate
<1>3. GateOK(Gate)
  <2>1. Distinct(<< >>) /\ Elems(<< >>) = {}
    BY DEF Distinct, Elems
  <2>2. /\ Gate.ticket = [r \in Requests |-> "none"] /\ Gate.active = 0
        /\ Gate.waiting = << >>
    BY DEF Init, Gate
  <2>3. Gate \in [ticket : [Requests -> Tickets], active : Nat, waiting : Seq(Requests)]
    BY <2>2 DEF Gate, Tickets
  <2>4. Gate.active = Cardinality(Held(Gate))
    BY <1>2, <2>2, FS_EmptySet
  <2>5. Elems(Gate.waiting) = {r \in Requests : Gate.ticket[r] = "waiting"}
    BY <2>1, <2>2
  <2> QED BY <2>1, <2>2, <2>3, <2>4, <2>5 DEF GateOK
<1>4. Full(Gate, limit)
  BY DEF Init, Full, Gate
<1> QED BY <1>1, <1>3, <1>4 DEF IInv

\* A call ends: its task is over and its lease is back.
LEMMA ExitStep ==
  ASSUME IInv, NEW r \in Requests, NEW N, NEW o \in BOOLEAN, Exit(r, N, o),
         GateOK(N), Full(N, limit), OthersMoveUp(Gate, N, r),
         N.ticket[r] \in {"none", "released"}, o => work[r] = "leaked"
  PROVE  IInv'
<1>1. CallTypes /\ Becomes(N) /\ limit' = limit
  BY DEF IInv, Exit
<1>2. CallTypes'
  BY <1>1 DEF CallTypes, Exit, Goto
<1>3. OnlyCall(r)
  BY <1>1 DEF CallTypes, Exit, Goto, OnlyCall
<1>4. Gate' = N
  BY <1>1, Assigned
<1>5. ticket'[r] \in {"none", "released"}
  BY <1>4 DEF Gate
<1>6. /\ pc'[r] = "done" /\ work'[r] \in {"none", "leaked"}
      /\ work[r] = "leaked" => work'[r] = "leaked"
      /\ streams'[r] = FALSE /\ shown'[r] = FALSE /\ open'[r] = o
  BY <1>1 DEF CallTypes, Exit, Goto
<1>7. Stands(r)'
  BY <1>5, <1>6 DEF Stands, CallOK
<1> QED BY <1>1, <1>2, <1>3, <1>7, CallStep

LEMMA JoinStep ==
  ASSUME IInv, NEW r \in Requests, Join(r)
  PROVE  IInv'
<1>1. /\ CallTypes /\ GateOK(Gate) /\ Full(Gate, limit) /\ Stands(r) /\ limit \in Limits
      /\ pc[r] = "new" /\ ticket[r] = "none"
  BY DEF IInv, CallTypes, Join, Stands, CallOK
<1>2. CASE Exit(r, Gate, FALSE)
  <2>1. Gate.ticket[r] = "none" /\ OthersMoveUp(Gate, Gate, r)
    BY <1>1 DEF Gate, OthersMoveUp
  <2> QED BY <1>1, <1>2, <2>1, ExitStep
<1>3. CASE ~Exit(r, Gate, FALSE)
  <2> DEFINE B == [Gate EXCEPT !.ticket[r] = "waiting", !.waiting = Append(Gate.waiting, r)]
             N == Refresh(B, limit)
  <2>1. GateOK(B) /\ B.ticket = [Gate.ticket EXCEPT ![r] = "waiting"]
    BY <1>1, Joined DEF Gate
  <2>2. Becomes(N)
    BY <1>3 DEF Join, Gate
  <2>3. Gate.ticket \in [Requests -> Tickets]
    BY <1>1 DEF GateOK
  <2> HIDE DEF B
  <2>4. /\ GateOK(N) /\ Full(N, limit)
        /\ \A o \in Requests : \/ N.ticket[o] = B.ticket[o]
                               \/ B.ticket[o] = "waiting" /\ N.ticket[o] = "held"
    BY <1>1, <2>1, RefreshServes
  <2> HIDE DEF N
  <2>5. OthersMoveUp(Gate, N, r) /\ N.ticket[r] \in {"waiting", "held"}
    BY <2>1, <2>3, <2>4 DEF OthersMoveUp
  <2>6. Gate' = N
    BY <2>2, <2>4, Assigned
  <2>7. /\ pc' = [pc EXCEPT ![r] = "waiting"]
        /\ UNCHANGED <<cancel, work, streams, open, shown, limit>>
    BY <1>3 DEF Join, Goto
  <2>8. CallTypes' /\ OnlyCall(r) /\ pc'[r] = "waiting"
    BY <1>1, <2>7 DEF CallTypes, OnlyCall
  <2>9. ticket'[r] \in {"waiting", "held"}
    BY <2>5, <2>6 DEF Gate
  <2>10. Stands(r)'
    BY <1>1, <2>7, <2>8, <2>9 DEF Stands, CallOK
  <2> QED BY <2>2, <2>4, <2>5, <2>7, <2>8, <2>10, CallStep
<1> QED BY <1>2, <1>3

LEMMA GiveUpStep ==
  ASSUME IInv, NEW r \in Requests, GiveUp(r)
  PROVE  IInv'
<1>1. /\ GateOK(Gate) /\ Full(Gate, limit) /\ limit \in Limits
      /\ Gate.ticket[r] \in {"waiting", "held"} /\ Exit(r, Leave(Gate, r), FALSE)
  BY DEF IInv, CallTypes, GiveUp, Stands, CallOK, Gate
<1>2. /\ GateOK(Leave(Gate, r)) /\ Full(Leave(Gate, r), limit)
      /\ OthersMoveUp(Gate, Leave(Gate, r), r) /\ Leave(Gate, r).ticket[r] = "released"
  BY <1>1, LeaveServes
<1> QED BY <1>1, <1>2, ExitStep

\* A call that ends with its lease, or after it.
LEMMA ReleasingExit ==
  ASSUME IInv, NEW r \in Requests, NEW o \in BOOLEAN, Exit(r, Release(Gate, r), o),
         ticket[r] \in {"held", "released"}, o => work[r] = "leaked"
  PROVE  IInv'
<1>1. GateOK(Gate) /\ Full(Gate, limit) /\ limit \in Limits
      /\ Gate.ticket[r] \in {"held", "released"}
  BY DEF IInv, CallTypes, Gate
<1>2. /\ GateOK(Release(Gate, r)) /\ Full(Release(Gate, r), limit)
      /\ OthersMoveUp(Gate, Release(Gate, r), r) /\ Release(Gate, r).ticket[r] = "released"
  BY <1>1, ReleaseServes
<1> QED BY <1>2, ExitStep

\* The steps that touch neither the gate nor the caller's exit.
LEMMA QuietSteps ==
  ASSUME IInv, NEW r \in Requests,
         \/ Disconnect(r) \/ Granted(r) \/ FirstTurn(r) \/ Answers(r) \/ Finishes(r)
         \/ Aborts(r) \/ Watch(r) \/ Close(r) \/ Interrupted(r)
         \/ Returns(r) /\ streams[r]
         \/ CleanedUp(r) /\ streams[r]
         \/ Closed(r) /\ work[r] = "unstarted"
  PROVE  IInv'
<1>1. CallTypes /\ Stands(r)
  BY DEF IInv
<1>2. CASE Disconnect(r)
  <2>1. UNCHANGED gateVars /\ OnlyCall(r) /\ CallTypes'
    BY <1>1, <1>2 DEF CallTypes, Disconnect, OnlyCall, gateVars
  <2>2. Stands(r)'
    BY <1>1, <1>2 DEF Stands, Disconnect, gateVars
  <2> QED BY <2>1, <2>2, QuietStep
<1>3. CASE Granted(r)
  <2>1. UNCHANGED gateVars /\ OnlyCall(r) /\ CallTypes'
    BY <1>1, <1>3 DEF CallTypes, Granted, Goto, OnlyCall, gateVars
  <2>2. Stands(r)'
    BY <1>1, <1>3 DEF CallTypes, Stands, CallOK, Granted, Goto, gateVars
  <2> QED BY <2>1, <2>2, QuietStep
<1>4. CASE FirstTurn(r)
  <2>1. UNCHANGED gateVars /\ OnlyCall(r) /\ CallTypes'
    BY <1>1, <1>4 DEF CallTypes, FirstTurn, OnlyCall, gateVars
  <2>2. Stands(r)'
    BY <1>1, <1>4 DEF CallTypes, Stands, CallOK, FirstTurn, gateVars
  <2> QED BY <2>1, <2>2, QuietStep
<1>5. CASE Answers(r)
  <2>1. UNCHANGED gateVars /\ OnlyCall(r) /\ CallTypes'
    BY <1>1, <1>5 DEF CallTypes, Answers, OnlyCall, gateVars
  <2>2. Stands(r)'
    BY <1>1, <1>5 DEF CallTypes, Stands, CallOK, Answers, gateVars
  <2> QED BY <2>1, <2>2, QuietStep
<1>6. CASE Finishes(r)
  <2>1. UNCHANGED gateVars /\ OnlyCall(r) /\ CallTypes'
    BY <1>1, <1>6 DEF CallTypes, Finishes, OnlyCall, gateVars
  <2>2. Stands(r)'
    BY <1>1, <1>6 DEF CallTypes, Stands, CallOK, Finishes, gateVars
  <2> QED BY <2>1, <2>2, QuietStep
<1>7. CASE Aborts(r)
  <2>1. UNCHANGED gateVars /\ OnlyCall(r) /\ CallTypes'
    BY <1>1, <1>7 DEF CallTypes, Aborts, Goto, Cancelled, OnlyCall, gateVars
  <2>2. Stands(r)'
    BY <1>1, <1>7 DEF CallTypes, Stands, CallOK, Aborts, Goto, Cancelled, gateVars
  <2> QED BY <2>1, <2>2, QuietStep
<1>8. CASE Watch(r)
  <2>1. UNCHANGED gateVars /\ OnlyCall(r) /\ CallTypes'
    BY <1>1, <1>8 DEF CallTypes, Watch, Cancelled, OnlyCall, gateVars
  <2>2. Stands(r)'
    BY <1>1, <1>8 DEF CallTypes, Stands, CallOK, Watch, Cancelled, gateVars
  <2> QED BY <2>1, <2>2, QuietStep
<1>9. CASE Close(r)
  <2>1. UNCHANGED gateVars /\ OnlyCall(r) /\ CallTypes'
    BY <1>1, <1>9 DEF CallTypes, Close, Goto, Cancelled, OnlyCall, gateVars
  <2>2. Stands(r)'
    BY <1>1, <1>9 DEF CallTypes, Stands, CallOK, Close, Goto, Cancelled, gateVars
  <2> QED BY <2>1, <2>2, QuietStep
<1>10. CASE Returns(r) /\ streams[r]
  <2>1. UNCHANGED gateVars /\ OnlyCall(r) /\ CallTypes'
    BY <1>1, <1>10 DEF CallTypes, Returns, Goto, OnlyCall, gateVars
  <2>2. Stands(r)'
    BY <1>1, <1>10 DEF CallTypes, Stands, CallOK, Returns, Goto, gateVars
  <2> QED BY <2>1, <2>2, QuietStep
<1>11. CASE Interrupted(r)
  <2>1. UNCHANGED gateVars /\ OnlyCall(r) /\ CallTypes'
    BY <1>1, <1>11 DEF CallTypes, Interrupted, OnlyCall, gateVars
  <2>2. Stands(r)'
    BY <1>1, <1>11 DEF CallTypes, Stands, CallOK, Interrupted, gateVars
  <2> QED BY <2>1, <2>2, QuietStep
<1>12. CASE CleanedUp(r) /\ streams[r]
  <2>1. UNCHANGED gateVars /\ OnlyCall(r) /\ CallTypes'
    BY <1>1, <1>12 DEF CallTypes, CleanedUp, Goto, OnlyCall, gateVars
  <2>2. Stands(r)'
    BY <1>1, <1>12 DEF CallTypes, Stands, CallOK, CleanedUp, Goto, gateVars
  <2> QED BY <2>1, <2>2, QuietStep
<1>13. CASE Closed(r) /\ work[r] = "unstarted"
  <2>1. UNCHANGED gateVars /\ OnlyCall(r) /\ CallTypes'
    BY <1>1, <1>13 DEF CallTypes, Closed, Goto, OnlyCall, gateVars
  <2>2. Stands(r)'
    BY <1>1, <1>13 DEF CallTypes, Stands, CallOK, Closed, Goto, gateVars
  <2> QED BY <2>1, <2>2, QuietStep
<1> QED BY <1>2, <1>3, <1>4, <1>5, <1>6, <1>7, <1>8, <1>9, <1>10, <1>11, <1>12, <1>13

\* The steps with which a producer, or an answer, gives the lease back.
LEMMA ReleasingSteps ==
  ASSUME IInv, NEW r \in Requests, Settles(r) \/ FirstOutput(r)
  PROVE  IInv'
<1>1. /\ CallTypes /\ Stands(r) /\ GateOK(Gate) /\ Full(Gate, limit) /\ limit \in Limits
  BY DEF IInv, CallTypes
<1>2. LET N == Release(Gate, r) IN
      /\ GateOK(N) /\ Full(N, limit) /\ OthersMoveUp(Gate, N, r)
      /\ Gate.ticket[r] # "held" => N = Gate
      /\ Gate.ticket[r] = "held" => N.ticket[r] = "released"
  BY <1>1, ReleaseServes
<1>3. CASE FirstOutput(r)
  <2>1. Becomes(Release(Gate, r)) /\ limit' = limit
    BY <1>3 DEF FirstOutput
  <2>2. Gate' = Release(Gate, r)
    BY <1>2, <2>1, Assigned
  <2>3. ticket[r] \in {"held", "released"} /\ ticket'[r] = "released"
    BY <1>1, <1>2, <1>3, <2>2 DEF FirstOutput, Stands, CallOK, Gate
  <2>4. OnlyCall(r) /\ CallTypes'
    BY <1>1, <1>3 DEF CallTypes, FirstOutput, OnlyCall
  <2>5. Stands(r)'
    BY <1>1, <1>3, <2>3 DEF CallTypes, Stands, CallOK, FirstOutput
  <2> QED BY <1>2, <2>1, <2>4, <2>5, CallStep
<1>4. CASE Settles(r) /\ pc[r] \in {"streaming", "joining"}
  <2>1. Becomes(Release(Gate, r)) /\ limit' = limit
    BY <1>4 DEF Settles
  <2>2. Gate' = Release(Gate, r)
    BY <1>2, <2>1, Assigned
  <2>3. ticket'[r] = "released"
    BY <1>1, <1>2, <1>4, <2>2 DEF Stands, CallOK, Gate
  <2>4. OnlyCall(r) /\ CallTypes'
    BY <1>1, <1>4 DEF CallTypes, Settles, OnlyCall
  <2>5. Stands(r)'
    BY <1>1, <1>4, <2>3 DEF CallTypes, Stands, CallOK, Settles
  <2> QED BY <1>2, <2>1, <2>4, <2>5, CallStep
<1>5. CASE Settles(r) /\ pc[r] \notin {"streaming", "joining"}
  <2>1. UNCHANGED gateVars
    BY <1>5 DEF Settles, Becomes, Gate, gateVars
  <2>2. OnlyCall(r) /\ CallTypes'
    BY <1>1, <1>5 DEF CallTypes, Settles, OnlyCall
  <2>3. Stands(r)'
    BY <1>1, <1>5, <2>1 DEF CallTypes, Stands, CallOK, Settles, gateVars
  <2> QED BY <2>1, <2>2, <2>3, QuietStep
<1> QED BY <1>3, <1>4, <1>5

\* The steps with which a call ends.
LEMMA EndingSteps ==
  ASSUME IInv, NEW r \in Requests,
         \/ Returns(r) /\ ~streams[r]
         \/ CleanedUp(r) /\ ~streams[r]
         \/ Closed(r) /\ work[r] # "unstarted"
         \/ Disposed(r) \/ Exhausted(r)
  PROVE  IInv'
<1>1. CallTypes /\ Stands(r) /\ GateOK(Gate) /\ Full(Gate, limit)
  BY DEF IInv
<1>2. open[r] \in BOOLEAN /\ streams[r] \in BOOLEAN
  BY <1>1 DEF CallTypes
<1>3. CASE Returns(r) /\ ~streams[r]
  BY <1>1, <1>2, <1>3, ReleasingExit DEF Returns, Ended, Stands, CallOK
<1>4. CASE CleanedUp(r) /\ ~streams[r]
  <2>1. /\ Exit(r, Release(Gate, r), open[r])
        /\ ticket[r] = "held" /\ (open[r] => work[r] = "leaked")
    BY <1>1, <1>4 DEF CleanedUp, Ended, Stands, CallOK
  <2> QED BY <1>2, <2>1, ReleasingExit
<1>5. CASE Closed(r) /\ work[r] # "unstarted"
  <2>1. /\ Exit(r, Release(Gate, r), open[r])
        /\ ticket[r] = "released" /\ (open[r] => work[r] = "leaked")
    BY <1>1, <1>5 DEF Closed, Ended, Stands, CallOK
  <2> QED BY <1>2, <2>1, ReleasingExit
<1>7. CASE Disposed(r)
  <2>1. PICK left \in {FALSE, open[r] /\ work[r] = "leaked"} :
          Exit(r, Release(Gate, r), left)
    BY <1>7 DEF Disposed
  <2>2. left \in BOOLEAN /\ (left => work[r] = "leaked")
    BY <1>2, <2>1
  <2>3. ticket[r] \in {"held", "released"}
    BY <1>1, <1>7 DEF Disposed, Stands, CallOK
  <2> QED BY <2>1, <2>2, <2>3, ReleasingExit
<1>6. CASE Exhausted(r)
  <2>1. /\ Exit(r, Gate, open[r]) /\ Gate.ticket[r] = "released"
        /\ open[r] => work[r] = "leaked"
    BY <1>1, <1>6 DEF Exhausted, Ended, Stands, CallOK, Gate
  <2>2. OthersMoveUp(Gate, Gate, r)
    BY DEF OthersMoveUp
  <2> QED BY <1>1, <1>2, <2>1, <2>2, ExitStep
<1> QED BY <1>3, <1>4, <1>5, <1>6, <1>7

LEMMA ResizeStep ==
  ASSUME IInv, NEW n \in Limits, Resize(n)
  PROVE  IInv'
<1> DEFINE N == Refresh(Gate, n)
<1>1. CallTypes /\ GateOK(Gate)
  BY DEF IInv
<1>2. /\ GateOK(N) /\ Full(N, n)
      /\ \A r \in Requests : \/ N.ticket[r] = Gate.ticket[r]
                             \/ Gate.ticket[r] = "waiting" /\ N.ticket[r] = "held"
  BY <1>1, RefreshServes
<1>3. Becomes(N) /\ limit' = n /\ UNCHANGED callVars
  BY DEF Resize
<1> HIDE DEF N
<1>4. Gate' = N
  BY <1>2, <1>3, Assigned
<1>5. GateOK(Gate') /\ Full(Gate', limit')
  BY <1>2, <1>3, <1>4
<1>6. GateOK(Gate)' /\ Full(Gate, limit)'
  BY <1>5 DEF GateOK, Full, Held, Gate
<1>7. CallTypes'
  BY <1>1, <1>3 DEF CallTypes, callVars
<1>8. ASSUME NEW r \in Requests PROVE Stands(r)'
  <2>1. ticket'[r] = ticket[r] \/ (ticket[r] = "waiting" /\ ticket'[r] = "held")
    BY <1>2, <1>4 DEF Gate
  <2>2. Stands(r)
    BY DEF IInv
  <2> QED BY <1>3, <2>1, <2>2 DEF Stands, CallOK, callVars
<1> QED BY <1>6, <1>7, <1>8 DEF IInv

LEMMA StepIInv == IInv /\ [Next]_vars => IInv'
<1> SUFFICES ASSUME IInv, [Next]_vars PROVE IInv'
  OBVIOUS
<1>1. CASE UNCHANGED vars
  BY <1>1 DEF IInv, vars, callVars, gateVars, CallTypes, GateOK, Full, Held, Gate, Stands
<1>2. ASSUME NEW r \in Requests, CallNext(r) PROVE IInv'
  <2>1. CASE Join(r)
    BY <2>1, JoinStep
  <2>2. CASE GiveUp(r)
    BY <2>2, GiveUpStep
  <2>3. CASE \/ Disconnect(r) \/ Granted(r) \/ FirstTurn(r) \/ Answers(r) \/ Finishes(r)
             \/ Aborts(r) \/ Watch(r) \/ Close(r) \/ Interrupted(r)
             \/ Returns(r) /\ streams[r]
             \/ CleanedUp(r) /\ streams[r]
             \/ Closed(r) /\ work[r] = "unstarted"
    BY <2>3, QuietSteps
  <2>4. CASE Settles(r) \/ FirstOutput(r)
    BY <2>4, ReleasingSteps
  <2>5. CASE \/ Returns(r) /\ ~streams[r]
             \/ CleanedUp(r) /\ ~streams[r]
             \/ Closed(r) /\ work[r] # "unstarted"
             \/ Disposed(r) \/ Exhausted(r)
    BY <2>5, EndingSteps
  <2> QED BY <1>2, <2>1, <2>2, <2>3, <2>4, <2>5 DEF CallNext
<1>3. ASSUME NEW n \in Limits, Resize(n) PROVE IInv'
  BY <1>3, ResizeStep
<1> QED BY <1>1, <1>2, <1>3 DEF Next, Quiescent

\* The gate's counter, queue and futures agree and every call stands where CallOK says,
\* in every reachable state (prompt_gate.py).
THEOREM InductiveInvariant == Spec => []IInv
<1> QED BY InitIInv, StepIInv, PTL DEF Spec

\* Type correctness: the counter never exceeds the calls that were made.
THEOREM TypeCorrect == Spec => []TypeOK
<1>1. IInv => TypeOK
  <2> SUFFICES ASSUME IInv PROVE TypeOK
    OBVIOUS
  <2>1. CallTypes /\ GateOK(Gate)
    BY DEF IInv
  <2>2. /\ ticket \in [Requests -> Tickets] /\ waiting \in Seq(Requests)
        /\ active = Cardinality(Held(Gate))
    BY <2>1 DEF GateOK, Gate
  <2>3. /\ Cardinality(Held(Gate)) \in Nat /\ Cardinality(Requests) \in Nat
        /\ Cardinality(Held(Gate)) <= Cardinality(Requests)
    BY ConstantsAssumption, FS_Subset, FS_CardinalityType DEF ConstantsAssumption, Held
  <2> QED BY <2>1, <2>2, <2>3 DEF TypeOK, CallTypes, Tickets
<1> QED BY <1>1, InductiveInvariant, PTL

\* A prompt that upstream may still process holds its lease while its factory or its
\* producer closes the exchange, however often the call is cancelled meanwhile; a
\* cancellation that lands inside the closing await itself is the exception, with the
\* stream closed before its producer's first turn (run, _cancel_once, _produce, aclose).
THEOREM LeasesKept == Spec => []PromptHoldsLease
<1>1. IInv => PromptHoldsLease
  <2> SUFFICES ASSUME IInv, NEW r \in Requests, open[r], ~shown[r]
               PROVE  ticket[r] = "held" \/ work[r] \in {"unstarted", "leaked"}
    BY DEF PromptHoldsLease
  <2>1. CallTypes /\ Stands(r)
    BY DEF IInv
  <2> QED BY <2>1 DEF CallTypes, Stands, CallOK
<1> QED BY <1>1, InductiveInvariant, PTL

\* A call that is over has awaited the close of its exchange, and left it open only if a
\* cancellation cut that await short (the finally blocks of run, aclose and _produce).
THEOREM ExchangesClosed == Spec => []NothingLeftOpen
<1>1. IInv => NothingLeftOpen
  <2> SUFFICES ASSUME IInv, NEW r \in Requests, pc[r] = "done", open[r]
               PROVE  work[r] = "leaked"
    BY DEF NothingLeftOpen
  <2>1. CallTypes /\ Stands(r)
    BY DEF IInv
  <2> QED BY <2>1 DEF CallTypes, Stands, CallOK
<1> QED BY <1>1, InductiveInvariant, PTL

-----------------------------------------------------------------------------
\* What FifoSlots calls admitting is what a change of the gate does.
LEMMA SlotsAdmit ==
  ASSUME NEW N, GateOK(N), Becomes(N), NEW h, NEW q, NEW n, Admits(N, h, q, n), limit' = n
  PROVE  LET k == IF Slots!Cardinality(h) >= n THEN 0
                  ELSE Slots!Least(Len(q), n - Slots!Cardinality(h))
         IN  /\ {r \in Requests : ticket'[r] = "held"} = h \cup {q[i] : i \in 1..k}
             /\ waiting' = SubSeq(q, k + 1, Len(q))
             /\ limit' = n
<1>1. Gate' = N
  BY Assigned
<1>2. {r \in Requests : ticket'[r] = "held"} = Held(N) /\ waiting' = N.waiting
  BY <1>1 DEF Held, Gate
<1>3. Slots!Cardinality(h) = Cardinality(h)
  BY Zenon DEF Slots!Cardinality, Cardinality
<1>4. Slots!Least(Len(q), n - Cardinality(h)) = Least(Len(q), n - Cardinality(h))
  BY DEF Slots!Least, Least
<1> QED BY <1>2, <1>3, <1>4 DEF Admits

\* release returns a place, once.
LEMMA SlotsReturn ==
  ASSUME IInv, NEW r \in Requests, Becomes(Release(Gate, r)), limit' = limit
  PROVE  Slots!Return(r) \/ UNCHANGED Slots!vars
<1> DEFINE N == Release(Gate, r)
<1>1. GateOK(Gate) /\ Full(Gate, limit) /\ limit \in Limits
  BY DEF IInv, CallTypes
<1>2. /\ GateOK(N)
      /\ Gate.ticket[r] # "held" => N = Gate
      /\ Gate.ticket[r] = "held" => Admits(N, Held(Gate) \ {r}, Gate.waiting, limit)
  BY <1>1, ReleaseServes
<1>3. Held(Gate) = {o \in Requests : ticket[o] = "held"} /\ Gate.waiting = waiting
  BY DEF Held, Gate
<1>4. CASE ticket[r] = "held"
  <2>1. Admits(N, Held(Gate) \ {r}, waiting, limit) /\ r \in Held(Gate)
    BY <1>2, <1>3, <1>4 DEF Gate
  <2> HIDE DEF N
  <2>2. Slots!Admit(Held(Gate) \ {r}, waiting, limit)
    <3>1. GateOK(N) /\ Becomes(N)
      BY <1>2 DEF N
    <3> QED BY <2>1, <3>1, SlotsAdmit DEF Slots!Admit
  <2> QED BY <1>3, <2>1, <2>2 DEF Slots!Return
<1>5. CASE ticket[r] # "held"
  <2>1. Gate' = Gate
    BY <1>2, <1>5, Assigned DEF Gate
  <2> QED BY <2>1 DEF Slots!vars, Gate
<1> QED BY <1>4, <1>5

\* acquire joins the queue at its end.
LEMMA SlotsJoin ==
  ASSUME IInv, NEW r \in Requests, Join(r)
  PROVE  Slots!Join(r) \/ UNCHANGED Slots!vars
<1>1. GateOK(Gate) /\ limit \in Limits /\ pc[r] = "new" /\ Gate.ticket[r] = "none"
  BY DEF IInv, CallTypes, Join, Stands, CallOK, Gate
<1>2. CASE Exit(r, Gate, FALSE)
  BY <1>2 DEF Exit, Becomes, Gate, Slots!vars
<1>3. CASE ~Exit(r, Gate, FALSE)
  <2> DEFINE B == [Gate EXCEPT !.ticket[r] = "waiting", !.waiting = Append(Gate.waiting, r)]
             N == Refresh(B, limit)
  <2>1. /\ GateOK(B) /\ B.waiting = Append(Gate.waiting, r) /\ Held(B) = Held(Gate)
        /\ r \notin Elems(Gate.waiting)
    BY <1>1, Joined
  <2>2. Becomes(N) /\ limit' = limit
    BY <1>3 DEF Join, Gate
  <2> HIDE DEF B
  <2>3. GateOK(N) /\ Admits(N, Held(B), B.waiting, limit)
    BY <1>1, <2>1, RefreshServes
  <2> HIDE DEF N
  <2>4. Slots!Admit(Held(B), B.waiting, limit)
    BY <2>2, <2>3, SlotsAdmit DEF Slots!Admit
  <2>5. Held(Gate) = {o \in Requests : ticket[o] = "held"} /\ Gate.waiting = waiting
    BY DEF Held, Gate
  <2>6. r \notin Held(Gate)
    BY <1>1 DEF Held
  <2>7. Slots!Elems(waiting) = Elems(waiting)
    BY DEF Slots!Elems, Elems
  <2> QED BY <2>1, <2>4, <2>5, <2>6, <2>7 DEF Slots!Join
<1> QED BY <1>2, <1>3

\* The except branch of acquire leaves the queue, or returns the place.
LEMMA SlotsGiveUp ==
  ASSUME IInv, NEW r \in Requests, GiveUp(r)
  PROVE  Slots!GiveUp(r) \/ Slots!Return(r)
<1> DEFINE N == Leave(Gate, r)
<1>1. /\ GateOK(Gate) /\ Full(Gate, limit) /\ limit \in Limits
      /\ Gate.ticket[r] \in {"waiting", "held"} /\ Becomes(N) /\ limit' = limit
  BY DEF IInv, CallTypes, GiveUp, Exit, Stands, CallOK, Gate
<1>2. /\ GateOK(N)
      /\ Gate.ticket[r] = "held" => Admits(N, Held(Gate) \ {r}, Gate.waiting, limit)
      /\ Gate.ticket[r] = "waiting" =>
           /\ r \in Elems(Gate.waiting)
           /\ Admits(N, Held(Gate), Without(Gate.waiting, r), limit)
  BY <1>1, LeaveServes
<1>3. Held(Gate) = {o \in Requests : ticket[o] = "held"} /\ Gate.waiting = waiting
  BY DEF Held, Gate
<1> HIDE DEF N
<1>4. CASE Gate.ticket[r] = "held"
  <2>1. Slots!Admit(Held(Gate) \ {r}, waiting, limit)
    <3>1. Admits(N, Held(Gate) \ {r}, waiting, limit)
      BY <1>2, <1>3, <1>4
    <3> QED BY <1>1, <1>2, <3>1, SlotsAdmit DEF Slots!Admit
  <2>2. r \in Held(Gate)
    BY <1>4 DEF Held
  <2> QED BY <1>3, <2>1, <2>2 DEF Slots!Return
<1>5. CASE Gate.ticket[r] = "waiting"
  <2>1. Slots!Admit(Held(Gate), Without(waiting, r), limit)
    <3>1. Admits(N, Held(Gate), Without(waiting, r), limit)
      BY <1>2, <1>3, <1>5
    <3> QED BY <1>1, <1>2, <3>1, SlotsAdmit DEF Slots!Admit
  <2>queued. r \in Elems(waiting)
    BY <1>2, <1>3, <1>5
  <2>2. Slots!Elems(waiting) = Elems(waiting)
    BY DEF Slots!Elems, Elems
  <2>3. Slots!Without(waiting, r) = Without(waiting, r)
    BY <2>2, Zenon DEF Slots!Without, Without
  <2> QED BY <1>3, <2>1, <2>queued, <2>2, <2>3 DEF Slots!GiveUp
<1> QED BY <1>1, <1>4, <1>5

\* A new setting is served at once.
LEMMA SlotsResize ==
  ASSUME IInv, NEW n \in Limits, Resize(n)
  PROVE  Slots!Resize(n)
<1> DEFINE N == Refresh(Gate, n)
<1>1. GateOK(Gate) /\ Becomes(N) /\ limit' = n
  BY DEF IInv, Resize
<1>2. GateOK(N) /\ Admits(N, Held(Gate), Gate.waiting, n)
  BY <1>1, RefreshServes
<1> HIDE DEF N
<1>3. Slots!Admit(Held(Gate), Gate.waiting, n)
  BY <1>1, <1>2, SlotsAdmit DEF Slots!Admit
<1>4. Held(Gate) = {o \in Requests : ticket[o] = "held"} /\ Gate.waiting = waiting
  BY DEF Held, Gate
<1> QED BY <1>3, <1>4 DEF Slots!Resize

\* Every step of the gate is a step of FifoSlots, or none.
LEMMA StepMaps == IInv /\ [Next]_vars => [Slots!Next]_Slots!vars
<1> SUFFICES ASSUME IInv, [Next]_vars
             PROVE  Slots!Next \/ UNCHANGED Slots!vars
  OBVIOUS
<1>1. CASE UNCHANGED vars
  BY <1>1 DEF vars, gateVars, Slots!vars
<1>2. ASSUME NEW r \in Requests, CallNext(r)
      PROVE  Slots!Join(r) \/ Slots!GiveUp(r) \/ Slots!Return(r) \/ UNCHANGED Slots!vars
  <2>1. CASE Join(r)
    BY <2>1, SlotsJoin
  <2>2. CASE GiveUp(r)
    BY <2>2, SlotsGiveUp
  <2>3. CASE \/ Disconnect(r) \/ Granted(r) \/ FirstTurn(r) \/ Answers(r) \/ Finishes(r)
             \/ Aborts(r) \/ Watch(r) \/ Close(r) \/ Interrupted(r)
             \/ Returns(r) /\ streams[r]
             \/ CleanedUp(r) /\ streams[r]
             \/ Closed(r) /\ work[r] = "unstarted"
    <3>1. UNCHANGED gateVars
      BY <2>3 DEF Disconnect, Granted, FirstTurn, Answers, Finishes, Aborts, Watch, Close,
                  Returns, Interrupted, CleanedUp, Closed, Exit
    <3> QED BY <3>1 DEF gateVars, Slots!vars
  <2>4. CASE \/ FirstOutput(r) \/ Disposed(r)
             \/ CleanedUp(r) /\ ~streams[r]
             \/ Closed(r) /\ work[r] # "unstarted"
             \/ Returns(r) /\ ~streams[r]
    <3>1. Becomes(Release(Gate, r)) /\ limit' = limit
      BY <2>4 DEF FirstOutput, Disposed, CleanedUp, Closed, Returns, Exit
    <3> QED BY <3>1, SlotsReturn
  <2>5. CASE Settles(r)
    <3>1. Becomes(Release(Gate, r)) \/ Becomes(Gate)
      BY <2>5 DEF Settles
    <3>2. limit' = limit
      BY <2>5 DEF Settles
    <3>3. CASE Becomes(Release(Gate, r))
      BY <3>2, <3>3, SlotsReturn
    <3>4. CASE Becomes(Gate)
      BY <3>2, <3>4 DEF Becomes, Gate, Slots!vars
    <3> QED BY <3>1, <3>3, <3>4
  <2>6. CASE Exhausted(r)
    BY <2>6 DEF Exhausted, Exit, Becomes, Gate, Slots!vars
  <2> QED BY <1>2, <2>1, <2>2, <2>3, <2>4, <2>5, <2>6 DEF CallNext
<1>3. ASSUME NEW n \in Limits, Resize(n) PROVE Slots!Next
  BY <1>3, SlotsResize DEF Slots!Next
<1>4. CASE Quiescent
  BY <1>4 DEF Quiescent, vars, gateVars, Slots!vars
<1> QED BY <1>1, <1>2, <1>3, <1>4 DEF Next, Slots!Next

\* Refinement: whatever races the grant, the gate is a first-come queue for limit places
\* (PromptGate.refresh, PromptLease.release, acquire).
THEOREM GateIsFifo == Spec => ImplementsFifoSlots
<1>1. Init => Slots!Init
  BY DEF Init, Slots!Init
<1>2. Spec => Slots!Spec
  BY <1>1, StepMaps, InductiveInvariant, PTL DEF Spec, Slots!Spec
<1> QED BY <1>2 DEF ImplementsFifoSlots
=============================================================================
