----------------------- MODULE InferenceAdmissionProofs -----------------------
(***************************************************************************)
(* Proofs about InferenceAdmission, for every number of requests, targets, *)
(* limits and events.                                                      *)
(*                                                                         *)
(* The argument has two levels.  StoreOK says that a store-and-leases pair *)
(* is consistent; every helper of the code (drain, release, queue, leave,  *)
(* fail) is shown to preserve it, whatever the store.  IInv adds what the  *)
(* position of a request says about its lease; each action is then a call  *)
(* of one helper on the current store.                                     *)
(***************************************************************************)
EXTENDS InferenceAdmission, FiniteSetTheorems, SequenceTheorems, TLAPS

(***************************************************************************)
(* Queues without repetitions.                                             *)
(***************************************************************************)

Distinct(s) == \A i, j \in 1..Len(s) : s[i] = s[j] => i = j

\* A queue without repetitions holds as many requests as it is long: the
\* counter may be advanced by the number of grants (_drain_inference_waiters).
LEMMA PrefixCardinality ==
  ASSUME NEW T, NEW s \in Seq(T), Distinct(s), NEW k \in 0..Len(s)
  PROVE  /\ IsFiniteSet({s[i] : i \in 1..k})
         /\ Cardinality({s[i] : i \in 1..k}) = k
<1> DEFINE P == {s[i] : i \in 1..k}
           f == [i \in 1..k |-> s[i]]
<1>1. f \in Bijection(1..k, P)
  BY DEF Distinct, Bijection, Injection, Surjection, IsInjective
<1>2. ExistsBijection(1..k, P)
  BY <1>1 DEF ExistsBijection
<1>3. k \in Nat
  OBVIOUS
<1>4. Cardinality(P) = k
  BY <1>2, <1>3, FS_CountingElements
<1>5. IsFiniteSet(P)
  BY <1>2, <1>3, FS_NatBijection
<1> QED BY <1>4, <1>5

\* What deque.remove leaves: the same requests but r, in the same order.
LEMMA WithoutProperties ==
  ASSUME NEW T, NEW s \in Seq(T), Distinct(s), NEW p \in 1..Len(s)
  PROVE  LET w == Without(s, s[p]) IN
         /\ w \in Seq(T)
         /\ Len(w) = Len(s) - 1
         /\ \A i \in 1..Len(w) : w[i] = IF i < p THEN s[i] ELSE s[i + 1]
<1> DEFINE at == CHOOSE i \in 1..Len(s) : s[i] = s[p]
<1>1. at = p
  BY DEF Distinct
<1>2. s[p] \in Elems(s)
  BY DEF Elems
<1> DEFINE g == [i \in 1..(Len(s) - 1) |-> IF i < p THEN s[i] ELSE s[i + 1]]
<1>3. Without(s, s[p]) = g
  BY <1>1, <1>2 DEF Without
<1>4. Len(s) - 1 \in Nat
  OBVIOUS
<1>5. \A i \in 1..(Len(s) - 1) : g[i] \in T
  OBVIOUS
<1>6. g \in Seq(T) /\ Len(g) = Len(s) - 1
  <2>1. g \in [1..(Len(s) - 1) -> T]
    BY <1>5
  <2> QED BY <2>1, <1>4
<1> QED BY <1>3, <1>6

\* A queue with a caller that was not in it.
LEMMA AppendElems ==
  ASSUME NEW T, NEW s \in Seq(T), Distinct(s), NEW r \in T, r \notin Elems(s)
  PROVE  LET w == Append(s, r) IN
         /\ w \in Seq(T) /\ Distinct(w) /\ Elems(w) = Elems(s) \cup {r}
<1> DEFINE w == Append(s, r)
<1>1. /\ w \in Seq(T) /\ Len(w) = Len(s) + 1 /\ Len(s) \in Nat
      /\ \A i \in 1..Len(s) : w[i] = s[i]
      /\ w[Len(s) + 1] = r
  BY AppendProperties, LenProperties
<1> HIDE DEF w
<1>2. \A i \in 1..Len(w) : i \in 1..Len(s) \/ i = Len(s) + 1
  BY <1>1
<1>3. \A i \in 1..Len(s) : i \in 1..Len(w) /\ w[i] \in Elems(s) /\ w[i] # r
  BY <1>1 DEF Elems
<1>4. Len(s) + 1 \in 1..Len(w)
  BY <1>1
<1>5. Distinct(w)
  BY <1>1, <1>2, <1>3 DEF Distinct
<1>6. Elems(w) = Elems(s) \cup {r}
  BY <1>1, <1>2, <1>3, <1>4 DEF Elems
<1> QED BY <1>1, <1>5, <1>6 DEF w

(***************************************************************************)
(* Consistent stores.                                                      *)
(***************************************************************************)

\* The consistency of a store S.
StoreType(S) == /\ S.slots \in [Targets -> SlotState]
                /\ S.lease \in [Requests -> LeaseState]
LeasesMatch(S, t) ==
  S.slots[t].leases = {r \in Requests : S.lease[r].status = "held" /\ S.lease[r].target = t}
CountMatches(S, t) == S.slots[t].running = Cardinality(S.slots[t].leases)
QueueMatches(S, t) ==
  /\ \A i \in 1..Len(S.slots[t].waiters) :
       /\ S.lease[S.slots[t].waiters[i]].status = "waiting"
       /\ S.lease[S.slots[t].waiters[i]].target = t
  /\ \A r \in Requests :
       S.lease[r].status = "waiting" /\ S.lease[r].target = t
         => \E i \in 1..Len(S.slots[t].waiters) : S.slots[t].waiters[i] = r
StoreOK(S) ==
  /\ StoreType(S)
  /\ \A t \in Targets :
       LeasesMatch(S, t) /\ CountMatches(S, t) /\ QueueMatches(S, t)
                         /\ Distinct(S.slots[t].waiters)
  /\ \A r \in Requests : ~S.lease[r].stale

-----------------------------------------------------------------------------
\* The number of grants stays within the queue and within the limit in force.
LEMMA AdmittedProperties ==
  ASSUME NEW s \in SlotState
  PROVE  /\ Admitted(s) \in 0..Len(s.waiters)
         /\ Effective(s) \in Nat
         /\ Admitted(s) < Len(s.waiters) => s.running + Admitted(s) >= Effective(s)
<1>1. /\ Len(s.waiters) \in Nat /\ s.running \in Nat /\ s.eff \in Nat /\ s.limit \in Nat
  BY LenProperties DEF SlotState
<1>2. Effective(s) \in Nat
  BY <1>1 DEF Effective
<1> QED BY <1>1, <1>2 DEF Admitted, Least

-----------------------------------------------------------------------------
\* What a drain may do to the leases: grant waiting ones.
Grants(S, N) ==
  \A r \in Requests :
    \/ N.lease[r] = S.lease[r]
    \/ /\ S.lease[r].status = "waiting"
       /\ N.lease[r] = [S.lease[r] EXCEPT !.status = "held"]

\* _drain_inference_waiters keeps a consistent store consistent, and leaves no
\* waiter behind a slot it could still grant.
LEMMA DrainPreserves ==
  ASSUME NEW S, StoreOK(S), NEW t \in Targets
  PROVE  LET N == Drain(S, t) IN
         /\ StoreOK(N)
         /\ Grants(S, N)
         /\ \A u \in Targets \ {t} : N.slots[u] = S.slots[u]
         /\ N.slots[t].limit = S.slots[t].limit /\ N.slots[t].eff = S.slots[t].eff
         /\ N.slots[t].waiters # << >> => S.slots[t].waiters # << >>
         /\ N.slots[t].waiters # << >> => N.slots[t].running >= Effective(N.slots[t])
<1> DEFINE s == S.slots[t]
           k == Admitted(s)
           granted == {s.waiters[i] : i \in 1..k}
           N == Drain(S, t)
           w == SubSeq(s.waiters, k + 1, Len(s.waiters))
           n == [s EXCEPT !.running = s.running + k,
                          !.leases = s.leases \cup granted,
                          !.waiters = w]
<1>1. s \in SlotState /\ s.waiters \in Seq(Requests) /\ s.leases \in SUBSET Requests
      /\ s.running \in Nat /\ Distinct(s.waiters)
  BY DEF StoreOK, StoreType, SlotState
<1>2. k \in 0..Len(s.waiters) /\ Effective(s) \in Nat /\ Len(s.waiters) \in Nat
      /\ (k < Len(s.waiters) => s.running + k >= Effective(s))
  BY <1>1, AdmittedProperties, LenProperties
<1>3. /\ N.slots = [S.slots EXCEPT ![t] = n]
      /\ N.lease = [r \in Requests |->
                      IF r \in granted THEN [S.lease[r] EXCEPT !.status = "held"]
                                       ELSE S.lease[r]]
  BY DEF Drain
<1>4. N.slots[t] = n /\ \A u \in Targets \ {t} : N.slots[u] = S.slots[u]
  BY <1>3 DEF StoreOK, StoreType
<1>5. \A r \in granted : r \in Requests /\ S.lease[r].status = "waiting"
                         /\ S.lease[r].target = t
  BY <1>1, <1>2 DEF StoreOK, QueueMatches
<1>6. /\ w \in Seq(Requests)
      /\ Len(w) = Len(s.waiters) - k
      /\ \A i \in 1..Len(w) : w[i] = s.waiters[k + i]
  <2>1. \A i \in (k + 1)..Len(s.waiters) : s.waiters[i] \in Requests
    BY <1>1, <1>2
  <2>2. /\ w \in Seq(Requests)
        /\ Len(w) = IF k + 1 <= Len(s.waiters) THEN Len(s.waiters) - (k + 1) + 1 ELSE 0
        /\ \A i \in 1..(Len(s.waiters) - (k + 1) + 1) : w[i] = s.waiters[(k + 1) + i - 1]
    <3>1. k + 1 \in Int /\ Len(s.waiters) \in Int
      BY <1>2
    <3> HIDE DEF k, s
    <3> QED BY <2>1, <3>1, SubSeqProperties
  <2> HIDE DEF w, k, s
  <2> QED BY <2>2, <1>2
<1>7. IsFiniteSet(granted) /\ Cardinality(granted) = k
  BY <1>1, <1>2, PrefixCardinality
<1>8. /\ n \in SlotState
      /\ n.running = s.running + k /\ n.leases = s.leases \cup granted
      /\ n.waiters = w /\ n.limit = s.limit /\ n.eff = s.eff
  <2>1. s.running + k \in Nat /\ s.leases \cup granted \in SUBSET Requests
    BY <1>1, <1>2, <1>5
  <2> HIDE DEF s, k, granted, w
  <2> QED BY <2>1, <1>1, <1>6 DEF SlotState
<1>9. \A r \in Requests :
        /\ N.lease[r] \in LeaseState
        /\ N.lease[r] = IF r \in granted THEN [S.lease[r] EXCEPT !.status = "held"]
                                         ELSE S.lease[r]
        /\ N.lease[r].status = IF r \in granted THEN "held" ELSE S.lease[r].status
        /\ N.lease[r].target = S.lease[r].target
        /\ N.lease[r].stale = S.lease[r].stale
  <2>1. \A r \in Requests : S.lease[r] \in LeaseState
    BY DEF StoreOK, StoreType
  <2> HIDE DEF granted, N
  <2> QED BY <2>1, <1>3 DEF LeaseState
<1>10. Grants(S, N)
  BY <1>9, <1>5 DEF Grants
<1>11. StoreType(N)
  <2>1. N.slots \in [Targets -> SlotState]
    BY <1>3, <1>8 DEF StoreOK, StoreType
  <2>2. N.lease \in [Requests -> LeaseState]
    <3> HIDE DEF granted
    <3> QED BY <1>3, <1>9
  <2> QED BY <2>1, <2>2 DEF StoreType
<1> HIDE DEF N, n, w, k, granted
<1>12. \A r \in Requests : ~N.lease[r].stale
  BY <1>9 DEF StoreOK
<1>13. LeasesMatch(N, t)
  <2>1. s.leases = {r \in Requests : S.lease[r].status = "held" /\ S.lease[r].target = t}
    BY DEF StoreOK, LeasesMatch
  <2>2. N.slots[t].leases = s.leases \cup granted
    BY <1>4, <1>8
  <2>3. \A r \in granted : r \in Requests /\ S.lease[r].target = t
    BY <1>5
  <2> HIDE DEF s
  <2> QED BY <2>1, <2>2, <2>3, <1>9 DEF LeasesMatch
<1>14. CountMatches(N, t)
  <2>1. IsFiniteSet(s.leases) /\ s.running = Cardinality(s.leases)
    BY <1>1, FS_Subset, ConstantsAssumption DEF StoreOK, CountMatches
  <2>2. s.leases \cap granted = {}
    BY <1>5 DEF StoreOK, LeasesMatch
  <2>3. Cardinality(s.leases \cup granted) =
          Cardinality(s.leases) + Cardinality(granted) - Cardinality(s.leases \cap granted)
    BY <2>1, <1>7, FS_Union
  <2>4. Cardinality({}) = 0
    BY FS_EmptySet
  <2>5. Cardinality(s.leases \cap granted) = 0
    BY <2>2, <2>4, Zenon
  <2>6. Cardinality(s.leases \cup granted) = s.running + k
    BY <2>1, <2>3, <2>5, <1>1, <1>2, <1>7
  <2> QED BY <2>6, <1>4, <1>8 DEF CountMatches
<1>15. QueueMatches(N, t) /\ Distinct(N.slots[t].waiters)
  <2>1. N.slots[t].waiters = w
    BY <1>4, <1>8
  <2>2. \A i, j \in 1..Len(s.waiters) : s.waiters[i] = s.waiters[j] => i = j
    BY <1>1 DEF Distinct
  <2>3. \A i \in 1..Len(s.waiters) : s.waiters[i] \in granted <=> i <= k
    BY <2>2, <1>2 DEF granted
  <2>4. \A i \in 1..Len(w) : k + i \in 1..Len(s.waiters) /\ ~(k + i <= k)
    BY <1>2, <1>6
  <2>5. Distinct(w)
    <3>1. \A i, j \in 1..Len(w) : s.waiters[k + i] = s.waiters[k + j] => k + i = k + j
      BY <2>2, <2>4
    <3>2. \A i, j \in 1..Len(w) : k + i = k + j => i = j
      BY <1>2, <1>6
    <3> QED BY <3>1, <3>2, <1>6 DEF Distinct
  <2>6. ASSUME NEW i \in 1..Len(w)
        PROVE  N.lease[w[i]].status = "waiting" /\ N.lease[w[i]].target = t
    <3>1. w[i] = s.waiters[k + i] /\ w[i] \notin granted /\ w[i] \in Requests
      BY <2>3, <2>4, <1>6, <1>1
    <3>2. S.lease[w[i]].status = "waiting" /\ S.lease[w[i]].target = t
      BY <3>1, <2>4 DEF StoreOK, QueueMatches
    <3> QED BY <3>1, <3>2, <1>9
  <2>7. ASSUME NEW r \in Requests, N.lease[r].status = "waiting", N.lease[r].target = t
        PROVE  \E i \in 1..Len(w) : w[i] = r
    <3>1. r \notin granted /\ S.lease[r].status = "waiting" /\ S.lease[r].target = t
      BY <2>7, <1>9
    <3>2. PICK j \in 1..Len(s.waiters) : s.waiters[j] = r
      BY <3>1 DEF StoreOK, QueueMatches
    <3>3. j - k \in 1..Len(w) /\ k + (j - k) = j
      BY <3>1, <3>2, <2>3, <1>2, <1>6
    <3> QED BY <3>2, <3>3, <1>6
  <2> QED BY <2>1, <2>5, <2>6, <2>7 DEF QueueMatches
<1>16. ASSUME NEW u \in Targets \ {t}
       PROVE  LeasesMatch(N, u) /\ CountMatches(N, u) /\ QueueMatches(N, u)
              /\ Distinct(N.slots[u].waiters)
  <2>1. N.slots[u] = S.slots[u]
    BY <1>4
  <2>2. \A r \in Requests : N.lease[r].target = u => N.lease[r].status = S.lease[r].status
                                                     /\ S.lease[r].target = u
    BY <1>5, <1>9
  <2>3. \A r \in Requests : S.lease[r].target = u => N.lease[r].status = S.lease[r].status
                                                     /\ N.lease[r].target = u
    BY <1>5, <1>9
  <2>4. LeasesMatch(S, u) /\ CountMatches(S, u) /\ QueueMatches(S, u)
        /\ Distinct(S.slots[u].waiters)
    BY DEF StoreOK
  <2>5. \A i \in 1..Len(S.slots[u].waiters) : S.slots[u].waiters[i] \in Requests
    BY ElementOfSeq DEF StoreOK, StoreType, SlotState
  <2>6. LeasesMatch(N, u)
    BY <2>1, <2>2, <2>3, <2>4 DEF LeasesMatch
  <2>7. QueueMatches(N, u)
    BY <2>1, <2>2, <2>3, <2>4, <2>5 DEF QueueMatches
  <2> QED BY <2>1, <2>4, <2>6, <2>7 DEF CountMatches
<1>17. StoreOK(N)
  BY <1>11, <1>12, <1>13, <1>14, <1>15, <1>16 DEF StoreOK
<1>18. N.slots[t].waiters # << >> => N.slots[t].running >= Effective(N.slots[t])
  <2>1. Effective(n) = Effective(s)
    BY <1>8 DEF Effective
  <2>2. n.waiters # << >> => Len(w) # 0
    BY <1>6, <1>8, EmptySeq
  <2> QED BY <2>1, <2>2, <1>2, <1>4, <1>6, <1>8
<1>19. N.slots[t].waiters # << >> => S.slots[t].waiters # << >>
  <2>1. n.waiters # << >> => Len(w) # 0
    BY <1>6, <1>8, EmptySeq
  <2>2. S.slots[t].waiters = << >> => Len(s.waiters) = 0
    BY EmptySeq
  <2> QED BY <2>1, <2>2, <1>2, <1>4, <1>6, <1>8
<1> QED BY <1>4, <1>8, <1>10, <1>17, <1>18, <1>19 DEF N
-----------------------------------------------------------------------------
\* Consistency of one target's entry.
EntryOK(S, t) == LeasesMatch(S, t) /\ CountMatches(S, t) /\ QueueMatches(S, t)
                                   /\ Distinct(S.slots[t].waiters)

\* An entry depends on the slot and on which requests hold or await the target.
LEMMA EntryFrame ==
  ASSUME NEW S, NEW N, NEW t \in Targets, StoreType(S), EntryOK(S, t),
         N.slots[t] = S.slots[t],
         \A r \in Requests : \/ N.lease[r].status = S.lease[r].status
                                /\ N.lease[r].target = S.lease[r].target
                             \/ /\ S.lease[r].target = t
                                     => S.lease[r].status \notin {"held", "waiting"}
                                /\ N.lease[r].target = t
                                     => N.lease[r].status \notin {"held", "waiting"}
  PROVE  EntryOK(N, t)
<1>1. \A i \in 1..Len(S.slots[t].waiters) : S.slots[t].waiters[i] \in Requests
  BY ElementOfSeq DEF StoreType, SlotState
<1>2. LeasesMatch(N, t)
  BY DEF EntryOK, LeasesMatch
<1>3. ASSUME NEW i \in 1..Len(S.slots[t].waiters)
      PROVE  LET r == S.slots[t].waiters[i] IN
             N.lease[r].status = "waiting" /\ N.lease[r].target = t
  <2> DEFINE r == S.slots[t].waiters[i]
  <2>1. r \in Requests
    BY <1>1, <1>3
  <2>2. S.lease[r].status = "waiting" /\ S.lease[r].target = t
    BY <1>3 DEF EntryOK, QueueMatches
  <2> HIDE DEF r
  <2>3. N.lease[r].status = "waiting" /\ N.lease[r].target = t
    BY <2>1, <2>2
  <2> QED BY <2>3 DEF r
<1>4. ASSUME NEW r \in Requests, N.lease[r].status = "waiting", N.lease[r].target = t
      PROVE  \E i \in 1..Len(S.slots[t].waiters) : S.slots[t].waiters[i] = r
  <2>1. S.lease[r].status = "waiting" /\ S.lease[r].target = t
    BY <1>4
  <2> QED BY <2>1 DEF EntryOK, QueueMatches
<1>5. QueueMatches(N, t)
  BY <1>3, <1>4 DEF QueueMatches
<1> QED BY <1>2, <1>5 DEF EntryOK, CountMatches

\* The limits are no part of an entry's consistency.
LEMMA EntryFields ==
  ASSUME NEW S, NEW N, NEW t, EntryOK(S, t), N.lease = S.lease,
         N.slots[t].running = S.slots[t].running, N.slots[t].leases = S.slots[t].leases,
         N.slots[t].waiters = S.slots[t].waiters
  PROVE  EntryOK(N, t)
<1>1. LeasesMatch(N, t)
  BY DEF EntryOK, LeasesMatch
<1>2. CountMatches(N, t)
  BY DEF EntryOK, CountMatches
<1>3. QueueMatches(N, t) /\ Distinct(N.slots[t].waiters)
  BY DEF EntryOK, QueueMatches
<1> QED BY <1>1, <1>2, <1>3 DEF EntryOK

\* An absent entry of _inference_admission reads as an empty, idle state.
LEMMA NoEntryType == NoEntry \in SlotState
<1>1. << >> \in Seq(Requests)
  BY EmptySeq
<1> QED BY <1>1 DEF NoEntry, Free, SlotState

\* An absent entry satisfies the accounting of a target nobody refers to.
LEMMA NoEntryOK ==
  ASSUME NEW N, NEW t, N.slots[t] = NoEntry,
         \A r \in Requests : N.lease[r].target = t
                               => N.lease[r].status \notin {"held", "waiting"}
  PROVE  EntryOK(N, t)
<1>1. /\ NoEntry.leases = {} /\ NoEntry.running = 0 /\ NoEntry.waiters = << >>
      /\ Len(NoEntry.waiters) = 0
  BY EmptySeq DEF NoEntry
<1>2. LeasesMatch(N, t)
  BY <1>1 DEF LeasesMatch
<1>3. CountMatches(N, t)
  BY <1>1, FS_EmptySet DEF CountMatches
<1>4. QueueMatches(N, t) /\ Distinct(N.slots[t].waiters)
  BY <1>1 DEF QueueMatches, Distinct
<1> QED BY <1>2, <1>3, <1>4 DEF EntryOK

\* Popping an entry nobody holds or awaits changes no lease.
LEMMA PopPreserves ==
  ASSUME NEW S, NEW t \in Targets, StoreType(S),
         \A r \in Requests : ~S.lease[r].stale,
         \A u \in Targets \ {t} : EntryOK(S, u),
         \A r \in Requests : S.lease[r].target = t
                               => S.lease[r].status \notin {"held", "waiting"}
  PROVE  /\ StoreOK(Pop(S, t))
         /\ Pop(S, t).lease = S.lease
         /\ Pop(S, t).slots[t] = NoEntry
         /\ \A u \in Targets \ {t} : Pop(S, t).slots[u] = S.slots[u]
<1> DEFINE N == Pop(S, t)
<1>1. N.lease = S.lease
  BY DEF Pop, StoreType
<1>2. N.slots = [S.slots EXCEPT ![t] = NoEntry]
  BY DEF Pop
<1>3. N.slots[t] = NoEntry /\ \A u \in Targets \ {t} : N.slots[u] = S.slots[u]
  BY <1>2 DEF StoreType
<1>4. StoreType(N)
  BY <1>1, <1>2, NoEntryType DEF StoreType
<1> HIDE DEF N
<1>5. EntryOK(N, t)
  BY <1>1, <1>3, NoEntryOK
<1>6. ASSUME NEW u \in Targets \ {t} PROVE EntryOK(N, u)
  BY <1>1, <1>3, EntryFrame
<1>7. StoreOK(N)
  BY <1>1, <1>4, <1>5, <1>6 DEF StoreOK, EntryOK
<1> QED BY <1>1, <1>3, <1>7 DEF N

\* An entry that is not present is held and awaited by nobody.
LEMMA AbsentUnused ==
  ASSUME NEW S, StoreOK(S), NEW t \in Targets, ~Present(S.slots[t])
  PROVE  \A r \in Requests : S.lease[r].target = t
                               => S.lease[r].status \notin {"held", "waiting"}
<1>1. /\ S.slots[t].running = 0 /\ S.slots[t].waiters = << >>
      /\ Len(S.slots[t].waiters) = 0
  BY EmptySeq DEF Present, StoreOK, StoreType, SlotState
<1>2. IsFiniteSet(S.slots[t].leases)
  <2>1. S.slots[t].leases \in SUBSET Requests
    BY DEF StoreOK, StoreType, SlotState
  <2> QED BY <2>1, FS_Subset, ConstantsAssumption
<1>3. S.slots[t].leases = {}
  BY <1>1, <1>2, FS_EmptySet DEF StoreOK, CountMatches
<1> QED BY <1>1, <1>3 DEF StoreOK, LeasesMatch, QueueMatches

\* Popping an idle entry preserves consistency.
LEMMA SettlePreserves ==
  ASSUME NEW S, StoreOK(S), NEW t \in Targets
  PROVE  /\ StoreOK(Settle(S, t))
         /\ Settle(S, t).lease = S.lease
         /\ \A u \in Targets \ {t} : Settle(S, t).slots[u] = S.slots[u]
         /\ Settle(S, t).slots[t] \in {S.slots[t], NoEntry}
<1>1. CASE Present(S.slots[t])
  BY <1>1 DEF Settle
<1>2. CASE ~Present(S.slots[t])
  <2>1. Settle(S, t) = Pop(S, t)
    BY <1>2 DEF Settle
  <2>2. /\ StoreType(S) /\ \A r \in Requests : ~S.lease[r].stale
        /\ \A u \in Targets \ {t} : EntryOK(S, u)
    BY DEF StoreOK, EntryOK
  <2> QED BY <2>1, <2>2, <1>2, AbsentUnused, PopPreserves
<1> QED BY <1>1, <1>2
-----------------------------------------------------------------------------
\* Nobody waits for the target beside a slot under the limit in force.
Drained(S, t) ==
  S.slots[t].waiters # << >> =>
    S.slots[t].running >= Effective(S.slots[t]) /\ S.slots[t].limit # 0

\* What a helper called for request r may do to the other requests' leases.
GrantsOthers(S, N, r) ==
  \A q \in Requests \ {r} :
    \/ N.lease[q] = S.lease[q]
    \/ /\ S.lease[q].status = "waiting"
       /\ N.lease[q] = [S.lease[q] EXCEPT !.status = "held"]

\* An absent entry keeps nobody waiting.
LEMMA NoEntryDrained ==
  ASSUME NEW S, NEW t, S.slots[t] = NoEntry
  PROVE  Drained(S, t)
BY DEF Drained, NoEntry

\* _release_inference_slot returns a slot at most once, passes it on, and keeps
\* the store consistent.
LEMMA ReleasePreserves ==
  ASSUME NEW S, StoreOK(S), NEW r \in Requests
  PROVE  LET N == Release(S, r) IN
         /\ StoreOK(N)
         /\ GrantsOthers(S, N, r)
         /\ N.lease[r].status =
              IF S.lease[r].status = "held" THEN "released" ELSE S.lease[r].status
         /\ N.lease[r].target = S.lease[r].target
         /\ N.lease[r].limit = S.lease[r].limit
         /\ (\A t \in Targets : Drained(S, t)) => (\A t \in Targets : Drained(N, t))
<1> DEFINE t == S.lease[r].target
           s == S.slots[t]
           released == [S.lease EXCEPT ![r] = [S.lease[r] EXCEPT !.status = "released"]]
           freed == [s EXCEPT !.running = IF s.running > 0 THEN s.running - 1 ELSE 0,
                              !.leases = s.leases \ {r}]
           F == [slots |-> [S.slots EXCEPT ![t] = freed], lease |-> released]
           D == Drain(F, t)
           N == Release(S, r)
<1>1. S.lease[r] \in LeaseState /\ t \in Targets /\ ~S.lease[r].stale
      /\ s \in SlotState
  BY DEF StoreOK, StoreType, LeaseState
<1>2. CASE S.lease[r].status # "held"
  <2>1. N = S
    BY <1>2 DEF Release
  <2> QED BY <2>1, <1>2 DEF GrantsOthers
<1>3. CASE S.lease[r].status = "held"
  <2>1. N = Settle(D, t)
    BY <1>1, <1>3 DEF Release
  <2>2. F.slots = [S.slots EXCEPT ![t] = freed] /\ F.lease = released
    OBVIOUS
  <2>3. /\ \A q \in Requests \ {r} : F.lease[q] = S.lease[q]
        /\ F.lease[r] \in LeaseState /\ F.lease[r].status = "released"
        /\ F.lease[r].target = t /\ F.lease[r].limit = S.lease[r].limit
        /\ F.lease[r].stale = S.lease[r].stale
        /\ F.lease \in [Requests -> LeaseState]
    BY <2>2, <1>1 DEF StoreOK, StoreType, LeaseState
  <2>4. /\ r \in s.leases /\ IsFiniteSet(s.leases)
        /\ s.running = Cardinality(s.leases) /\ s.running \in Nat
    <3>1. r \in s.leases /\ s.running = Cardinality(s.leases)
      BY <1>1, <1>3 DEF StoreOK, LeasesMatch, CountMatches
    <3>2. s.leases \in SUBSET Requests /\ s.running \in Nat
      BY <1>1 DEF SlotState
    <3> QED BY <3>1, <3>2, FS_Subset, ConstantsAssumption
  <2>5. /\ Cardinality(s.leases \ {r}) = s.running - 1
        /\ s.running - 1 \in Nat /\ s.running > 0
    <3>1. Cardinality(s.leases \ {r}) = Cardinality(s.leases) - 1
      BY <2>4, FS_RemoveElement
    <3>2. Cardinality(s.leases \ {r}) \in Nat
      BY <2>4, FS_RemoveElement, FS_CardinalityType
    <3> HIDE DEF s
    <3> QED BY <3>1, <3>2, <2>4
  <2>6. /\ freed \in SlotState
        /\ freed.running = s.running - 1 /\ freed.leases = s.leases \ {r}
        /\ freed.waiters = s.waiters /\ freed.limit = s.limit /\ freed.eff = s.eff
    BY <1>1, <2>5 DEF SlotState
  <2>7. F.slots[t] = freed /\ \A u \in Targets \ {t} : F.slots[u] = S.slots[u]
    BY <2>2, <1>1 DEF StoreOK, StoreType
  <2>8. StoreType(F)
    BY <2>2, <2>3, <2>6, <1>1 DEF StoreOK, StoreType
  <2> HIDE DEF F, D, freed
  <2>9. EntryOK(F, t)
    <3>1. s.leases = {q \in Requests : S.lease[q].status = "held" /\ S.lease[q].target = t}
      BY <1>1 DEF StoreOK, LeasesMatch
    <3>2. LeasesMatch(F, t)
      BY <3>1, <2>3, <2>6, <2>7 DEF LeasesMatch
    <3>3. CountMatches(F, t)
      BY <2>5, <2>6, <2>7 DEF CountMatches
    <3>4. \A i \in 1..Len(s.waiters) : s.waiters[i] \in Requests /\ s.waiters[i] # r
      <4>1. \A i \in 1..Len(s.waiters) : S.lease[s.waiters[i]].status = "waiting"
        BY <1>1 DEF StoreOK, QueueMatches
      <4> QED BY <4>1, <1>1, <1>3, ElementOfSeq DEF SlotState
    <3>5. QueueMatches(S, t) /\ Distinct(s.waiters)
      BY <1>1 DEF StoreOK
    <3>6. F.slots[t].waiters = s.waiters
      BY <2>6, <2>7
    <3>7. \A i \in 1..Len(s.waiters) : /\ F.lease[s.waiters[i]].status = "waiting"
                                       /\ F.lease[s.waiters[i]].target = t
      BY <3>4, <3>5, <2>3 DEF QueueMatches
    <3>8. \A q \in Requests : F.lease[q].status = "waiting" /\ F.lease[q].target = t
                                => \E i \in 1..Len(s.waiters) : s.waiters[i] = q
      BY <3>5, <2>3 DEF QueueMatches
    <3>9. QueueMatches(F, t)
      BY <3>6, <3>7, <3>8 DEF QueueMatches
    <3> QED BY <3>2, <3>3, <3>5, <3>6, <3>9 DEF EntryOK
  <2>10. ASSUME NEW u \in Targets \ {t} PROVE EntryOK(F, u)
    <3>1. EntryOK(S, u) /\ StoreType(S)
      BY DEF StoreOK, EntryOK
    <3>2. \A q \in Requests : \/ F.lease[q].status = S.lease[q].status
                                 /\ F.lease[q].target = S.lease[q].target
                              \/ S.lease[q].target # u /\ F.lease[q].target # u
      BY <2>3
    <3> QED BY <3>1, <3>2, <2>7, EntryFrame
  <2>11. StoreOK(F)
    BY <2>3, <2>8, <2>9, <2>10, <1>1 DEF StoreOK, EntryOK
  <2>12. /\ StoreOK(D) /\ Grants(F, D) /\ (Drained(S, t) => Drained(D, t))
         /\ \A u \in Targets \ {t} : D.slots[u] = F.slots[u]
    <3>1. F.slots[t].waiters = S.slots[t].waiters /\ F.slots[t].limit = S.slots[t].limit
      BY <2>6, <2>7
    <3> QED BY <3>1, <2>11, <1>1, DrainPreserves DEF D, Drained
  <2>13. /\ StoreOK(N) /\ N.lease = D.lease
         /\ \A u \in Targets \ {t} : N.slots[u] = D.slots[u]
         /\ N.slots[t] \in {D.slots[t], NoEntry}
    BY <2>1, <2>12, <1>1, SettlePreserves
  <2>14. GrantsOthers(S, N, r)
    BY <2>3, <2>12, <2>13 DEF Grants, GrantsOthers
  <2>15. N.lease[r] = F.lease[r]
    BY <2>3, <2>12, <2>13 DEF Grants
  <2>16. Drained(S, t) => Drained(N, t)
    BY <2>12, <2>13, NoEntryDrained DEF Drained
  <2>17. ASSUME NEW u \in Targets \ {t}, Drained(S, u) PROVE Drained(N, u)
    BY <2>7, <2>12, <2>13, <2>17 DEF Drained
  <2> HIDE DEF N
  <2> QED BY <2>3, <2>13, <2>14, <2>15, <2>16, <2>17, <1>3 DEF N
<1> QED BY <1>2, <1>3
-----------------------------------------------------------------------------
\* _acquire_inference_slot up to its await: a request without a lease joins the
\* queue, and may be granted at once.
LEMMA QueuePreserves ==
  ASSUME NEW S, StoreOK(S), NEW r \in Requests, NEW c \in Configs,
         S.lease[r].status \notin {"held", "waiting"}, c.limit # 0
  PROVE  LET N == Queue(S, r, c) IN
         /\ StoreOK(N)
         /\ GrantsOthers(S, N, r)
         /\ N.lease[r].status \in {"waiting", "held"}
         /\ N.lease[r].target = c.target /\ N.lease[r].limit = c.limit
         /\ (\A t \in Targets : Drained(S, t)) => (\A t \in Targets : Drained(N, t))
<1> DEFINE t == c.target
           s == S.slots[t]
           w == Append(s.waiters, r)
           joined == [s EXCEPT !.limit = c.limit, !.waiters = w]
           waiting == [status |-> "waiting", target |-> t, limit |-> c.limit, stale |-> FALSE]
           F == [slots |-> [S.slots EXCEPT ![t] = joined],
                 lease |-> [S.lease EXCEPT ![r] = waiting]]
           N == Queue(S, r, c)
<1>1. t \in Targets /\ c.limit \in Limits /\ c.limit \in Nat
  BY ConstantsAssumption DEF Configs
<1>2. s \in SlotState /\ s.waiters \in Seq(Requests) /\ Len(s.waiters) \in Nat
  BY <1>1, LenProperties DEF StoreOK, StoreType, SlotState
<1>3. N = Drain(F, t)
  BY DEF Queue
<1>4. /\ w \in Seq(Requests) /\ Len(w) = Len(s.waiters) + 1
      /\ \A i \in 1..Len(s.waiters) : w[i] = s.waiters[i]
      /\ w[Len(s.waiters) + 1] = r
  <2> HIDE DEF s
  <2> QED BY <1>2, AppendProperties
<1>5. /\ joined \in SlotState /\ joined.running = s.running /\ joined.leases = s.leases
      /\ joined.waiters = w /\ joined.limit = c.limit
  <2> HIDE DEF w
  <2> QED BY <1>1, <1>2, <1>4 DEF SlotState
<1>6. /\ F.lease[r] = waiting /\ \A q \in Requests \ {r} : F.lease[q] = S.lease[q]
      /\ F.lease \in [Requests -> LeaseState]
  BY <1>1 DEF StoreOK, StoreType, LeaseState
<1>7. F.slots[t] = joined /\ \A u \in Targets \ {t} : F.slots[u] = S.slots[u]
  BY <1>1 DEF StoreOK, StoreType
<1>8. StoreType(F)
  BY <1>1, <1>5, <1>6 DEF StoreOK, StoreType
<1>9. waiting.status = "waiting" /\ waiting.target = t /\ waiting.limit = c.limit
      /\ ~waiting.stale
  OBVIOUS
<1> HIDE DEF F, joined, w, waiting
<1>10. EntryOK(F, t)
  <2>1. LeasesMatch(S, t) /\ CountMatches(S, t) /\ QueueMatches(S, t) /\ Distinct(s.waiters)
    BY <1>1 DEF StoreOK
  <2>2. \A i \in 1..Len(s.waiters) : s.waiters[i] \in Requests /\ s.waiters[i] # r
    BY <2>1, <1>2, ElementOfSeq DEF QueueMatches
  <2>3. LeasesMatch(F, t)
    BY <2>1, <1>5, <1>6, <1>7, <1>9 DEF LeasesMatch
  <2>4. CountMatches(F, t)
    BY <2>1, <1>5, <1>7 DEF CountMatches
  <2>5. F.slots[t].waiters = w
    BY <1>5, <1>7
  <2>6. \A i \in 1..Len(w) : i \in 1..Len(s.waiters) \/ i = Len(s.waiters) + 1
    BY <1>2, <1>4
  <2>7. Distinct(w)
    BY <2>1, <2>2, <2>6, <1>4 DEF Distinct
  <2>8. \A i \in 1..Len(w) : F.lease[w[i]].status = "waiting" /\ F.lease[w[i]].target = t
    <3>1. ASSUME NEW i \in 1..Len(s.waiters)
          PROVE  F.lease[w[i]].status = "waiting" /\ F.lease[w[i]].target = t
      <4>1. w[i] = s.waiters[i] /\ w[i] \in Requests \ {r}
        BY <2>2, <1>4
      <4> QED BY <4>1, <2>1, <1>6 DEF QueueMatches
    <3>2. F.lease[w[Len(s.waiters) + 1]] = waiting
      BY <1>4, <1>6
    <3> QED BY <3>1, <3>2, <2>6, <1>9
  <2>9. ASSUME NEW q \in Requests, F.lease[q].status = "waiting", F.lease[q].target = t
        PROVE  \E i \in 1..Len(w) : w[i] = q
    <3>1. CASE q = r
      <4>1. Len(s.waiters) + 1 \in 1..Len(w)
        BY <1>2, <1>4
      <4> QED BY <3>1, <4>1, <1>4
    <3>2. CASE q # r
      <4>1. PICK i \in 1..Len(s.waiters) : s.waiters[i] = q
        BY <3>2, <2>1, <2>9, <1>6 DEF QueueMatches
      <4>2. i \in 1..Len(w)
        BY <1>2, <1>4
      <4> QED BY <4>1, <4>2, <1>4
    <3> QED BY <3>1, <3>2
  <2> QED BY <2>3, <2>4, <2>5, <2>7, <2>8, <2>9 DEF EntryOK, QueueMatches
<1>11. ASSUME NEW u \in Targets \ {t} PROVE EntryOK(F, u)
  <2>1. EntryOK(S, u) /\ StoreType(S)
    BY DEF StoreOK, EntryOK
  <2>2. ASSUME NEW q \in Requests
        PROVE  \/ F.lease[q].status = S.lease[q].status /\ F.lease[q].target = S.lease[q].target
               \/ S.lease[q].status \notin {"held", "waiting"} /\ F.lease[q].target # u
    BY <1>6, <1>9
  <2> QED BY <2>1, <2>2, <1>7, EntryFrame
<1>12. StoreOK(F)
  BY <1>6, <1>8, <1>9, <1>10, <1>11 DEF StoreOK, EntryOK
<1>13. /\ StoreOK(N) /\ Grants(F, N) /\ Drained(N, t)
       /\ \A u \in Targets \ {t} : N.slots[u] = F.slots[u]
  <2>1. F.slots[t].limit # 0
    BY <1>5, <1>7
  <2> QED BY <2>1, <1>1, <1>3, <1>12, DrainPreserves DEF Drained
<1>14. GrantsOthers(S, N, r)
  BY <1>6, <1>13 DEF Grants, GrantsOthers
<1>15. /\ N.lease[r].status \in {"waiting", "held"}
       /\ N.lease[r].target = t /\ N.lease[r].limit = c.limit
  <2>1. F.lease[r] \in LeaseState
    BY <1>6
  <2>2. /\ F.lease[r].status = "waiting"
        /\ F.lease[r].target = t /\ F.lease[r].limit = c.limit
    BY <1>6, <1>9
  <2>3. N.lease[r] = F.lease[r] \/ N.lease[r] = [F.lease[r] EXCEPT !.status = "held"]
    BY <1>13 DEF Grants
  <2> HIDE DEF N, t
  <2> QED BY <2>1, <2>2, <2>3 DEF LeaseState
<1>16. ASSUME NEW u \in Targets \ {t}, Drained(S, u) PROVE Drained(N, u)
  BY <1>7, <1>13, <1>16 DEF Drained
<1> QED BY <1>13, <1>14, <1>15, <1>16

\* _fail_admission_target takes every grant and every waiter of the target away.
LEMMA FailPreserves ==
  ASSUME NEW S, StoreOK(S), NEW t \in Targets
  PROVE  LET N == Fail(S, t) IN
         /\ StoreOK(N)
         /\ N.slots[t] = NoEntry
         /\ \A u \in Targets \ {t} : N.slots[u] = S.slots[u]
         /\ \A r \in Requests :
              N.lease[r] =
                IF S.lease[r].target = t /\ S.lease[r].status = "waiting"
                THEN [S.lease[r] EXCEPT !.status = "failed"]
                ELSE IF S.lease[r].target = t /\ S.lease[r].status = "held"
                THEN [S.lease[r] EXCEPT !.status = "revoked"]
                ELSE S.lease[r]
<1> DEFINE s == S.slots[t]
           failed == [r \in Requests |->
                        IF r \in Elems(s.waiters) THEN [S.lease[r] EXCEPT !.status = "failed"]
                        ELSE IF r \in s.leases THEN [S.lease[r] EXCEPT !.status = "revoked"]
                        ELSE S.lease[r]]
           F == [slots |-> S.slots, lease |-> failed]
           N == Fail(S, t)
<1>1. N = Pop(F, t)
  BY DEF Fail
<1>2. \A r \in Requests :
        r \in Elems(s.waiters) <=> S.lease[r].status = "waiting" /\ S.lease[r].target = t
  BY DEF StoreOK, QueueMatches, Elems
<1>3. \A r \in Requests :
        r \in s.leases <=> S.lease[r].status = "held" /\ S.lease[r].target = t
  BY DEF StoreOK, LeasesMatch
<1>4. F.slots = S.slots /\ F.lease = failed
  OBVIOUS
<1>5. \A r \in Requests :
        F.lease[r] =
          IF S.lease[r].target = t /\ S.lease[r].status = "waiting"
          THEN [S.lease[r] EXCEPT !.status = "failed"]
          ELSE IF S.lease[r].target = t /\ S.lease[r].status = "held"
          THEN [S.lease[r] EXCEPT !.status = "revoked"]
          ELSE S.lease[r]
  <2> HIDE DEF s
  <2> QED BY <1>2, <1>3, <1>4
<1>6. F.lease \in [Requests -> LeaseState]
  <2>1. \A r \in Requests : S.lease[r] \in LeaseState
    BY DEF StoreOK, StoreType
  <2>2. \A r \in Requests : F.lease[r] \in LeaseState
    BY <2>1, <1>5 DEF LeaseState
  <2> QED BY <2>2, <1>4
<1>7. \A r \in Requests :
        /\ ~F.lease[r].stale /\ F.lease[r].target = S.lease[r].target
        /\ S.lease[r].target # t => F.lease[r] = S.lease[r]
        /\ F.lease[r].target = t => F.lease[r].status \notin {"held", "waiting"}
  BY <1>5 DEF StoreOK, StoreType, LeaseState
<1> HIDE DEF F
<1>8. StoreType(F)
  BY <1>4, <1>6 DEF StoreOK, StoreType
<1>9. ASSUME NEW u \in Targets \ {t} PROVE EntryOK(F, u)
  <2>1. EntryOK(S, u) /\ StoreType(S)
    BY DEF StoreOK, EntryOK
  <2> QED BY <2>1, <1>4, <1>7, EntryFrame
<1>10. /\ StoreOK(Pop(F, t)) /\ Pop(F, t).lease = F.lease
       /\ Pop(F, t).slots[t] = NoEntry
       /\ \A u \in Targets \ {t} : Pop(F, t).slots[u] = F.slots[u]
  BY <1>7, <1>8, <1>9, PopPreserves
<1> HIDE DEF N
<1>11. /\ StoreOK(N) /\ N.lease = F.lease /\ N.slots[t] = NoEntry
       /\ \A u \in Targets \ {t} : N.slots[u] = S.slots[u]
  BY <1>1, <1>4, <1>10
<1> QED BY <1>5, <1>11 DEF N

\* A request that holds and awaits nothing may forget its lease.
LEMMA ForgetPreserves ==
  ASSUME NEW S, StoreOK(S), NEW r \in Requests, NEW t \in Targets,
         S.lease[r].status \notin {"held", "waiting"},
         NEW N, N.slots = S.slots, N.lease = [S.lease EXCEPT ![r] = NoLease(t)]
  PROVE  StoreOK(N)
<1>1. NoLease(t) \in LeaseState /\ NoLease(t).status = "none" /\ ~NoLease(t).stale
  BY DEF NoLease, LeaseState
<1>2. /\ N.lease[r] = NoLease(t) /\ \A q \in Requests \ {r} : N.lease[q] = S.lease[q]
      /\ StoreType(N)
  BY <1>1 DEF StoreOK, StoreType
<1>3. ASSUME NEW u \in Targets PROVE EntryOK(N, u)
  <2>1. EntryOK(S, u) /\ StoreType(S)
    BY DEF StoreOK, EntryOK
  <2>2. ASSUME NEW q \in Requests
        PROVE  \/ N.lease[q].status = S.lease[q].status /\ N.lease[q].target = S.lease[q].target
               \/ /\ S.lease[q].status \notin {"held", "waiting"}
                  /\ N.lease[q].status \notin {"held", "waiting"}
    BY <1>1, <1>2
  <2> QED BY <2>1, <2>2, EntryFrame
<1> QED BY <1>1, <1>2, <1>3 DEF StoreOK, EntryOK

\* The except branch of _acquire_inference_slot leaves the request neither
\* queued nor granted.
LEMMA LeavePreserves ==
  ASSUME NEW S, StoreOK(S), NEW r \in Requests
  PROVE  LET N == Leave(S, r) IN
         /\ StoreOK(N)
         /\ GrantsOthers(S, N, r)
         /\ N.lease[r].status \notin {"held", "waiting"}
         /\ N.lease[r].target = S.lease[r].target
         /\ (\A t \in Targets : Drained(S, t)) => (\A t \in Targets : Drained(N, t))
<1> DEFINE t == S.lease[r].target
           s == S.slots[t]
           w == Without(s.waiters, r)
           left == [s EXCEPT !.waiters = w]
           F == [slots |-> [S.slots EXCEPT ![t] = left],
                 lease |-> [S.lease EXCEPT ![r] = [S.lease[r] EXCEPT !.status = "none"]]]
           N == Leave(S, r)
<1>1. S.lease[r] \in LeaseState /\ t \in Targets /\ ~S.lease[r].stale /\ s \in SlotState
      /\ s.waiters \in Seq(Requests) /\ Distinct(s.waiters) /\ Len(s.waiters) \in Nat
  BY LenProperties DEF StoreOK, StoreType, LeaseState, SlotState
<1>2. CASE S.lease[r].status # "waiting"
  <2>1. N = Release(S, r)
    BY <1>2 DEF Leave
  <2> QED BY <2>1, <1>2, ReleasePreserves
<1>3. CASE S.lease[r].status = "waiting"
  <2>1. N = F
    BY <1>3 DEF Leave
  <2>2. PICK p \in 1..Len(s.waiters) : s.waiters[p] = r
    BY <1>1, <1>3 DEF StoreOK, QueueMatches
  <2>3. /\ w \in Seq(Requests) /\ Len(w) = Len(s.waiters) - 1
        /\ \A i \in 1..Len(w) : w[i] = IF i < p THEN s.waiters[i] ELSE s.waiters[i + 1]
    <3> HIDE DEF s
    <3> QED BY <2>2, <1>1, WithoutProperties
  <2>4. /\ left \in SlotState /\ left.running = s.running /\ left.leases = s.leases
        /\ left.waiters = w /\ left.limit = s.limit /\ left.eff = s.eff
    <3> HIDE DEF w
    <3> QED BY <2>3, <1>1 DEF SlotState
  <2>5. F.slots[t] = left /\ \A u \in Targets \ {t} : F.slots[u] = S.slots[u]
    BY <1>1 DEF StoreOK, StoreType
  <2>6. /\ \A q \in Requests \ {r} : F.lease[q] = S.lease[q]
        /\ F.lease[r].status = "none" /\ F.lease[r].target = t /\ ~F.lease[r].stale
        /\ F.lease \in [Requests -> LeaseState]
    BY <1>1 DEF StoreOK, StoreType, LeaseState
  <2>7. StoreType(F)
    BY <2>4, <2>6, <1>1 DEF StoreOK, StoreType
  <2> HIDE DEF F, left, w
  <2>8. EntryOK(F, t)
    <3>1. LeasesMatch(S, t) /\ CountMatches(S, t) /\ QueueMatches(S, t)
      BY <1>1 DEF StoreOK
    <3>2. LeasesMatch(F, t)
      BY <3>1, <2>4, <2>5, <2>6, <1>3 DEF LeasesMatch
    <3>3. CountMatches(F, t)
      BY <3>1, <2>4, <2>5 DEF CountMatches
    <3>4. \A i, j \in 1..Len(s.waiters) : s.waiters[i] = s.waiters[j] => i = j
      BY <1>1 DEF Distinct
    <3>5. \A i \in 1..Len(w) : /\ (IF i < p THEN i ELSE i + 1) \in 1..Len(s.waiters)
                               /\ (IF i < p THEN i ELSE i + 1) # p
      BY <2>3, <1>1
    <3>6. Distinct(w)
      <4>1. ASSUME NEW i \in 1..Len(w), NEW j \in 1..Len(w), w[i] = w[j]
            PROVE  i = j
        <5>1. (IF i < p THEN i ELSE i + 1) = (IF j < p THEN j ELSE j + 1)
          BY <4>1, <3>4, <3>5, <2>3
        <5> QED BY <5>1, <2>3, <1>1
      <4> QED BY <4>1 DEF Distinct
    <3>7. ASSUME NEW i \in 1..Len(w)
          PROVE  F.lease[w[i]].status = "waiting" /\ F.lease[w[i]].target = t
      <4>1. PICK j \in 1..Len(s.waiters) : w[i] = s.waiters[j] /\ j # p
        BY <3>5, <2>3
      <4>2. w[i] # r
        BY <4>1, <3>4, <2>2
      <4>3. s.waiters[j] \in Requests
        BY <1>1, ElementOfSeq
      <4>4. S.lease[s.waiters[j]].status = "waiting" /\ S.lease[s.waiters[j]].target = t
        BY <3>1 DEF QueueMatches
      <4>5. w[i] \in Requests \ {r}
        BY <4>1, <4>2, <4>3
      <4> QED BY <4>1, <4>4, <4>5, <2>6
    <3>8. ASSUME NEW q \in Requests, F.lease[q].status = "waiting", F.lease[q].target = t
          PROVE  \E i \in 1..Len(w) : w[i] = q
      <4>1. q # r /\ S.lease[q].status = "waiting" /\ S.lease[q].target = t
        BY <3>8, <2>6
      <4>2. PICK j \in 1..Len(s.waiters) : s.waiters[j] = q
        BY <4>1, <3>1 DEF QueueMatches
      <4>3. j # p
        BY <4>1, <4>2, <2>2
      <4>4. CASE j < p
        <5>1. j \in 1..Len(w)
          BY <4>4, <2>3, <1>1
        <5> QED BY <5>1, <4>2, <4>4, <2>3
      <4>5. CASE j > p
        <5>1. j - 1 \in 1..Len(w) /\ ~(j - 1 < p) /\ (j - 1) + 1 = j
          BY <4>5, <2>3, <1>1
        <5>2. w[j - 1] = s.waiters[(j - 1) + 1]
          BY <5>1, <2>3
        <5> QED BY <5>1, <5>2, <4>2
      <4> QED BY <4>3, <4>4, <4>5
    <3>9. F.slots[t].waiters = w
      BY <2>4, <2>5
    <3> QED BY <3>2, <3>3, <3>6, <3>7, <3>8, <3>9 DEF EntryOK, QueueMatches
  <2>9. ASSUME NEW u \in Targets \ {t} PROVE EntryOK(F, u)
    <3>1. EntryOK(S, u) /\ StoreType(S)
      BY DEF StoreOK, EntryOK
    <3>2. ASSUME NEW q \in Requests
          PROVE  \/ F.lease[q].status = S.lease[q].status /\ F.lease[q].target = S.lease[q].target
                 \/ S.lease[q].target # u /\ F.lease[q].target # u
      BY <2>6
    <3> QED BY <3>1, <3>2, <2>5, EntryFrame
  <2>10. StoreOK(F)
    BY <2>6, <2>7, <2>8, <2>9, <1>1 DEF StoreOK, EntryOK
  <2>11. Drained(S, t) => Drained(F, t)
    <3>1. Effective(left) = Effective(s)
      BY <2>4 DEF Effective
    <3>2. s.waiters # << >>
      BY <2>2, <1>1, EmptySeq
    <3> QED BY <3>1, <3>2, <2>4, <2>5 DEF Drained
  <2>12. ASSUME NEW u \in Targets \ {t}, Drained(S, u) PROVE Drained(F, u)
    BY <2>5, <2>12 DEF Drained
  <2>13. GrantsOthers(S, F, r)
    BY <2>6 DEF GrantsOthers
  <2> QED BY <2>1, <2>6, <2>10, <2>11, <2>12, <2>13
<1> QED BY <1>2, <1>3
-----------------------------------------------------------------------------
(***************************************************************************)
(* The inductive invariant.                                                *)
(***************************************************************************)
\* A lease and the position of its request agree.
PlaceOK(r) ==
  /\ lease[r].status = "waiting" => pc[r] = "queued"
  /\ lease[r].status = "held" => pc[r] \notin {"new", "done"}
  /\ pc[r] = "resolving" => lease[r].status \in {"held", "revoked"} \/ lease[r].limit = 0

\* An exchange is open only in between forwarding and closing, under a slot; the
\* reaper works on streams that were forwarded and not yet closed.
TransportOK(r) ==
  /\ conn[r] => /\ pc[r] \in {"open", "ready", "consuming", "closing", "dropped",
                              "orphaned", "nudged", "failing"}
                /\ lease[r].status \in {"held", "revoked"} \/ lease[r].limit = 0
  /\ r \in reaping => pc[r] \in {"ready", "consuming", "closing", "dropped",
                                 "orphaned", "nudged", "failing"}

IInv ==
  /\ TypeOK
  /\ StoreOK(Now)
  /\ \A t \in Targets : Drained(Now, t)
  /\ \A r \in Requests : PlaceOK(r)
  /\ \A r \in Requests : TransportOK(r)

\* A store that is consistent and owes nobody a slot.
Good(S) == StoreOK(S) /\ \A t \in Targets : Drained(S, t)

\* _release_inference_slot keeps the whole store consistent and drained.
LEMMA GoodRelease ==
  ASSUME NEW S, Good(S), NEW r \in Requests
  PROVE  LET N == Release(S, r) IN
         /\ Good(N) /\ GrantsOthers(S, N, r)
         /\ N.lease[r].status =
              IF S.lease[r].status = "held" THEN "released" ELSE S.lease[r].status
         /\ N.lease[r].target = S.lease[r].target
         /\ N.lease[r].limit = S.lease[r].limit
BY ReleasePreserves DEF Good

\* Goodness is about the two fields of a store.
LEMMA GoodFields ==
  ASSUME NEW S, NEW N, Good(S), N.slots = S.slots, N.lease = S.lease
  PROVE  Good(N)
BY DEF Good, StoreOK, StoreType, LeasesMatch, CountMatches, QueueMatches, Drained

\* A call that returns drops its lease without disturbing the store.
LEMMA GoodForget ==
  ASSUME NEW S, Good(S), NEW r \in Requests, NEW t \in Targets,
         S.lease[r].status \notin {"held", "waiting"},
         NEW N, N.slots = S.slots, N.lease = [S.lease EXCEPT ![r] = NoLease(t)]
  PROVE  Good(N)
<1>1. StoreOK(N)
  BY ForgetPreserves DEF Good
<1>2. \A u \in Targets : Drained(N, u)
  BY DEF Good, Drained
<1> QED BY <1>1, <1>2 DEF Good

\* The next state's store.
LEMMA GoodNext ==
  ASSUME NEW S, Good(S), slots' = S.slots, lease' = S.lease
  PROVE  Good(Now)'
<1> DEFINE N == [slots |-> slots', lease |-> lease']
<1>1. Good(N)
  BY GoodFields
<1> QED BY <1>1 DEF Now, Good, StoreOK, StoreType, LeasesMatch, CountMatches, QueueMatches,
                    Drained

-----------------------------------------------------------------------------
(***************************************************************************)
(* What a step of request r does to the others, and to r itself.           *)
(***************************************************************************)
OthersKept(r) ==
  /\ \A q \in Requests \ {r} :
       /\ pc'[q] = pc[q] /\ conn'[q] = conn[q]
       /\ \/ lease'[q] = lease[q]
          \/ /\ lease[q].status = "waiting"
             /\ lease'[q] = [lease[q] EXCEPT !.status = "held"]
  /\ reaping' \subseteq reaping \cup {r}

\* A step that moves one call leaves the other calls' invariants standing, if
\* their leases only advance.
LEMMA OthersOK ==
  ASSUME NEW r \in Requests, IInv, OthersKept(r)
  PROVE  \A q \in Requests \ {r} : PlaceOK(q)' /\ TransportOK(q)'
<1> SUFFICES ASSUME NEW q \in Requests \ {r} PROVE PlaceOK(q)' /\ TransportOK(q)'
  OBVIOUS
<1>1. lease[q] \in LeaseState /\ PlaceOK(q) /\ TransportOK(q)
  BY DEF IInv, TypeOK
<1>2. /\ pc'[q] = pc[q] /\ conn'[q] = conn[q] /\ (q \in reaping' => q \in reaping)
      /\ lease'[q].limit = lease[q].limit
      /\ \/ lease'[q].status = lease[q].status
         \/ lease[q].status = "waiting" /\ lease'[q].status = "held"
  BY <1>1 DEF OthersKept, LeaseState
<1> QED BY <1>1, <1>2 DEF PlaceOK, TransportOK

\* Ending a call whose slot was given back.
LEMMA ExitStep ==
  ASSUME IInv, NEW r \in Requests, NEW S, Good(S), GrantsOthers(Now, S, r),
         S.lease[r].status \notin {"held", "waiting"}, Exit(r, S),
         reaping' = reaping, r \notin reaping
  PROVE  Good(Now)' /\ OthersKept(r) /\ PlaceOK(r)' /\ TransportOK(r)'
<1> DEFINE t == S.lease[r].target
<1>1. slots' = S.slots /\ lease' = [S.lease EXCEPT ![r] = NoLease(t)]
  BY DEF Exit
<1>2. S.lease \in [Requests -> LeaseState] /\ t \in Targets
  BY DEF Good, StoreOK, StoreType, LeaseState
<1> DEFINE N == [slots |-> slots', lease |-> lease']
<1>3. Good(N)
  BY <1>1, <1>2, GoodForget
<1>4. Good(Now)'
  BY <1>3, GoodNext
<1>5. /\ pc' = [pc EXCEPT ![r] = "done"] /\ conn' = [conn EXCEPT ![r] = FALSE]
      /\ pc'[r] = "done" /\ ~conn'[r]
  BY DEF Exit, Goto, IInv, TypeOK
<1>6. lease'[r] = NoLease(t) /\ \A q \in Requests \ {r} : lease'[q] = S.lease[q]
  BY <1>1, <1>2
<1>7. OthersKept(r)
  BY <1>5, <1>6 DEF OthersKept, GrantsOthers, Now, IInv, TypeOK
<1>8. lease'[r].status = "none" /\ lease'[r].limit = 0
  BY <1>6 DEF NoLease
<1> QED BY <1>4, <1>5, <1>7, <1>8 DEF PlaceOK, TransportOK

\* Asking for a slot after giving the last one back.
LEMMA AskStep ==
  ASSUME IInv, NEW r \in Requests, NEW c, c.target \in Targets,
         c.limit # 0 => c \in Configs, NEW S, Good(S), GrantsOthers(Now, S, r),
         S.lease[r].status \notin {"held", "waiting"}, Ask(r, c, S), ~conn'[r], \A q \in Requests \ {r} : conn'[q] = conn[q],
         reaping' = reaping, r \notin reaping
  PROVE  Good(Now)' /\ OthersKept(r) /\ PlaceOK(r)' /\ TransportOK(r)'
<1>1. S.lease \in [Requests -> LeaseState]
  BY DEF Good, StoreOK, StoreType
<1>2. ASSUME slots' = S.slots, lease' = [S.lease EXCEPT ![r] = NoLease(c.target)],
             Goto(r, "resolving") \/ Goto(r, "done")
      PROVE  Good(Now)' /\ OthersKept(r) /\ PlaceOK(r)' /\ TransportOK(r)'
  <2> DEFINE N == [slots |-> slots', lease |-> lease']
  <2>1. Good(N)
    BY <1>1, <1>2, GoodForget
  <2>2. Good(Now)'
    BY <2>1, GoodNext
  <2>3. /\ pc'[r] \in {"resolving", "done"} /\ \A q \in Requests \ {r} : pc'[q] = pc[q]
        /\ lease'[r] = NoLease(c.target) /\ \A q \in Requests \ {r} : lease'[q] = S.lease[q]
    BY <1>1, <1>2 DEF Goto, IInv, TypeOK
  <2>4. OthersKept(r)
    BY <2>3 DEF OthersKept, GrantsOthers, Now
  <2>5. lease'[r].status = "none" /\ lease'[r].limit = 0
    BY <2>3 DEF NoLease
  <2> QED BY <2>2, <2>3, <2>4, <2>5 DEF PlaceOK, TransportOK
<1>3. CASE c.limit = 0 \/ cancel[r]
  <2>1. slots' = S.slots /\ lease' = [S.lease EXCEPT ![r] = NoLease(c.target)]
    BY <1>3 DEF Ask, Becomes
  <2>2. Goto(r, "resolving") \/ Goto(r, "done")
    BY <1>3 DEF Ask
  <2> QED BY <2>1, <2>2, <1>2
<1>4. CASE c.limit # 0 /\ ~cancel[r]
  <2> DEFINE N == Queue(S, r, c)
  <2>1. slots' = N.slots /\ lease' = N.lease /\ Goto(r, "queued")
    BY <1>4 DEF Ask, Becomes
  <2>2. /\ Good(N) /\ GrantsOthers(S, N, r) /\ N.lease[r].status \in {"waiting", "held"}
    BY <1>4, QueuePreserves DEF Good
  <2> HIDE DEF N
  <2>3. Good(Now)'
    BY <2>1, <2>2, GoodNext
  <2>4. pc'[r] = "queued" /\ \A q \in Requests \ {r} : pc'[q] = pc[q]
    BY <2>1 DEF Goto, IInv, TypeOK
  <2>5. OthersKept(r)
    <3> SUFFICES ASSUME NEW q \in Requests \ {r}
                 PROVE  \/ lease'[q] = lease[q]
                        \/ /\ lease[q].status = "waiting"
                           /\ lease'[q] = [lease[q] EXCEPT !.status = "held"]
      BY <2>4 DEF OthersKept
    <3>1. /\ S.lease[q] = lease[q] \/ /\ lease[q].status = "waiting"
                                      /\ S.lease[q] = [lease[q] EXCEPT !.status = "held"]
          /\ lease'[q] = S.lease[q] \/ /\ S.lease[q].status = "waiting"
                                       /\ lease'[q] = [S.lease[q] EXCEPT !.status = "held"]
      BY <2>1, <2>2 DEF GrantsOthers, Now
    <3>2. lease[q] \in LeaseState
      BY DEF IInv, TypeOK
    <3> QED BY <3>1, <3>2 DEF LeaseState
  <2> QED BY <2>1, <2>2, <2>3, <2>4, <2>5 DEF PlaceOK, TransportOK
<1> QED BY <1>3, <1>4

\* A step of request r that leaves the store alone.
LEMMA QuietStep ==
  ASSUME IInv, NEW r \in Requests, slots' = slots, lease' = lease,
         \A q \in Requests \ {r} : pc'[q] = pc[q] /\ conn'[q] = conn[q],
         reaping' \subseteq reaping \cup {r}
  PROVE  Good(Now)' /\ OthersKept(r)
<1>1. Good(Now) /\ Now.slots = slots /\ Now.lease = lease
  BY DEF IInv, Good, Now
<1>2. Good(Now)'
  BY <1>1, GoodNext
<1> QED BY <1>2 DEF OthersKept

-----------------------------------------------------------------------------
(***************************************************************************)
(* The steps.                                                              *)
(***************************************************************************)
Preserved == Good(Now)' /\ \A q \in Requests : PlaceOK(q)' /\ TransportOK(q)'

\* Every step of a call preserves the consistency of the store.
LEMMA RequestStep ==
  ASSUME IInv, NEW r \in Requests, RequestNext(r)
  PROVE  Preserved
<1>1. SUFFICES Good(Now)' /\ OthersKept(r) /\ PlaceOK(r)' /\ TransportOK(r)'
  BY OthersOK DEF Preserved
<1>2. /\ Good(Now) /\ Now.slots = slots /\ Now.lease = lease
      /\ PlaceOK(r) /\ TransportOK(r) /\ lease[r] \in LeaseState
      /\ pc \in [Requests -> Labels] /\ conn \in [Requests -> BOOLEAN]
      /\ lease[r].target \in Targets /\ conf \in Configs /\ conf.target \in Targets
  BY DEF IInv, Good, Now, TypeOK, LeaseState, Configs
<1> DEFINE R == Release(Now, r)
<1>3. /\ Good(R) /\ GrantsOthers(Now, R, r) /\ R.lease[r].status # "held"
      /\ R.lease[r].status = "waiting" => lease[r].status = "waiting"
  BY <1>2, GoodRelease
<1> HIDE DEF R
<1>4. GrantsOthers(Now, Now, r)
  BY DEF GrantsOthers
<1>5. CASE Begin(r)
  <2>1. /\ Ask(r, conf, Now) /\ pc[r] = "new" /\ conn' = conn /\ reaping' = reaping
    BY <1>5 DEF Begin
  <2>2. lease[r].status \notin {"held", "waiting"} /\ ~conn[r] /\ r \notin reaping
    BY <2>1, <1>2 DEF PlaceOK, TransportOK
  <2> QED BY <2>1, <2>2, <1>2, <1>4, AskStep
<1>6. CASE Disconnect(r)
  <2>1. UNCHANGED <<pc, conn, slots, lease, reaping>>
    BY <1>6 DEF Disconnect
  <2> QED BY <2>1, <1>2, QuietStep DEF PlaceOK, TransportOK
<1>7. CASE Resume(r)
  <2>1. /\ pc[r] = "queued" /\ lease[r].status \in {"held", "revoked"}
        /\ pc' = [pc EXCEPT ![r] = "resolving"] /\ UNCHANGED <<conn, slots, lease, reaping>>
    BY <1>7 DEF Resume, Goto
  <2> QED BY <2>1, <1>2, QuietStep DEF PlaceOK, TransportOK
<1>8. CASE LeaveQueue(r)
  <2> DEFINE L == Leave(Now, r)
  <2>1. pc[r] = "queued" /\ Exit(r, L) /\ reaping' = reaping
    BY <1>8 DEF LeaveQueue
  <2>2. Good(L) /\ GrantsOthers(Now, L, r) /\ L.lease[r].status \notin {"held", "waiting"}
    BY <1>2, LeavePreserves DEF Good
  <2>3. r \notin reaping
    BY <2>1, <1>2 DEF TransportOK
  <2> HIDE DEF L
  <2> QED BY <2>1, <2>2, <2>3, ExitStep
<1>9. CASE Forward(r)
  <2>1. /\ pc[r] = "resolving" /\ pc' = [pc EXCEPT ![r] = "open"]
        /\ conn' = [conn EXCEPT ![r] = TRUE] /\ UNCHANGED <<slots, lease, reaping>>
    BY <1>9 DEF Forward, Goto
  <2> QED BY <2>1, <1>2, QuietStep DEF PlaceOK, TransportOK
<1>10. CASE Requeue(r)
  <2>1. /\ pc[r] = "resolving" /\ Ask(r, conf, R) /\ conn' = conn /\ reaping' = reaping
    BY <1>10 DEF Requeue, R
  <2>2. R.lease[r].status \notin {"held", "waiting"} /\ ~conn[r] /\ r \notin reaping
    BY <2>1, <1>2, <1>3 DEF PlaceOK, TransportOK
  <2> QED BY <2>1, <2>2, <1>2, <1>3, AskStep
<1>11. ASSUME Exit(r, R), reaping' = reaping, r \notin reaping, pc[r] # "queued"
       PROVE  Good(Now)' /\ OthersKept(r) /\ PlaceOK(r)' /\ TransportOK(r)'
  <2>1. R.lease[r].status \notin {"held", "waiting"}
    BY <1>2, <1>3, <1>11 DEF PlaceOK
  <2> QED BY <2>1, <1>3, <1>11, ExitStep
<1>12. CASE ResolveFails(r)
  <2>1. pc[r] = "resolving" /\ Exit(r, R) /\ reaping' = reaping
    BY <1>12 DEF ResolveFails, R
  <2>2. r \notin reaping
    BY <2>1, <1>2 DEF TransportOK
  <2> QED BY <2>1, <2>2, <1>11
<1>13. CASE Close(r)
  BY <1>11, <1>13 DEF Close, R
<1>14. CASE ReplayRefused(r)
  BY <1>11, <1>14 DEF ReplayRefused, R
<1>15. CASE Replay(r)
  <2>1. /\ pc[r] = "nudged" /\ r \notin reaping /\ Ask(r, Current(r), R)
        /\ conn' = [conn EXCEPT ![r] = FALSE] /\ reaping' = reaping
    BY <1>15 DEF Replay, R
  <2>2. R.lease[r].status \notin {"held", "waiting"}
    BY <2>1, <1>2, <1>3 DEF PlaceOK
  <2>3. Current(r).target \in Targets /\ (Current(r).limit # 0 => Current(r) \in Configs)
    BY <1>2 DEF Current, Configs, LeaseState
  <2>4. ~conn'[r] /\ \A q \in Requests \ {r} : conn'[q] = conn[q]
    BY <2>1, <1>2
  <2> HIDE DEF Current
  <2> QED BY <2>1, <2>2, <2>3, <2>4, <1>3, AskStep
<1>16. CASE Accepted(r)
  <2>1. /\ pc[r] = "open" /\ UNCHANGED <<conn, slots, lease, reaping>>
        /\ pc' = [pc EXCEPT ![r] = "ready"] \/ pc' = [pc EXCEPT ![r] = "consuming"]
    BY <1>16 DEF Accepted, Goto
  <2> QED BY <2>1, <1>2, QuietStep DEF PlaceOK, TransportOK
<1>17. CASE Consume(r)
  <2>1. /\ pc[r] = "ready" /\ UNCHANGED <<conn, slots, lease, reaping>>
        /\ pc' = [pc EXCEPT ![r] = "consuming"]
    BY <1>17 DEF Consume, Goto
  <2> QED BY <2>1, <1>2, QuietStep DEF PlaceOK, TransportOK
<1>18. CASE Emit(r)
  <2>1. UNCHANGED <<pc, conn, slots, lease, reaping>>
    BY <1>18 DEF Emit
  <2> QED BY <2>1, <1>2, QuietStep DEF PlaceOK, TransportOK
<1>19. CASE Finish(r) \/ Collected(r)
  <2>1. /\ pc[r] \in {"open", "consuming", "dropped", "orphaned"}
        /\ UNCHANGED <<conn, slots, lease, reaping>> /\ pc' = [pc EXCEPT ![r] = "closing"]
    BY <1>19 DEF Finish, Collected, Goto
  <2> QED BY <2>1, <1>2, QuietStep DEF PlaceOK, TransportOK
<1>24. CASE StreamFails(r)
  <2>1. /\ pc[r] \in {"open", "consuming"} /\ UNCHANGED <<conn, slots, lease, reaping>>
        /\ pc' = [pc EXCEPT ![r] = "failing"]
    BY <1>24 DEF StreamFails, Goto
  <2> QED BY <2>1, <1>2, QuietStep DEF PlaceOK, TransportOK
<1>25. CASE ShowError(r) \/ ReplayUnsafe(r)
  <2>1. /\ pc[r] \in {"failing", "nudged"} /\ UNCHANGED <<slots, lease, reaping>>
        /\ pc' = [pc EXCEPT ![r] = "erring"] /\ conn' = [conn EXCEPT ![r] = FALSE]
        /\ r \notin reaping
    BY <1>25 DEF ShowError, ReplayUnsafe, Goto
  <2> QED BY <2>1, <1>2, QuietStep DEF PlaceOK, TransportOK
<1>20. CASE Abandon(r)
  <2>1. /\ pc[r] \in {"ready", "consuming", "erring"} /\ UNCHANGED <<conn, slots, lease, reaping>>
        /\ pc' = [pc EXCEPT ![r] = "dropped"] \/ pc' = [pc EXCEPT ![r] = "orphaned"]
    BY <1>20 DEF Abandon, Goto
  <2> QED BY <2>1, <1>2, QuietStep DEF PlaceOK, TransportOK
<1>21. CASE Nudged(r)
  <2>1. /\ pc[r] \in {"open", "consuming"} /\ UNCHANGED <<conn, slots, lease, reaping>>
        /\ pc' = [pc EXCEPT ![r] = "nudged"]
    BY <1>21 DEF Nudged, Goto
  <2> QED BY <2>1, <1>2, QuietStep DEF PlaceOK, TransportOK
<1>22. CASE ReapBegin(r)
  <2>1. /\ Dead(r) /\ reaping = {} /\ reaping' = {r} /\ UNCHANGED <<pc, conn, slots, lease>>
    BY <1>22 DEF ReapBegin
  <2> QED BY <2>1, <1>2, QuietStep DEF PlaceOK, TransportOK, Dead
<1>23. CASE ReapEnd(r)
  <2>1. /\ slots' = R.slots /\ lease' = R.lease /\ reaping' = {} /\ r \in reaping
        /\ conn' = [conn EXCEPT ![r] = FALSE] /\ pc' = pc
    BY <1>23 DEF ReapEnd, Becomes, R
  <2>2. Good(Now)'
    BY <2>1, <1>3, GoodNext
  <2>3. OthersKept(r)
    BY <2>1, <1>2, <1>3 DEF OthersKept, GrantsOthers, Now
  <2>4. PlaceOK(r)' /\ TransportOK(r)'
    BY <2>1, <1>2, <1>3 DEF PlaceOK, TransportOK
  <2> QED BY <2>2, <2>3, <2>4
<1> QED BY <1>5, <1>6, <1>7, <1>8, <1>9, <1>10, <1>12, <1>13, <1>14, <1>15, <1>16, <1>17,
           <1>18, <1>19, <1>20, <1>21, <1>22, <1>23, <1>24, <1>25 DEF RequestNext

\* Every step of the nudger or of the sweep preserves it.
LEMMA TargetStep ==
  ASSUME IInv, NEW t \in Targets, TargetNext(t)
  PROVE  Preserved
<1>1. /\ Good(Now) /\ Now.slots = slots /\ Now.lease = lease
      /\ slots \in [Targets -> SlotState] /\ lease \in [Requests -> LeaseState]
      /\ \A r \in Requests : PlaceOK(r) /\ TransportOK(r)
  BY DEF IInv, Good, Now, TypeOK
<1>2. CASE NudgeTrigger(t)
  <2> DEFINE n == [slots[t] EXCEPT !.eff = 1]
  <2>1. /\ slots' = [slots EXCEPT ![t] = n] /\ UNCHANGED <<pc, conn, lease, reaping>>
    BY <1>2 DEF NudgeTrigger
  <2>2. /\ n \in SlotState /\ n.running = slots[t].running /\ n.leases = slots[t].leases
        /\ n.waiters = slots[t].waiters /\ n.limit = slots[t].limit /\ n.eff = 1
    BY <1>1 DEF SlotState
  <2> DEFINE F == [slots |-> slots', lease |-> lease]
  <2> HIDE DEF n
  <2>3. F.slots[t] = n /\ \A u \in Targets \ {t} : F.slots[u] = slots[u]
    BY <2>1, <1>1
  <2>4. StoreType(F)
    BY <2>1, <2>2, <1>1 DEF StoreType
  <2>5. F.lease = lease /\ F.slots = slots'
    OBVIOUS
  <2> HIDE DEF F
  <2>6. ASSUME NEW u \in Targets PROVE EntryOK(F, u)
    <3>1. EntryOK(Now, u)
      BY <1>1 DEF Good, StoreOK, EntryOK
    <3>2. /\ F.slots[u].running = slots[u].running /\ F.slots[u].leases = slots[u].leases
          /\ F.slots[u].waiters = slots[u].waiters
      BY <2>2, <2>3
    <3> QED BY <3>1, <3>2, <2>5, <1>1, EntryFields
  <2>7. ASSUME NEW u \in Targets PROVE Drained(F, u)
    <3>1. CASE u = t
      <4>1. Drained(Now, t) /\ slots[t] \in SlotState
        BY <1>1 DEF Good
      <4>2. slots[t].waiters # << >> => slots[t].running >= 1 /\ slots[t].limit # 0
        BY <4>1, <1>1 DEF Drained, Effective, Free, SlotState
      <4> QED BY <4>2, <3>1, <2>2, <2>3 DEF Drained, Effective, Free
    <3>2. CASE u # t
      BY <3>2, <2>3, <1>1 DEF Good, Drained
    <3> QED BY <3>1, <3>2
  <2>8. Good(F)
    BY <2>4, <2>5, <2>6, <2>7, <1>1 DEF Good, StoreOK, EntryOK
  <2>9. Good(Now)'
    BY <2>1, <2>5, <2>8, GoodNext
  <2> QED BY <2>1, <2>9, <1>1 DEF Preserved, PlaceOK, TransportOK
<1>3. CASE NudgeRecover(t)
  <2> DEFINE next == Least(slots[t].limit, slots[t].eff) + 1
             eased == [slots[t] EXCEPT !.eff = IF next >= slots[t].limit THEN Free ELSE next]
             F == [slots |-> [slots EXCEPT ![t] = eased], lease |-> lease]
             D == Drain(F, t)
  <2>1. slots' = D.slots /\ lease' = D.lease /\ UNCHANGED <<pc, conn, reaping>>
    BY <1>3 DEF NudgeRecover, Becomes, reqVars
  <2>2. next \in Nat
    BY <1>1 DEF Least, SlotState
  <2>3. /\ eased \in SlotState /\ eased.running = slots[t].running
        /\ eased.leases = slots[t].leases /\ eased.waiters = slots[t].waiters
        /\ eased.limit = slots[t].limit
    <3> HIDE DEF next
    <3> QED BY <1>1, <2>2 DEF SlotState, Free
  <2> HIDE DEF eased, next
  <2>4. F.slots[t] = eased /\ \A u \in Targets \ {t} : F.slots[u] = slots[u]
    BY <1>1
  <2>5. F.lease = lease /\ StoreType(F)
    BY <2>3, <1>1 DEF StoreType
  <2> HIDE DEF F, D
  <2>6. ASSUME NEW u \in Targets PROVE EntryOK(F, u)
    <3>1. EntryOK(Now, u)
      BY <1>1 DEF Good, StoreOK, EntryOK
    <3>2. /\ F.slots[u].running = slots[u].running /\ F.slots[u].leases = slots[u].leases
          /\ F.slots[u].waiters = slots[u].waiters
      BY <2>3, <2>4
    <3> QED BY <3>1, <3>2, <2>5, <1>1, EntryFields
  <2>7. StoreOK(F)
    BY <2>5, <2>6, <1>1 DEF Good, StoreOK, EntryOK
  <2>8. /\ StoreOK(D) /\ Grants(F, D)
        /\ \A u \in Targets \ {t} : D.slots[u] = F.slots[u]
        /\ D.slots[t].limit = F.slots[t].limit
        /\ D.slots[t].waiters # << >> => F.slots[t].waiters # << >>
        /\ D.slots[t].waiters # << >> => D.slots[t].running >= Effective(D.slots[t])
    BY <2>7, DrainPreserves DEF D
  <2>9. \A u \in Targets : Drained(D, u)
    BY <2>3, <2>4, <2>8, <1>1 DEF Good, Drained
  <2>10. Good(Now)'
    BY <2>1, <2>8, <2>9, GoodNext DEF Good
  <2>11. ASSUME NEW q \in Requests
         PROVE  /\ lease'[q].limit = lease[q].limit
                /\ \/ lease'[q].status = lease[q].status
                   \/ lease[q].status = "waiting" /\ lease'[q].status = "held"
    <3>1. \/ lease'[q] = lease[q]
          \/ /\ lease[q].status = "waiting"
             /\ lease'[q] = [lease[q] EXCEPT !.status = "held"]
      BY <2>1, <2>5, <2>8 DEF Grants
    <3>2. lease[q] \in LeaseState
      BY <1>1
    <3> QED BY <3>1, <3>2 DEF LeaseState
  <2> QED BY <2>1, <2>10, <2>11, <1>1 DEF Preserved, PlaceOK, TransportOK
<1>4. CASE Sweep(t)
  <2> DEFINE N == Fail(Now, t)
  <2>1. slots' = N.slots /\ lease' = N.lease /\ UNCHANGED <<pc, conn, reaping>>
    BY <1>4 DEF Sweep, Becomes, reqVars
  <2>2. /\ StoreOK(N) /\ N.slots[t] = NoEntry
        /\ \A u \in Targets \ {t} : N.slots[u] = slots[u]
        /\ \A r \in Requests :
              N.lease[r] =
                IF lease[r].target = t /\ lease[r].status = "waiting"
                THEN [lease[r] EXCEPT !.status = "failed"]
                ELSE IF lease[r].target = t /\ lease[r].status = "held"
                THEN [lease[r] EXCEPT !.status = "revoked"]
                ELSE lease[r]
    <3>1. /\ StoreOK(N) /\ N.slots[t] = NoEntry
          /\ \A u \in Targets \ {t} : N.slots[u] = Now.slots[u]
          /\ \A r \in Requests :
                N.lease[r] =
                  IF Now.lease[r].target = t /\ Now.lease[r].status = "waiting"
                  THEN [Now.lease[r] EXCEPT !.status = "failed"]
                  ELSE IF Now.lease[r].target = t /\ Now.lease[r].status = "held"
                  THEN [Now.lease[r] EXCEPT !.status = "revoked"]
                  ELSE Now.lease[r]
      <4>1. StoreOK(Now)
        BY <1>1 DEF Good
      <4> QED BY <4>1, FailPreserves
    <3> HIDE DEF N
    <3> QED BY <3>1, <1>1
  <2> HIDE DEF N
  <2>3. ASSUME NEW u \in Targets PROVE Drained(N, u)
    <3>1. Drained(Now, u)
      BY <1>1 DEF Good
    <3> QED BY <3>1, <2>2, <1>1, NoEntryDrained DEF Drained
  <2>4. Good(Now)'
    BY <2>1, <2>2, <2>3, GoodNext DEF Good
  <2>5. ASSUME NEW r \in Requests
        PROVE  /\ lease'[r].limit = lease[r].limit
               /\ \/ lease'[r].status = lease[r].status
                  \/ lease[r].status = "waiting" /\ lease'[r].status = "failed"
                  \/ lease[r].status = "held" /\ lease'[r].status = "revoked"
    BY <2>1, <2>2, <1>1 DEF LeaseState
  <2> QED BY <2>1, <2>4, <2>5, <1>1 DEF Preserved, PlaceOK, TransportOK
<1> QED BY <1>2, <1>3, <1>4 DEF TargetNext

\* _fail_admission_target applied to any set of targets (reset_inference_admission,
\* _reap_container_admission) preserves it.
LEMMA ResetStep ==
  ASSUME IInv, NEW hit \in SUBSET Targets, Reset(hit)
  PROVE  Preserved
<1> DEFINE F == [slots |-> slots', lease |-> lease']
<1>1. /\ Good(Now) /\ Now.slots = slots /\ Now.lease = lease
      /\ slots \in [Targets -> SlotState] /\ lease \in [Requests -> LeaseState]
      /\ \A r \in Requests : PlaceOK(r) /\ TransportOK(r)
  BY DEF IInv, Good, Now, TypeOK
<1>2. ASSUME NEW t \in Targets
      PROVE  /\ Fail(Now, t).slots[t] = NoEntry
             /\ \A r \in Requests :
                  Fail(Now, t).lease[r] =
                    IF Now.lease[r].target = t /\ Now.lease[r].status = "waiting"
                    THEN [Now.lease[r] EXCEPT !.status = "failed"]
                    ELSE IF Now.lease[r].target = t /\ Now.lease[r].status = "held"
                    THEN [Now.lease[r] EXCEPT !.status = "revoked"]
                    ELSE Now.lease[r]
  <2>1. StoreOK(Now)
    BY <1>1 DEF Good
  <2> QED BY <2>1, FailPreserves
<1>3. /\ slots' = [t \in Targets |-> IF t \in hit THEN NoEntry ELSE slots[t]]
      /\ UNCHANGED <<pc, conn, reaping>>
  BY <1>2 DEF Reset, reqVars
<1>4. ASSUME NEW r \in Requests
      PROVE  /\ lease'[r] \in LeaseState
             /\ lease'[r].target = lease[r].target /\ lease'[r].limit = lease[r].limit
             /\ lease'[r].stale = lease[r].stale
             /\ lease[r].target \notin hit => lease'[r].status = lease[r].status
             /\ lease[r].target \in hit => lease'[r].status \notin {"held", "waiting"}
             /\ \/ lease'[r].status = lease[r].status
                \/ lease[r].status = "waiting" /\ lease'[r].status = "failed"
                \/ lease[r].status = "held" /\ lease'[r].status = "revoked"
  <2>1. lease[r] \in LeaseState /\ lease[r].target \in Targets
    BY <1>1 DEF LeaseState
  <2>2. lease'[r] = IF lease[r].target \in hit THEN Fail(Now, lease[r].target).lease[r]
                                               ELSE lease[r]
    BY DEF Reset
  <2>3. lease'[r] = IF lease[r].target \in hit
                    THEN IF lease[r].status = "waiting"
                         THEN [lease[r] EXCEPT !.status = "failed"]
                         ELSE IF lease[r].status = "held"
                         THEN [lease[r] EXCEPT !.status = "revoked"]
                         ELSE lease[r]
                    ELSE lease[r]
    BY <2>1, <2>2, <1>1, <1>2
  <2> QED BY <2>1, <2>3 DEF LeaseState
<1>5. F.slots = slots' /\ F.lease = lease'
  OBVIOUS
<1>6. lease' \in [Requests -> LeaseState]
  <2>1. lease' = [r \in Requests |->
                   IF lease[r].target \in hit THEN Fail(Now, lease[r].target).lease[r]
                                              ELSE lease[r]]
    BY DEF Reset
  <2> QED BY <2>1, <1>4
<1> HIDE DEF F
<1>7. StoreType(F)
  BY <1>1, <1>3, <1>5, <1>6, NoEntryType DEF StoreType
<1>8. ASSUME NEW t \in Targets PROVE EntryOK(F, t) /\ Drained(F, t)
  <2>1. CASE t \in hit
    <3>1. F.slots[t] = NoEntry
      BY <2>1, <1>3, <1>5
    <3>2. \A r \in Requests : F.lease[r].target = t
                                => F.lease[r].status \notin {"held", "waiting"}
      BY <2>1, <1>4, <1>5
    <3> QED BY <3>1, <3>2, NoEntryOK, NoEntryDrained
  <2>2. CASE t \notin hit
    <3>1. F.slots[t] = Now.slots[t]
      BY <2>2, <1>1, <1>3, <1>5
    <3>2. EntryOK(Now, t) /\ Drained(Now, t) /\ StoreType(Now)
      BY <1>1 DEF Good, StoreOK, EntryOK
    <3>3. ASSUME NEW r \in Requests
          PROVE  \/ /\ F.lease[r].status = Now.lease[r].status
                    /\ F.lease[r].target = Now.lease[r].target
                 \/ Now.lease[r].target # t /\ F.lease[r].target # t
      BY <2>2, <1>1, <1>4, <1>5
    <3>4. EntryOK(F, t)
      BY <3>1, <3>2, <3>3, EntryFrame
    <3> QED BY <3>1, <3>2, <3>4 DEF Drained
  <2> QED BY <2>1, <2>2
<1>9. \A r \in Requests : ~F.lease[r].stale
  BY <1>1, <1>4, <1>5 DEF Good, StoreOK
<1>10. Good(Now)'
  <2>1. Good(F)
    BY <1>7, <1>8, <1>9 DEF Good, StoreOK, EntryOK
  <2> QED BY <2>1, <1>5, GoodNext
<1> QED BY <1>1, <1>3, <1>4, <1>10 DEF Preserved, PlaceOK, TransportOK

\* Steps that touch neither the store nor a request's place.
LEMMA IdleStep ==
  ASSUME IInv, UNCHANGED <<pc, conn, slots, lease, reaping>>
  PROVE  Preserved
<1>1. Good(Now) /\ Now.slots = slots /\ Now.lease = lease
  BY DEF IInv, Good, Now
<1>2. Good(Now)'
  BY <1>1, GoodNext
<1> QED BY <1>2 DEF Preserved, IInv, PlaceOK, TransportOK

\* Every step of the specification preserves it.
LEMMA StorePreserved ==
  ASSUME IInv, [Next]_vars
  PROVE  Preserved
<1>1. ASSUME NEW r \in Requests, RequestNext(r) PROVE Preserved
  BY <1>1, RequestStep
<1>2. ASSUME NEW t \in Targets, TargetNext(t) PROVE Preserved
  BY <1>2, TargetStep
<1>3. CASE ResetAll
  <2>1. Reset({t \in Targets : Present(slots[t])})
    BY <1>3 DEF ResetAll
  <2> QED BY <2>1, ResetStep
<1>4. CASE StopContainer
  <2>1. Reset({conf.target}) /\ {conf.target} \in SUBSET Targets
    BY <1>4 DEF StopContainer, IInv, TypeOK, Configs
  <2> QED BY <2>1, ResetStep
<1>5. CASE Crash \/ SetNudging
  BY <1>5, IdleStep DEF Crash, SetNudging, reqVars
<1>6. ASSUME NEW c \in Configs, Reconfigure(c) PROVE Preserved
  BY <1>6, IdleStep DEF Reconfigure, reqVars
<1>7. CASE UNCHANGED vars
  BY <1>7, IdleStep DEF vars, reqVars
<1> QED BY <1>1, <1>2, <1>3, <1>4, <1>5, <1>6, <1>7 DEF Next, Quiescent

\* The types of everything but the store.
RestType ==
  /\ pc \in [Requests -> Labels]
  /\ cancel \in [Requests -> BOOLEAN]
  /\ tracked \in [Requests -> BOOLEAN]
  /\ conn \in [Requests -> BOOLEAN]
  /\ shown \in [Requests -> {"nothing", "headers", "tokens"}]
  /\ nudge \in [Requests -> BOOLEAN]
  /\ conf \in Configs
  /\ up \in BOOLEAN /\ nudging \in BOOLEAN
  /\ reaping \in SUBSET Requests
  /\ events \in 0..MaxEvents

\* Every step keeps the types; those of the store follow from its consistency.
LEMMA TypePreserved ==
  ASSUME IInv, [Next]_vars, Good(Now)'
  PROVE  TypeOK'
<1>1. slots' \in [Targets -> SlotState] /\ lease' \in [Requests -> LeaseState]
  BY DEF Good, StoreOK, StoreType, Now
<1>2. RestType
  BY DEF IInv, TypeOK, RestType
<1>3. ASSUME NEW r \in Requests, RequestNext(r) PROVE RestType'
  <2>1. CASE \/ Disconnect(r) \/ Resume(r) \/ Forward(r) \/ Accepted(r) \/ Consume(r)
             \/ Emit(r) \/ StreamFails(r) \/ ShowError(r) \/ Finish(r) \/ Abandon(r)
             \/ Collected(r) \/ Nudged(r) \/ ReplayUnsafe(r) \/ ReapBegin(r) \/ ReapEnd(r)
    BY <1>2, <2>1 DEF RestType, Disconnect, Resume, Forward, Accepted, Consume, Emit,
       StreamFails, ShowError, Finish, Abandon, Collected, Nudged, ReplayUnsafe, ReapBegin,
       ReapEnd, Goto, envVars, Labels
  <2>2. ASSUME NEW S, Exit(r, S), UNCHANGED <<envVars, reaping>> PROVE RestType'
    BY <1>2, <2>2 DEF RestType, Exit, Goto, envVars, Labels
  <2>3. CASE LeaveQueue(r) \/ ResolveFails(r) \/ Close(r) \/ ReplayRefused(r)
    BY <2>2, <2>3 DEF LeaveQueue, ResolveFails, Close, ReplayRefused
  <2>4. ASSUME NEW S, NEW c, Ask(r, c, S), UNCHANGED <<shown, envVars, reaping>>,
               conn' = conn \/ conn' = [conn EXCEPT ![r] = FALSE],
               nudge' = nudge \/ nudge' = [nudge EXCEPT ![r] = FALSE]
        PROVE  RestType'
    BY <1>2, <2>4 DEF RestType, Ask, Goto, envVars, Labels
  <2>5. CASE Begin(r) \/ Requeue(r) \/ Replay(r)
    BY <2>4, <2>5 DEF Begin, Requeue, Replay
  <2> QED BY <1>3, <2>1, <2>3, <2>5 DEF RequestNext
<1>4. ASSUME NEW t \in Targets, TargetNext(t) PROVE RestType'
  <2>1. CASE NudgeTrigger(t)
    <3>1. nudge' \in [Requests -> BOOLEAN]
      BY <2>1 DEF NudgeTrigger
    <3> QED BY <1>2, <2>1, <3>1 DEF RestType, NudgeTrigger, envVars
  <2>2. CASE NudgeRecover(t) \/ Sweep(t)
    BY <1>2, <2>2 DEF RestType, NudgeRecover, Sweep, reqVars, envVars
  <2> QED BY <1>4, <2>1, <2>2 DEF TargetNext
<1>5. ASSUME ResetAll \/ StopContainer PROVE RestType'
  <2>1. events < MaxEvents /\ events' = events + 1
    BY <1>5 DEF ResetAll, StopContainer, Reset
  <2>2. events' \in 0..MaxEvents
    BY <2>1, <1>2, ConstantsAssumption DEF RestType
  <2>3. UNCHANGED <<reqVars, conf, nudging, reaping>> /\ (up' = up \/ up' = FALSE)
    BY <1>5 DEF ResetAll, StopContainer, Reset
  <2> QED BY <2>2, <2>3, <1>2 DEF RestType, reqVars
<1>6. ASSUME Crash \/ SetNudging PROVE RestType'
  <2>1. events' \in 0..MaxEvents
    BY <1>2, <1>6, ConstantsAssumption DEF RestType, Crash, SetNudging
  <2> QED BY <2>1, <1>2, <1>6 DEF RestType, Crash, SetNudging, reqVars
<1>7. ASSUME NEW c \in Configs, Reconfigure(c) PROVE RestType'
  BY <1>2, <1>7, ConstantsAssumption DEF RestType, Reconfigure, reqVars
<1>8. ASSUME UNCHANGED vars PROVE RestType'
  BY <1>2, <1>8 DEF RestType, vars, reqVars, envVars
<1>9. RestType'
  BY <1>3, <1>4, <1>5, <1>6, <1>7, <1>8 DEF Next, Quiescent
<1> QED BY <1>1, <1>9 DEF TypeOK, RestType

-----------------------------------------------------------------------------
(***************************************************************************)
(* The theorems.                                                           *)
(***************************************************************************)
LEMMA InitIInv == Init => IInv
<1> SUFFICES ASSUME Init PROVE IInv
  OBVIOUS
<1>1. conf \in Configs /\ conf.target \in Targets
  BY DEF Init, Configs
<1>2. /\ slots = [t \in Targets |-> NoEntry]
      /\ lease = [r \in Requests |-> NoLease(conf.target)]
      /\ NoLease(conf.target) \in LeaseState /\ NoLease(conf.target).status = "none"
      /\ NoLease(conf.target).limit = 0 /\ ~NoLease(conf.target).stale
  BY <1>1 DEF Init, NoLease, LeaseState
<1>3. TypeOK
  BY <1>1, <1>2, NoEntryType, ConstantsAssumption DEF Init, TypeOK, Labels
<1>4. Now.slots = slots /\ Now.lease = lease
  BY DEF Now
<1>5. ASSUME NEW t \in Targets PROVE EntryOK(Now, t) /\ Drained(Now, t)
  BY <1>2, <1>4, NoEntryOK, NoEntryDrained
<1>6. StoreOK(Now)
  BY <1>2, <1>3, <1>4, <1>5 DEF StoreOK, StoreType, EntryOK, TypeOK
<1>7. \A r \in Requests : PlaceOK(r) /\ TransportOK(r)
  BY <1>2 DEF Init, PlaceOK, TransportOK
<1> QED BY <1>3, <1>5, <1>6, <1>7 DEF IInv

\* IInv holds in every reachable state.
THEOREM InductiveInvariant == Spec => []IInv
<1>1. IInv /\ [Next]_vars => IInv'
  <2> SUFFICES ASSUME IInv, [Next]_vars PROVE IInv'
    OBVIOUS
  <2>1. Preserved
    BY StorePreserved
  <2>2. TypeOK'
    BY <2>1, TypePreserved DEF Preserved
  <2> QED BY <2>1, <2>2 DEF Preserved, Good, IInv
<1> QED BY <1>1, InitIInv, PTL DEF Spec

\* Every variable keeps its type, for any number of calls, targets and limits.
THEOREM TypeCorrect == Spec => []TypeOK
<1>1. IInv => TypeOK
  BY DEF IInv
<1> QED BY <1>1, InductiveInvariant, PTL

\* The running counter is the number of outstanding grants and the queue holds
\* exactly the calls that wait, whatever aborts, times out, is replayed, reaped
\* or reset (_release_inference_slot, _drain_inference_waiters).
THEOREM SlotsAccountedFor == Spec => []SlotAccounting
<1>1. IInv => SlotAccounting
  BY DEF IInv, StoreOK, LeasesMatch, CountMatches, QueueMatches, Now, SlotAccounting, Held,
         Elems, StoreType, SlotState
<1> QED BY <1>1, InductiveInvariant, PTL

\* Nobody waits beside a slot the limit in force would grant.
THEOREM NoIdleSlot == Spec => []WorkConserving
<1>1. IInv => WorkConserving
  BY DEF IInv, Drained, Now, WorkConserving
<1> QED BY <1>1, InductiveInvariant, PTL

\* An upstream exchange is open only under a slot (the finally blocks of
\* _vllm_chat and _vllm_stream_events close before they release).
THEOREM ExchangesHoldSlots == Spec => []TransportUnderSlot
<1>1. IInv => TransportUnderSlot
  BY DEF IInv, TransportOK, TransportUnderSlot
<1> QED BY <1>1, InductiveInvariant, PTL

\* Output is shown only by a consumed stream, so that every place a shown stream can
\* be in lies behind the replay.
Shown == \A r \in Requests :
  shown[r] = "tokens" => pc[r] \in {"consuming", "closing", "failing", "erring", "orphaned",
                                    "nudged", "done"}

\* One step from a state with Shown moves no shown stream before the replay.
LEMMA ShownStep ==
  ASSUME TypeOK, Shown, [Next]_vars
  PROVE  /\ Shown'
         /\ \A r \in Requests :
              shown[r] = "tokens" => pc'[r] \notin {"queued", "resolving", "open"}
<1>1. ASSUME NEW r \in Requests, RequestNext(r)
      PROVE  /\ \A i \in Requests \ {r} : pc'[i] = pc[i] /\ shown'[i] = shown[i]
             /\ shown[r] = "tokens" => shown'[r] = "tokens"
             /\ shown'[r] = "tokens" =>
                  pc'[r] \in {"consuming", "closing", "failing", "erring", "orphaned",
                              "nudged", "done"}
  <2>1. CASE \/ Disconnect(r) \/ Resume(r) \/ Forward(r) \/ Accepted(r) \/ Consume(r)
             \/ Emit(r) \/ StreamFails(r) \/ ShowError(r) \/ Finish(r) \/ Abandon(r)
             \/ Collected(r) \/ Nudged(r) \/ ReplayUnsafe(r) \/ ReapBegin(r) \/ ReapEnd(r)
    BY <2>1 DEF TypeOK, Shown, Disconnect, Resume, Forward, Accepted, Consume, Emit,
       StreamFails, ShowError, Finish, Abandon, Collected, Nudged, ReplayUnsafe, ReapBegin,
       ReapEnd, Goto
  <2>2. ASSUME NEW S, Exit(r, S) PROVE pc' = [pc EXCEPT ![r] = "done"] /\ shown' = shown
    BY <2>2 DEF Exit, Goto
  <2>3. CASE LeaveQueue(r) \/ ResolveFails(r) \/ Close(r) \/ ReplayRefused(r)
    <3>1. pc' = [pc EXCEPT ![r] = "done"] /\ shown' = shown
      BY <2>2, <2>3 DEF LeaveQueue, ResolveFails, Close, ReplayRefused
    <3> QED BY <3>1 DEF TypeOK
  <2>4. ASSUME NEW S, NEW c, Ask(r, c, S)
        PROVE  \E label \in {"queued", "resolving", "done"} : pc' = [pc EXCEPT ![r] = label]
    BY <2>4 DEF Ask, Goto
  <2>5. CASE Begin(r) \/ Requeue(r) \/ Replay(r)
    <3>1. \E label \in {"queued", "resolving", "done"} : pc' = [pc EXCEPT ![r] = label]
      BY <2>4, <2>5 DEF Begin, Requeue, Replay
    <3>2. shown' = shown /\ shown[r] # "tokens"
      BY <2>5 DEF Begin, Requeue, Replay, Shown
    <3> QED BY <3>1, <3>2 DEF TypeOK
  <2> QED BY <1>1, <2>1, <2>3, <2>5 DEF RequestNext
<1>2. ASSUME NEW t \in Targets, TargetNext(t) PROVE UNCHANGED <<pc, shown>>
  BY <1>2 DEF TargetNext, NudgeTrigger, NudgeRecover, Sweep, reqVars
<1>3. ASSUME \/ ResetAll \/ StopContainer \/ Crash \/ SetNudging
             \/ \E c \in Configs : Reconfigure(c)
             \/ UNCHANGED vars
      PROVE  UNCHANGED <<pc, shown>>
  BY <1>3 DEF ResetAll, StopContainer, Reset, Crash, SetNudging, Reconfigure, reqVars, vars
<1>4. CASE UNCHANGED <<pc, shown>>
  BY <1>4 DEF Shown
<1>5. CASE \E r \in Requests : RequestNext(r)
  BY <1>1, <1>5 DEF Shown
<1> QED BY <1>2, <1>3, <1>4, <1>5 DEF Next, Quiescent

\* A stream that has shown output is never put back before its exchange, whatever
\* the nudger and the reaper decide meanwhile (_vllm_stream_events).
THEOREM OutputNeverReplayed == Spec => NoReplayAfterOutput
<1> DEFINE Behind == \A r \in Requests :
                       shown[r] = "tokens" => pc'[r] \notin {"queued", "resolving", "open"}
<1>1. Init => Shown
  BY DEF Init, Shown
<1>2. TypeOK /\ Shown /\ [Next]_vars => Shown' /\ [Behind]_vars
  BY ShownStep
<1> QED BY <1>1, <1>2, TypeCorrect, PTL DEF Spec, NoReplayAfterOutput

-----------------------------------------------------------------------------
(***************************************************************************)
(* Whoever waits longer for a target is admitted first: what the helpers   *)
(* of the admission queue do to the order of the waiters.                  *)
(***************************************************************************)

\* The queues of a store S hold calls that wait, each once.
Queues(S) ==
  /\ StoreType(S)
  /\ \A t \in Targets :
       /\ Distinct(S.slots[t].waiters)
       /\ \A i \in 1..Len(S.slots[t].waiters) :
            /\ S.lease[S.slots[t].waiters[i]].status = "waiting"
            /\ S.lease[S.slots[t].waiters[i]].target = t

\* From S to N nobody is admitted before an earlier waiter, and who waits on keeps
\* the place relative to the others.
Ordered(N, t, a, b) ==
  \E k, l \in 1..Len(N.slots[t].waiters) :
    k < l /\ N.slots[t].waiters[k] = a /\ N.slots[t].waiters[l] = b
Kept(N, t, a, b) ==
  N.lease[a].status = "waiting" =>
    /\ N.lease[b].status # "held"
    /\ N.lease[b].status = "waiting" => Ordered(N, t, a, b)
Fifo(S, N) ==
  \A t \in Targets : \A i, j \in 1..Len(S.slots[t].waiters) :
    i < j => Kept(N, t, S.slots[t].waiters[i], S.slots[t].waiters[j])

\* A consistent store has such queues.
LEMMA StoreQueues == ASSUME NEW S, StoreOK(S) PROVE Queues(S)
<1> QED BY DEF StoreOK, Queues, QueueMatches

\* Those who wait are requests.
LEMMA Waiters ==
  ASSUME NEW S, Queues(S), NEW t \in Targets
  PROVE  /\ Len(S.slots[t].waiters) \in Nat /\ S.slots[t].waiters \in Seq(Requests)
         /\ \A i \in 1..Len(S.slots[t].waiters) : S.slots[t].waiters[i] \in Requests
<1>1. S.slots[t].waiters \in Seq(Requests)
  BY DEF Queues, StoreType, SlotState
<1> QED BY <1>1, ElementOfSeq, LenProperties

\* Each of them waits for this target.
LEMMA Waiter ==
  ASSUME NEW S, Queues(S), NEW t \in Targets, NEW i \in 1..Len(S.slots[t].waiters)
  PROVE  /\ S.slots[t].waiters[i] \in Requests
         /\ S.lease[S.slots[t].waiters[i]] \in LeaseState
         /\ S.lease[S.slots[t].waiters[i]].status = "waiting"
         /\ S.lease[S.slots[t].waiters[i]].target = t
<1>1. S.slots[t].waiters[i] \in Requests
  BY Waiters
<1> QED BY <1>1 DEF Queues, StoreType

\* Nothing happens.
LEMMA FifoSame == ASSUME NEW S, Queues(S) PROVE Fifo(S, S)
<1> QED BY DEF Queues, Fifo, Kept, Ordered

\* _drain_inference_waiters admits a beginning of the queue.
LEMMA DrainFifo ==
  ASSUME NEW S, Queues(S), NEW t \in Targets
  PROVE  /\ Fifo(S, Drain(S, t))
         /\ Drain(S, t).lease \in [Requests -> LeaseState]
         /\ Drain(S, t).slots = [u \in Targets |-> Drain(S, t).slots[u]]
<1> DEFINE s == S.slots[t]
           k == Admitted(s)
           granted == {s.waiters[i] : i \in 1..k}
           N == Drain(S, t)
           w == SubSeq(s.waiters, k + 1, Len(s.waiters))
<1>1. s \in SlotState /\ s.waiters \in Seq(Requests) /\ Distinct(s.waiters)
  BY DEF Queues, StoreType, SlotState
<1>2. k \in 0..Len(s.waiters) /\ Len(s.waiters) \in Nat
  BY <1>1, AdmittedProperties, LenProperties
<1>3. /\ Len(w) = Len(s.waiters) - k
      /\ \A i \in 1..Len(w) : w[i] = s.waiters[k + i]
  <2>1. \A i \in (k + 1)..Len(s.waiters) : s.waiters[i] \in Requests
    BY <1>1, <1>2
  <2>2. /\ Len(w) = IF k + 1 <= Len(s.waiters) THEN Len(s.waiters) - (k + 1) + 1 ELSE 0
        /\ \A i \in 1..(Len(s.waiters) - (k + 1) + 1) : w[i] = s.waiters[(k + 1) + i - 1]
    <3>1. k + 1 \in Int /\ Len(s.waiters) \in Int
      BY <1>2
    <3> HIDE DEF k, s
    <3> QED BY <2>1, <3>1, SubSeqProperties
  <2> HIDE DEF w, k, s
  <2> QED BY <2>2, <1>2
<1>4. /\ N.slots[t].waiters = w /\ \A u \in Targets \ {t} : N.slots[u] = S.slots[u]
      /\ \A q \in Requests :
           N.lease[q].status = IF q \in granted THEN "held" ELSE S.lease[q].status
      /\ N.lease \in [Requests -> LeaseState] /\ N.slots = [u \in Targets |-> N.slots[u]]
  <2>1. /\ N.slots = [S.slots EXCEPT ![t] =
                        [s EXCEPT !.running = s.running + k,
                                  !.leases = s.leases \cup granted,
                                  !.waiters = w]]
        /\ N.lease = [q \in Requests |->
                        IF q \in granted THEN [S.lease[q] EXCEPT !.status = "held"]
                                         ELSE S.lease[q]]
    BY DEF Drain
  <2> HIDE DEF N, w, granted, k
  <2>2. N.slots[t].waiters = w /\ \A u \in Targets \ {t} : N.slots[u] = S.slots[u]
    BY <2>1, <1>1 DEF Queues, StoreType, SlotState
  <2>3. \A q \in Requests : S.lease[q] \in LeaseState
    BY DEF Queues, StoreType
  <2>4. \A q \in Requests : [S.lease[q] EXCEPT !.status = "held"] \in LeaseState
    BY <2>3 DEF LeaseState
  <2>5. N.lease \in [Requests -> LeaseState]
    BY <2>1, <2>3, <2>4
  <2>6. N.slots = [u \in Targets |-> N.slots[u]]
    BY <2>1 DEF Queues, StoreType
  <2>7. \A q \in Requests :
          N.lease[q].status = IF q \in granted THEN "held" ELSE S.lease[q].status
    BY <2>1, <2>3 DEF LeaseState
  <2> QED BY <2>2, <2>5, <2>6, <2>7
<1>5. \A i \in 1..Len(s.waiters) : s.waiters[i] \in granted <=> i <= k
  <2> HIDE DEF k, s
  <2> QED BY <1>2, <1>1 DEF Distinct
<1> SUFFICES Fifo(S, N)
  BY <1>4
<1> HIDE DEF N, w, granted, k
<1> SUFFICES ASSUME NEW u \in Targets,
                    NEW i \in 1..Len(S.slots[u].waiters), NEW j \in 1..Len(S.slots[u].waiters),
                    i < j, N.lease[S.slots[u].waiters[i]].status = "waiting"
             PROVE  /\ N.lease[S.slots[u].waiters[j]].status # "held"
                    /\ Ordered(N, u, S.slots[u].waiters[i], S.slots[u].waiters[j])
  BY DEF Fifo, Kept
<1>6. S.slots[u].waiters[i] \in Requests /\ S.slots[u].waiters[j] \in Requests
      /\ S.lease[S.slots[u].waiters[j]].status = "waiting"
      /\ S.lease[S.slots[u].waiters[j]].target = u
  BY Waiter
<1>7. CASE u = t
  <2>1. i > k /\ j > k
    BY <1>2, <1>4, <1>5, <1>6, <1>7
  <2>2. N.lease[S.slots[u].waiters[j]].status = "waiting"
    <3>1. S.slots[u].waiters[j] \notin granted
      BY <1>2, <1>5, <1>7, <2>1
    <3> HIDE DEF s
    <3> QED BY <1>4, <1>6, <3>1
  <2>3. /\ i - k \in 1..Len(w) /\ j - k \in 1..Len(w) /\ i - k < j - k
        /\ k + (i - k) = i /\ k + (j - k) = j
    <3>1. i \in 1..Len(s.waiters) /\ j \in 1..Len(s.waiters)
      BY <1>7
    <3> HIDE DEF s
    <3> QED BY <1>2, <1>3, <2>1, <3>1
  <2>4. w[i - k] = s.waiters[i] /\ w[j - k] = s.waiters[j]
    <3> HIDE DEF s
    <3> QED BY <1>3, <2>3
  <2>5. N.slots[u].waiters = w /\ S.slots[u].waiters = s.waiters
    BY <1>4, <1>7
  <2> HIDE DEF s
  <2> QED BY <2>2, <2>3, <2>4, <2>5 DEF Ordered
<1>8. CASE u # t
  <2>1. \A q \in granted : S.lease[q].target = t
    BY <1>1, <1>2 DEF Queues, granted
  <2>2. S.slots[u].waiters[j] \notin granted
    BY <1>8, <2>1 DEF Queues
  <2>3. N.lease[S.slots[u].waiters[j]].status = "waiting"
    BY <1>4, <1>6, <2>2 DEF Queues
  <2> QED BY <1>4, <1>8, <2>3 DEF Ordered
<1> QED BY <1>7, <1>8

\* What is appended to a queue changes no order in it.
LEMMA FifoFrom ==
  ASSUME NEW S, NEW F, NEW N, Queues(S), Queues(F), Fifo(F, N),
         \A t \in Targets : /\ Len(S.slots[t].waiters) <= Len(F.slots[t].waiters)
                           /\ \A i \in 1..Len(S.slots[t].waiters) :
                                F.slots[t].waiters[i] = S.slots[t].waiters[i]
  PROVE  Fifo(S, N)
<1> SUFFICES ASSUME NEW t \in Targets,
                    NEW i \in 1..Len(S.slots[t].waiters), NEW j \in 1..Len(S.slots[t].waiters),
                    i < j
             PROVE  Kept(N, t, S.slots[t].waiters[i], S.slots[t].waiters[j])
  BY DEF Fifo
<1>1. i \in 1..Len(F.slots[t].waiters) /\ j \in 1..Len(F.slots[t].waiters)
  <2> DEFINE m == Len(S.slots[t].waiters)
             n == Len(F.slots[t].waiters)
  <2>1. m \in Nat /\ n \in Nat
    BY Waiters
  <2>2. m <= n /\ i \in 1..m /\ j \in 1..m
    OBVIOUS
  <2>3. i \in 1..n /\ j \in 1..n
    <3> HIDE DEF m, n
    <3> QED BY <2>1, <2>2
  <2> QED BY <2>3
<1>2. F.slots[t].waiters[i] = S.slots[t].waiters[i] /\ F.slots[t].waiters[j] = S.slots[t].waiters[j]
  OBVIOUS
<1> QED BY <1>1, <1>2 DEF Fifo

\* An idle entry that is popped has no queue.
LEMMA SettleFifo ==
  ASSUME NEW S, NEW N, NEW t \in Targets, Queues(S), Fifo(S, N),
         N.lease \in [Requests -> LeaseState], N.slots = [u \in Targets |-> N.slots[u]]
  PROVE  Fifo(S, Settle(N, t))
<1>1. CASE Present(N.slots[t])
  BY <1>1 DEF Settle
<1>2. CASE ~Present(N.slots[t])
  <2> DEFINE M == Pop(N, t)
  <2>1. Settle(N, t) = M /\ N.slots[t].waiters = << >>
    BY <1>2 DEF Settle, Present
  <2>2. M.slots = [N.slots EXCEPT ![t] = NoEntry]
    BY DEF Pop
  <2>3. \A u \in Targets : M.slots[u].waiters = N.slots[u].waiters
    BY <2>1, <2>2 DEF NoEntry
  <2>4. \A q \in Requests : M.lease[q].status = N.lease[q].status
    BY DEF Pop, LeaseState
  <2> HIDE DEF M
  <2> SUFFICES ASSUME NEW u \in Targets,
                      NEW i \in 1..Len(S.slots[u].waiters), NEW j \in 1..Len(S.slots[u].waiters),
                      i < j
               PROVE  Kept(M, u, S.slots[u].waiters[i], S.slots[u].waiters[j])
    BY <2>1 DEF Fifo
  <2>5. S.slots[u].waiters[i] \in Requests /\ S.slots[u].waiters[j] \in Requests
    BY Waiters
  <2>6. Kept(N, u, S.slots[u].waiters[i], S.slots[u].waiters[j])
    BY DEF Fifo
  <2> QED BY <2>3, <2>4, <2>5, <2>6 DEF Kept, Ordered
<1> QED BY <1>1, <1>2

\* One grant less.
LEMMA Freeing ==
  ASSUME NEW s \in SlotState, NEW r
  PROVE  LET freed == [s EXCEPT !.running = IF s.running > 0 THEN s.running - 1 ELSE 0,
                                !.leases = s.leases \ {r}]
         IN  freed \in SlotState /\ freed.waiters = s.waiters
<1>1. (IF s.running > 0 THEN s.running - 1 ELSE 0) \in Nat
  BY DEF SlotState
<1> QED BY <1>1 DEF SlotState

\* A slot given back goes to the first in the queue (_release_inference_slot).
LEMMA ReleaseFifo ==
  ASSUME NEW S, StoreOK(S), NEW r \in Requests
  PROVE  Fifo(S, Release(S, r))
<1> DEFINE t == S.lease[r].target
           s == S.slots[t]
           released == [S.lease EXCEPT ![r] = [S.lease[r] EXCEPT !.status = "released"]]
           freed == [s EXCEPT !.running = IF s.running > 0 THEN s.running - 1 ELSE 0,
                              !.leases = s.leases \ {r}]
           F == [slots |-> [S.slots EXCEPT ![t] = freed], lease |-> released]
           D == Drain(F, t)
<1>1. S.lease[r] \in LeaseState /\ t \in Targets /\ ~S.lease[r].stale /\ Queues(S)
      /\ StoreType(S) /\ s \in SlotState
  BY StoreQueues DEF StoreOK, StoreType, LeaseState
<1>2. CASE S.lease[r].status # "held"
  BY <1>1, <1>2, FifoSame DEF Release
<1>3. CASE S.lease[r].status = "held"
  <2>1. Release(S, r) = Settle(D, t)
    BY <1>1, <1>3 DEF Release
  <2>2. F.slots = [S.slots EXCEPT ![t] = freed] /\ F.lease = released
    OBVIOUS
  <2>3. freed \in SlotState /\ freed.waiters = s.waiters
    BY <1>1, Freeing
  <2>4. /\ F.lease \in [Requests -> LeaseState]
        /\ \A q \in Requests \ {r} : F.lease[q] = S.lease[q]
    BY <1>1, <2>2 DEF StoreType, LeaseState
  <2> HIDE DEF F, freed, released
  <2>5. \A u \in Targets : F.slots[u].waiters = S.slots[u].waiters
    BY <1>1, <2>2, <2>3 DEF StoreType
  <2>6. Queues(F)
    <3>1. StoreType(F)
      BY <1>1, <2>2, <2>3, <2>4 DEF StoreType
    <3>2. ASSUME NEW u \in Targets, NEW i \in 1..Len(S.slots[u].waiters)
          PROVE  F.lease[S.slots[u].waiters[i]] = S.lease[S.slots[u].waiters[i]]
      <4>1. /\ S.slots[u].waiters[i] \in Requests
            /\ S.lease[S.slots[u].waiters[i]].status = "waiting"
        BY <1>1, Waiter
      <4> HIDE DEF s, t
      <4> QED BY <1>3, <2>4, <4>1
    <3>3. ASSUME NEW u \in Targets PROVE Distinct(F.slots[u].waiters)
      BY <1>1, <2>5 DEF Queues
    <3>4. ASSUME NEW u \in Targets, NEW i \in 1..Len(F.slots[u].waiters)
          PROVE  /\ F.lease[F.slots[u].waiters[i]].status = "waiting"
                 /\ F.lease[F.slots[u].waiters[i]].target = u
      <4>1. F.slots[u].waiters = S.slots[u].waiters
        BY <2>5
      <4>2. F.lease[S.slots[u].waiters[i]] = S.lease[S.slots[u].waiters[i]]
        BY <3>2, <4>1
      <4>3. i \in 1..Len(S.slots[u].waiters)
        BY <4>1
      <4> HIDE DEF s, t
      <4>4. /\ S.lease[S.slots[u].waiters[i]].status = "waiting"
            /\ S.lease[S.slots[u].waiters[i]].target = u
        BY <1>1, <4>3, Waiter
      <4> QED BY <4>1, <4>2, <4>4
    <3> QED BY <3>1, <3>3, <3>4 DEF Queues
  <2>7. /\ Fifo(F, D) /\ D.lease \in [Requests -> LeaseState]
        /\ D.slots = [u \in Targets |-> D.slots[u]]
    BY <1>1, <2>6, DrainFifo
  <2>8. Fifo(S, D)
    <3>1. \A u \in Targets : Len(S.slots[u].waiters) <= Len(F.slots[u].waiters)
      BY <1>1, <2>5, Waiters
    <3> HIDE DEF D
    <3> QED BY <1>1, <2>5, <2>6, <2>7, <3>1, FifoFrom
  <2> HIDE DEF D
  <2> QED BY <1>1, <2>1, <2>7, <2>8, SettleFifo
<1> QED BY <1>2, <1>3

\* Whoever asks joins the end of the queue (_acquire_inference_slot).
LEMMA QueueFifo ==
  ASSUME NEW S, StoreOK(S), NEW r \in Requests, NEW c \in Configs,
         S.lease[r].status \notin {"held", "waiting"}
  PROVE  Fifo(S, Queue(S, r, c))
<1> DEFINE t == c.target
           s == S.slots[t]
           w == Append(s.waiters, r)
           joined == [s EXCEPT !.limit = c.limit, !.waiters = w]
           waiting == [status |-> "waiting", target |-> t, limit |-> c.limit, stale |-> FALSE]
           F == [slots |-> [S.slots EXCEPT ![t] = joined],
                 lease |-> [S.lease EXCEPT ![r] = waiting]]
<1>1. /\ t \in Targets /\ c.limit \in Limits /\ c.limit \in Nat
      /\ Queues(S) /\ StoreType(S)
  BY StoreQueues, ConstantsAssumption DEF Configs, StoreOK
<1>2. /\ s \in SlotState /\ s.waiters \in Seq(Requests) /\ Distinct(s.waiters)
      /\ Len(s.waiters) \in Nat
  BY <1>1, LenProperties DEF Queues, StoreType, SlotState
<1>3. r \notin Elems(s.waiters)
  BY <1>1 DEF Queues, Elems
<1>4. /\ w \in Seq(Requests) /\ Distinct(w) /\ Len(w) = Len(s.waiters) + 1
      /\ \A i \in 1..Len(s.waiters) : w[i] = s.waiters[i]
      /\ w[Len(s.waiters) + 1] = r
  BY <1>2, <1>3, AppendElems, AppendProperties
<1>5. joined \in SlotState /\ joined.waiters = w /\ waiting \in LeaseState
  <2> HIDE DEF w
  <2> QED BY <1>1, <1>2, <1>4 DEF SlotState, LeaseState
<1>6. Queue(S, r, c) = Drain(F, t)
  BY DEF Queue
<1>7. /\ F.slots = [S.slots EXCEPT ![t] = joined]
      /\ F.lease = [S.lease EXCEPT ![r] = waiting]
  OBVIOUS
<1>8. waiting.status = "waiting" /\ waiting.target = t
  OBVIOUS
<1> HIDE DEF F, joined, waiting, w
<1>9. /\ F.slots[t].waiters = w /\ \A u \in Targets \ {t} : F.slots[u] = S.slots[u]
      /\ F.lease[r] = waiting /\ \A q \in Requests \ {r} : F.lease[q] = S.lease[q]
      /\ StoreType(F)
  BY <1>1, <1>5, <1>7 DEF StoreType
<1>10. \A u \in Targets : \A i \in 1..Len(S.slots[u].waiters) :
         /\ S.slots[u].waiters[i] \in Requests \ {r}
         /\ S.lease[S.slots[u].waiters[i]].status = "waiting"
         /\ S.lease[S.slots[u].waiters[i]].target = u
  <2> SUFFICES ASSUME NEW u \in Targets, NEW i \in 1..Len(S.slots[u].waiters)
               PROVE  /\ S.slots[u].waiters[i] \in Requests \ {r}
                      /\ S.lease[S.slots[u].waiters[i]].status = "waiting"
                      /\ S.lease[S.slots[u].waiters[i]].target = u
    OBVIOUS
  <2>1. /\ S.slots[u].waiters[i] \in Requests
        /\ S.lease[S.slots[u].waiters[i]].status = "waiting"
        /\ S.lease[S.slots[u].waiters[i]].target = u
    BY <1>1, Waiter
  <2> QED BY <2>1
<1>11. Queues(F)
  <2>1. \A i \in 1..Len(s.waiters) :
          F.lease[s.waiters[i]].status = "waiting" /\ F.lease[s.waiters[i]].target = t
    <3>1. \A i \in 1..Len(s.waiters) :
            /\ s.waiters[i] \in Requests \ {r}
            /\ S.lease[s.waiters[i]].status = "waiting" /\ S.lease[s.waiters[i]].target = t
      BY <1>1, <1>10
    <3> HIDE DEF s, t
    <3> QED BY <1>9, <3>1
  <2>2. ASSUME NEW i \in 1..Len(w)
        PROVE  F.lease[w[i]].status = "waiting" /\ F.lease[w[i]].target = t
    <3>1. CASE i = Len(s.waiters) + 1
      BY <1>4, <1>8, <1>9, <3>1
    <3>2. CASE i # Len(s.waiters) + 1
      <4>1. i \in 1..Len(s.waiters)
        BY <1>2, <1>4, <3>2
      <4>2. w[i] = s.waiters[i]
        BY <1>4, <4>1
      <4> HIDE DEF s, t
      <4> QED BY <2>1, <4>1, <4>2
    <3> QED BY <3>1, <3>2
  <2>3. ASSUME NEW u \in Targets, NEW i \in 1..Len(F.slots[u].waiters)
        PROVE  /\ F.lease[F.slots[u].waiters[i]].status = "waiting"
               /\ F.lease[F.slots[u].waiters[i]].target = u
    <3>1. CASE u = t
      BY <1>9, <2>2, <3>1
    <3>2. CASE u # t
      <4>1. F.slots[u].waiters = S.slots[u].waiters
        BY <1>9, <3>2
      <4>2. /\ S.slots[u].waiters[i] \in Requests \ {r}
            /\ S.lease[S.slots[u].waiters[i]].status = "waiting"
            /\ S.lease[S.slots[u].waiters[i]].target = u
        BY <1>10, <4>1
      <4> QED BY <1>9, <4>1, <4>2
    <3> QED BY <3>1, <3>2
  <2>4. \A u \in Targets : Distinct(F.slots[u].waiters)
    BY <1>1, <1>4, <1>9 DEF Queues
  <2> QED BY <1>9, <2>3, <2>4 DEF Queues
<1>12. Fifo(F, Drain(F, t))
  BY <1>1, <1>11, DrainFifo
<1>13. ASSUME NEW u \in Targets
       PROVE  /\ Len(S.slots[u].waiters) <= Len(F.slots[u].waiters)
              /\ \A i \in 1..Len(S.slots[u].waiters) :
                   F.slots[u].waiters[i] = S.slots[u].waiters[i]
  <2>1. Len(S.slots[u].waiters) \in Nat
    BY <1>1, Waiters
  <2>2. CASE u = t
    BY <1>2, <1>4, <1>9, <2>2
  <2>3. CASE u # t
    BY <1>9, <2>1, <2>3
  <2> QED BY <2>2, <2>3
<1> QED BY <1>1, <1>6, <1>11, <1>12, <1>13, FifoFrom

\* Two such steps of one request, one after the other: nobody else stops waiting but
\* by a grant, or begins to wait.
LEMMA FifoThen ==
  ASSUME NEW S, NEW M, NEW N, NEW r \in Requests, Queues(S), StoreType(M),
         Fifo(S, M), Fifo(M, N), GrantsOthers(S, M, r), GrantsOthers(M, N, r),
         S.lease[r].status # "waiting"
  PROVE  Fifo(S, N)
<1> SUFFICES ASSUME NEW t \in Targets,
                    NEW i \in 1..Len(S.slots[t].waiters), NEW j \in 1..Len(S.slots[t].waiters),
                    i < j
             PROVE  Kept(N, t, S.slots[t].waiters[i], S.slots[t].waiters[j])
  BY DEF Fifo
<1> DEFINE a == S.slots[t].waiters[i]
           b == S.slots[t].waiters[j]
<1>1. /\ a \in Requests \ {r} /\ b \in Requests \ {r}
      /\ S.lease[a] \in LeaseState /\ S.lease[b] \in LeaseState
      /\ S.lease[a].status = "waiting" /\ S.lease[b].status = "waiting"
      /\ M.lease[a] \in LeaseState /\ M.lease[b] \in LeaseState
  <2>1. a \in Requests /\ S.lease[a] \in LeaseState /\ S.lease[a].status = "waiting"
    BY Waiter
  <2>2. b \in Requests /\ S.lease[b] \in LeaseState /\ S.lease[b].status = "waiting"
    BY Waiter
  <2> HIDE DEF a, b
  <2> QED BY <2>1, <2>2 DEF StoreType
<1>2. Kept(M, t, a, b)
  BY DEF Fifo
<1> HIDE DEF a, b
<1>3. ASSUME NEW q \in {a, b}
      PROVE  /\ M.lease[q].status \in {"waiting", "held"}
             /\ N.lease[q].status = "waiting" => M.lease[q].status = "waiting"
             /\ N.lease[q].status = "held" => M.lease[q].status \in {"waiting", "held"}
  <2>1. M.lease[q] = S.lease[q] \/ M.lease[q] = [S.lease[q] EXCEPT !.status = "held"]
    BY <1>1 DEF GrantsOthers
  <2>2. M.lease[q].status \in {"waiting", "held"}
    BY <1>1, <2>1 DEF LeaseState
  <2>3. \/ N.lease[q] = M.lease[q]
        \/ N.lease[q] = [M.lease[q] EXCEPT !.status = "held"]
    BY <1>1 DEF GrantsOthers
  <2> QED BY <1>1, <2>2, <2>3 DEF LeaseState
<1>4. CASE M.lease[a].status = "waiting" /\ M.lease[b].status = "waiting"
  <2>1. PICK k, l \in 1..Len(M.slots[t].waiters) :
          k < l /\ M.slots[t].waiters[k] = a /\ M.slots[t].waiters[l] = b
    BY <1>2, <1>4 DEF Kept, Ordered
  <2> QED BY <2>1 DEF Fifo, a, b
<1>5. CASE M.lease[a].status # "waiting"
  BY <1>3, <1>5 DEF Kept, a, b
<1>6. CASE M.lease[a].status = "waiting" /\ M.lease[b].status # "waiting"
  BY <1>2, <1>3, <1>6 DEF Kept
<1> QED BY <1>4, <1>5, <1>6

-----------------------------------------------------------------------------
(***************************************************************************)
(* The steps.                                                              *)
(***************************************************************************)
\* What FirstComeFirstServed says of one step.
InOrder ==
  \A t \in Targets : \A i, j \in 1..Len(slots[t].waiters) :
    i < j /\ lease'[slots[t].waiters[j]].status = "held"
      => lease'[slots[t].waiters[i]].status # "waiting"

\* A store the helpers made, with the lease of the caller kept or dropped.
LEMMA FifoInOrder ==
  ASSUME IInv, NEW N, Fifo(Now, N), NEW r,
         \A q \in Requests \ {r} : lease'[q].status = N.lease[q].status,
         \/ lease'[r].status = N.lease[r].status
         \/ lease'[r].status \notin {"held", "waiting"}
  PROVE  InOrder
<1>1. Queues(Now) /\ Now.slots = slots
  BY StoreQueues DEF IInv, Now
<1> SUFFICES ASSUME NEW t \in Targets,
                    NEW i \in 1..Len(slots[t].waiters), NEW j \in 1..Len(slots[t].waiters),
                    i < j, lease'[slots[t].waiters[j]].status = "held",
                    lease'[slots[t].waiters[i]].status = "waiting"
             PROVE  FALSE
  BY DEF InOrder
<1>2. slots[t].waiters[i] \in Requests /\ slots[t].waiters[j] \in Requests
  BY <1>1, Waiters
<1>3. /\ N.lease[slots[t].waiters[i]].status = "waiting"
      /\ N.lease[slots[t].waiters[j]].status = "held"
  BY <1>2
<1>4. Kept(N, t, slots[t].waiters[i], slots[t].waiters[j])
  BY <1>1 DEF Fifo
<1> QED BY <1>3, <1>4 DEF Kept

\* A step that admits nobody.
LEMMA NobodyAdmitted ==
  ASSUME IInv,
         \A q \in Requests : lease[q].status = "waiting" => lease'[q].status # "held"
  PROVE  InOrder
<1>1. Queues(Now) /\ Now.slots = slots /\ Now.lease = lease
  BY StoreQueues DEF IInv, Now
<1>2. \A t \in Targets : \A j \in 1..Len(slots[t].waiters) :
        slots[t].waiters[j] \in Requests /\ lease[slots[t].waiters[j]].status = "waiting"
  BY <1>1, Waiter
<1> QED BY <1>2 DEF InOrder

\* A call that ends drops its lease; the slot it gave back goes to the queue.
LEMMA ExitInOrder ==
  ASSUME IInv, NEW r \in Requests, NEW N, Fifo(Now, N), Exit(r, N),
         N.lease \in [Requests -> LeaseState]
  PROVE  InOrder
<1>1. lease' = [N.lease EXCEPT ![r] = NoLease(N.lease[r].target)]
  BY DEF Exit
<1>2. /\ \A q \in Requests \ {r} : lease'[q].status = N.lease[q].status
      /\ lease'[r].status \notin {"held", "waiting"}
  BY <1>1 DEF NoLease
<1> QED BY <1>2, FifoInOrder

\* Asking for a slot once the last one was given back (_admit_vllm_target).
LEMMA AskInOrder ==
  ASSUME IInv, NEW r \in Requests, NEW c \in [target : Targets, limit : Limits \cup {0}],
         NEW N, Good(N), Fifo(Now, N), GrantsOthers(Now, N, r),
         lease[r].status # "waiting", N.lease[r].status \notin {"held", "waiting"},
         Ask(r, c, N)
  PROVE  InOrder
<1>1. /\ N.lease \in [Requests -> LeaseState] /\ StoreOK(N) /\ StoreType(N)
      /\ Queues(Now) /\ Now.lease = lease
  BY StoreQueues DEF Good, StoreOK, StoreType, IInv, Now
<1>2. CASE lease' = [N.lease EXCEPT ![r] = NoLease(c.target)]
  <2>1. /\ \A q \in Requests \ {r} : lease'[q].status = N.lease[q].status
        /\ lease'[r].status \notin {"held", "waiting"}
    BY <1>1, <1>2 DEF NoLease
  <2> QED BY <2>1, FifoInOrder
<1>3. CASE c.limit # 0 /\ lease' = Queue(N, r, c).lease
  <2> DEFINE M == Queue(N, r, c)
  <2>1. c \in Configs
    BY <1>3 DEF Configs
  <2>2. Fifo(N, M) /\ GrantsOthers(N, M, r)
    BY <1>1, <1>3, <2>1, QueueFifo, QueuePreserves
  <2>3. lease' = M.lease
    BY <1>3
  <2> HIDE DEF M
  <2>4. Fifo(Now, M)
    BY <1>1, <2>2, FifoThen
  <2> QED BY <2>3, <2>4, FifoInOrder
<1>4. \/ lease' = [N.lease EXCEPT ![r] = NoLease(c.target)]
      \/ c.limit # 0 /\ lease' = Queue(N, r, c).lease
  BY DEF Ask, Becomes
<1> QED BY <1>2, <1>3, <1>4

\* A step of a call.
LEMMA RequestInOrder ==
  ASSUME IInv, NEW r \in Requests, RequestNext(r)
  PROVE  InOrder
<1> DEFINE R == Release(Now, r)
<1>1. /\ Good(Now) /\ StoreOK(Now) /\ Queues(Now) /\ Now.slots = slots /\ Now.lease = lease
      /\ PlaceOK(r) /\ lease \in [Requests -> LeaseState] /\ lease[r] \in LeaseState
  BY StoreQueues DEF IInv, Good, Now, TypeOK
<1>2. /\ Good(R) /\ GrantsOthers(Now, R, r) /\ R.lease[r].status # "held"
      /\ R.lease[r].status = "waiting" => lease[r].status = "waiting"
      /\ Fifo(Now, R)
  BY <1>1, GoodRelease, ReleaseFifo
<1> HIDE DEF R
<1>3. R.lease \in [Requests -> LeaseState]
  BY <1>2 DEF Good, StoreOK, StoreType
<1>4. /\ conf \in [target : Targets, limit : Limits \cup {0}]
      /\ Current(r) \in [target : Targets, limit : Limits \cup {0}]
  BY <1>1 DEF IInv, TypeOK, Configs, Current, LeaseState
<1>5. CASE Begin(r)
  <2>1. Ask(r, conf, Now) /\ pc[r] = "new"
    BY <1>5 DEF Begin
  <2>2. lease[r].status \notin {"held", "waiting"}
    BY <2>1, <1>1 DEF PlaceOK
  <2>3. Fifo(Now, Now) /\ GrantsOthers(Now, Now, r)
    BY <1>1, FifoSame DEF GrantsOthers
  <2> QED BY <2>1, <2>2, <2>3, <1>1, <1>4, AskInOrder
<1>6. CASE LeaveQueue(r)
  <2>1. Exit(r, Leave(Now, r))
    BY <1>6 DEF LeaveQueue
  <2>2. CASE lease[r].status = "waiting"
    <3>1. lease' = [Leave(Now, r).lease EXCEPT ![r] = NoLease(Leave(Now, r).lease[r].target)]
      BY <2>1 DEF Exit
    <3>2. \A q \in Requests \ {r} : Leave(Now, r).lease[q] = lease[q]
      BY <2>2, <1>1 DEF Leave
    <3>3. Leave(Now, r).lease
            = [lease EXCEPT ![r] = [lease[r] EXCEPT !.status = "none"]]
      BY <2>2, <1>1 DEF Leave
    <3>4. lease'[r].status = "none" /\ \A q \in Requests \ {r} : lease'[q] = lease[q]
      BY <3>1, <3>3, <1>1 DEF NoLease
    <3> QED BY <3>4, NobodyAdmitted
  <2>3. CASE lease[r].status # "waiting"
    <3>1. Leave(Now, r) = R
      BY <2>3, <1>1 DEF Leave, R
    <3> QED BY <2>1, <3>1, <1>2, <1>3, ExitInOrder
  <2> QED BY <2>2, <2>3
<1>7. CASE Requeue(r) \/ Replay(r)
  <2>1. (Ask(r, conf, R) \/ Ask(r, Current(r), R)) /\ pc[r] \in {"resolving", "nudged"}
    BY <1>7 DEF Requeue, Replay, R
  <2>2. lease[r].status # "waiting"
    BY <2>1, <1>1 DEF PlaceOK
  <2> HIDE DEF Current
  <2> QED BY <2>1, <2>2, <1>2, <1>4, AskInOrder
<1>8. CASE ResolveFails(r) \/ Close(r) \/ ReplayRefused(r)
  <2>1. Exit(r, R)
    BY <1>8 DEF ResolveFails, Close, ReplayRefused, R
  <2> QED BY <2>1, <1>2, <1>3, ExitInOrder
<1>9. CASE ReapEnd(r)
  <2>1. lease' = R.lease
    BY <1>9 DEF ReapEnd, Becomes, R
  <2> QED BY <2>1, <1>2, FifoInOrder
<1>10. CASE \/ Disconnect(r) \/ Resume(r) \/ Forward(r) \/ Accepted(r) \/ Consume(r)
            \/ Emit(r) \/ StreamFails(r) \/ ShowError(r) \/ Finish(r) \/ Abandon(r)
            \/ Collected(r) \/ Nudged(r) \/ ReplayUnsafe(r) \/ ReapBegin(r)
  <2>1. lease' = lease
    BY <1>10 DEF Disconnect, Resume, Forward, Accepted, Consume, Emit, StreamFails,
       ShowError, Finish, Abandon, Collected, Nudged, ReplayUnsafe, ReapBegin
  <2> QED BY <2>1, NobodyAdmitted
<1> QED BY <1>5, <1>6, <1>7, <1>8, <1>9, <1>10 DEF RequestNext

\* A failed target admits nobody.
LEMMA FailAdmitsNobody ==
  ASSUME NEW S, StoreOK(S), NEW t \in Targets, NEW q \in Requests,
         S.lease[q].status = "waiting"
  PROVE  Fail(S, t).lease[q].status # "held"
<1>1. S.lease[q] \in LeaseState
  BY DEF StoreOK, StoreType
<1>2. Fail(S, t).lease[q] =
        IF S.lease[q].target = t THEN [S.lease[q] EXCEPT !.status = "failed"] ELSE S.lease[q]
  BY FailPreserves
<1> QED BY <1>1, <1>2 DEF LeaseState

\* A step of the nudger or of the sweep.
LEMMA TargetInOrder ==
  ASSUME IInv, NEW t \in Targets, TargetNext(t)
  PROVE  InOrder
<1>1. /\ StoreOK(Now) /\ Queues(Now) /\ Now.slots = slots /\ Now.lease = lease
      /\ slots \in [Targets -> SlotState] /\ lease \in [Requests -> LeaseState]
  BY StoreQueues DEF IInv, Now, TypeOK
<1>2. CASE NudgeTrigger(t)
  <2>1. lease' = lease
    BY <1>2 DEF NudgeTrigger
  <2> QED BY <2>1, NobodyAdmitted
<1>3. CASE NudgeRecover(t)
  <2> DEFINE next == Least(slots[t].limit, slots[t].eff) + 1
             eased == [slots[t] EXCEPT !.eff = IF next >= slots[t].limit THEN Free ELSE next]
             F == [slots |-> [slots EXCEPT ![t] = eased], lease |-> lease]
             D == Drain(F, t)
  <2>1. lease' = D.lease
    BY <1>3 DEF NudgeRecover, Becomes
  <2>2. next \in Nat
    BY <1>1 DEF Least, SlotState
  <2>3. eased \in SlotState /\ eased.waiters = slots[t].waiters
    <3> HIDE DEF next
    <3> QED BY <1>1, <2>2 DEF SlotState, Free
  <2> HIDE DEF eased, next
  <2>4. F.lease = lease /\ StoreType(F)
    BY <2>3, <1>1 DEF StoreType
  <2>5. \A u \in Targets : F.slots[u].waiters = slots[u].waiters
    BY <2>3, <1>1
  <2> HIDE DEF F
  <2>6. Queues(F)
    BY <1>1, <2>4, <2>5 DEF Queues
  <2>7. Fifo(F, D)
    BY <2>6, DrainFifo
  <2> HIDE DEF D
  <2>8. Fifo(Now, D)
    <3>1. \A u \in Targets : Len(Now.slots[u].waiters) <= Len(F.slots[u].waiters)
      BY <1>1, <2>5, Waiters
    <3> QED BY <1>1, <2>5, <2>6, <2>7, <3>1, FifoFrom
  <2> QED BY <2>1, <2>8, FifoInOrder
<1>4. CASE Sweep(t)
  <2>1. lease' = Fail(Now, t).lease
    BY <1>4 DEF Sweep, Becomes
  <2> QED BY <2>1, <1>1, FailAdmitsNobody, NobodyAdmitted
<1> QED BY <1>2, <1>3, <1>4 DEF TargetNext

\* A reset of any set of targets.
LEMMA ResetInOrder ==
  ASSUME IInv, NEW hit, Reset(hit)
  PROVE  InOrder
<1>1. /\ StoreOK(Now) /\ Now.lease = lease /\ \A q \in Requests : lease[q].target \in Targets
  BY DEF IInv, Now, TypeOK, LeaseState
<1>2. \A q \in Requests :
        lease'[q] = IF lease[q].target \in hit THEN Fail(Now, lease[q].target).lease[q]
                                               ELSE lease[q]
  BY DEF Reset
<1>3. ASSUME NEW q \in Requests, lease[q].status = "waiting"
      PROVE  lease'[q].status # "held"
  <2>1. Fail(Now, lease[q].target).lease[q].status # "held"
    BY <1>1, <1>3, FailAdmitsNobody
  <2> QED BY <2>1, <1>2, <1>3
<1> QED BY <1>3, NobodyAdmitted

\* Among the calls waiting for one target none is admitted while an earlier one waits,
\* whatever aborts, timeouts, replays and changes of the limit reorder the rest
\* (_drain_inference_waiters, _acquire_inference_slot).
THEOREM ArrivalOrder == Spec => FirstComeFirstServed
<1> DEFINE Step == \A t \in Targets : \A i, j \in 1..Len(slots[t].waiters) :
                     i < j /\ lease'[slots[t].waiters[j]].status = "held"
                       => lease'[slots[t].waiters[i]].status # "waiting"
<1>1. IInv /\ [Next]_vars => [Step]_vars
  <2> SUFFICES ASSUME IInv, Next PROVE InOrder
    BY DEF InOrder
  <2>1. CASE \E r \in Requests : RequestNext(r)
    BY <2>1, RequestInOrder
  <2>2. CASE \E t \in Targets : TargetNext(t)
    BY <2>2, TargetInOrder
  <2>3. CASE ResetAll \/ StopContainer
    BY <2>3, ResetInOrder DEF ResetAll, StopContainer
  <2>4. CASE Crash \/ SetNudging \/ Quiescent \/ \E c \in Configs : Reconfigure(c)
    <3>1. lease' = lease
      BY <2>4 DEF Crash, SetNudging, Quiescent, Reconfigure, vars
    <3> QED BY <3>1, NobodyAdmitted
  <2> QED BY <2>1, <2>2, <2>3, <2>4 DEF Next
<1> QED BY <1>1, InductiveInvariant, PTL DEF Spec, FirstComeFirstServed
=============================================================================
