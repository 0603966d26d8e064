-------------------------- MODULE UsageSyncProofs --------------------------
(***************************************************************************)
(* Proofs about UsageSync.  Every copy of a ledger there is - in memory,   *)
(* on disk, pulled, pushed, or in a push given up - tells the truth about  *)
(* the requests it counts (Honest), and a version that was handed out is   *)
(* never handed out again (Foreseen); merging keeps both.  The second      *)
(* part, Revisions, shows that no sync makes a node forget what it served; *)
(* the third, Contents, that two undisturbed rounds bring the nodes        *)
(* together.                                                               *)
(***************************************************************************)
EXTENDS UsageSync, WellFoundedInduction, TLAPS

\* What the assumption says of the node ids.
LEMMA Ids ==
  /\ \A n \in Nodes : n \in Nat /\ n # 0
  /\ Ctl \in Nodes /\ Ctl \notin Peers /\ Ctl \notin Joined
  /\ \A n \in Peers : n \in Nodes
  /\ \A n \in Joined : n \in Peers
  /\ MaxRequests \in Nat
BY UsageAssumption DEF Peers

(***************************************************************************)
(* Numbers.                                                                *)
(***************************************************************************)

\* A set of naturals that is not empty has a least element.
LEMMA LeastElement ==
  ASSUME NEW T, T \subseteq Nat, T # {}
  PROVE  \E x \in T : \A y \in T : x <= y
<1>1. IsWellFoundedOn(OpToRel(<, Nat), Nat)
  BY NatLessThanWellFounded
<1>2. \E x \in T : \A y \in T : ~(<<y, x>> \in OpToRel(<, Nat))
  BY <1>1, WFMin
<1>3. \A x, y \in Nat : y < x => <<y, x>> \in OpToRel(<, Nat)
  BY DEF OpToRel
<1>4. PICK x \in T : \A y \in T : ~(<<y, x>> \in OpToRel(<, Nat))
  BY <1>2
<1>5. \A y \in T : x \in Nat /\ y \in Nat /\ ~(y < x)
  BY <1>3, <1>4
<1>6. \A y \in T : x <= y
  BY <1>5
<1> QED BY <1>6

\* Counting up: a set with 0 and, with each number, the next one up to N.
LEMMA Upto ==
  ASSUME NEW N \in Nat, NEW P, 0 \in P, \A n \in 1..N : n - 1 \in P => n \in P
  PROVE  \A n \in 0..N : n \in P
<1> DEFINE T == {n \in 0..N : n \notin P}
<1> SUFFICES ASSUME T # {} PROVE FALSE
  OBVIOUS
<1>0. T \subseteq Nat
  OBVIOUS
<1>1. PICK x \in T : \A y \in T : x <= y
  BY <1>0, LeastElement
<1>2. x \in 1..N /\ x - 1 \in 0..N /\ ~(x <= x - 1)
  BY <1>1
<1> QED BY <1>1, <1>2

\* max over the version counters (reconcile_token_usage_sync) is one of them.
LEMMA LargestIs ==
  ASSUME NEW S, S \subseteq Nat, S # {}, NEW b \in Nat, \A y \in S : y <= b
  PROVE  Largest(S) \in S /\ \A y \in S : y <= Largest(S)
<1> DEFINE U == {u \in Nat : \A y \in S : y <= u}
<1>0. U \subseteq Nat /\ b \in U
  OBVIOUS
<1>1. PICK u \in U : \A v \in U : u <= v
  BY <1>0, LeastElement
<1>2. u \in S
  <2> SUFFICES ASSUME u \notin S PROVE FALSE
    OBVIOUS
  <2>1. \A y \in S : y <= u - 1
    BY <1>1
  <2>2. u - 1 \in Nat
    <3>1. PICK y \in S : TRUE
      OBVIOUS
    <3>2. y \in Nat /\ y <= u - 1 /\ u \in Nat
      BY <2>1, <3>1
    <3> QED BY <3>2
  <2> QED BY <1>1, <2>1, <2>2
<1> QED BY <1>1, <1>2 DEF Largest

\* Components whose numbers come from the nodes have a largest one: the peers
\* are those of PeerOrder.
LEMMA NodesBounded ==
  ASSUME NEW f, \A n \in Nodes : f[n] \in Nat
  PROVE  \E b \in Nat : \A n \in Nodes : f[n] <= b
<1> DEFINE N == Len(PeerOrder)
           P == {k \in 0..N : \E b \in Nat : \A i \in 1..k : f[PeerOrder[i]] <= b}
<1>1. N \in Nat /\ \A i \in 1..N : PeerOrder[i] \in Nodes
  BY UsageAssumption DEF Peers
<1>2. 0 \in P
  BY <1>1
<1>3. ASSUME NEW k \in 1..N, k - 1 \in P PROVE k \in P
  <2>1. PICK b \in Nat : \A i \in 1..(k - 1) : f[PeerOrder[i]] <= b
    BY <1>3
  <2>2. f[PeerOrder[k]] \in Nat
    BY <1>1
  <2> DEFINE c == IF f[PeerOrder[k]] <= b THEN b ELSE f[PeerOrder[k]]
  <2>3. c \in Nat /\ \A i \in 1..k : f[PeerOrder[i]] <= c
    <3>1. \A i \in 1..k : f[PeerOrder[i]] \in Nat /\ (i = k \/ i \in 1..(k - 1))
      <4>1. \A i \in 1..k : i \in 1..N
        BY <1>1
      <4> QED BY <1>1, <4>1
    <3> QED BY <2>1, <2>2, <3>1
  <2> HIDE DEF c
  <2>4. k \in 0..N
    BY <1>1
  <2> QED BY <2>3, <2>4
<1>4. N \in P
  <2> HIDE DEF P
  <2>1. \A k \in 0..N : k \in P
    BY <1>1, <1>2, <1>3, Upto
  <2> QED BY <1>1, <2>1
<1>5. PICK b \in Nat : \A i \in 1..N : f[PeerOrder[i]] <= b
  BY <1>4
<1> DEFINE c == IF f[Ctl] <= b THEN b ELSE f[Ctl]
<1>6. c \in Nat /\ b <= c /\ f[Ctl] <= c
  BY Ids
<1>7. ASSUME NEW n \in Nodes PROVE f[n] <= c
  <2>1. n = Ctl \/ \E i \in 1..N : PeerOrder[i] = n
    BY UsageAssumption DEF Peers
  <2> HIDE DEF c
  <2>2. ASSUME NEW i \in 1..N, PeerOrder[i] = n PROVE f[n] <= c
    <3>1. f[n] \in Nat /\ f[n] <= b
      BY <1>5, <2>2
    <3> QED BY <1>6, <3>1
  <2> QED BY <1>6, <2>1, <2>2
<1> QED BY <1>6, <1>7

(***************************************************************************)
(* Versions.                                                               *)
(***************************************************************************)

\* Versions are ordered (_usage_version_key compares pairs), and never is the least.
LEMMA VersionOrder ==
  /\ Never \in Version
  /\ \A v, w \in Version : /\ v[1] \in Nat /\ v[2] \in Nat
                           /\ Higher(v, w) \/ Higher(w, v) \/ v = w
                           /\ Later(v, w) \in Version
  /\ \A v \in Version : ~Higher(v, v)
  /\ \A u, v, w \in Version : /\ Higher(u, v) /\ ~Higher(w, v) => Higher(u, w)
                              /\ Higher(u, v) => ~Higher(v, u)
<1>1. \A v \in Version : v = <<v[1], v[2]>> /\ v[1] \in Nat /\ v[2] \in Nat
  BY Ids DEF Version
<1>2. \A v, w \in Version : Higher(v, w) \/ Higher(w, v) \/ v = w
  BY <1>1 DEF Higher
<1>3. \A v, w \in Version : Later(v, w) \in Version
  BY DEF Later
<1>4. \A v \in Version : ~Higher(v, v)
  BY <1>1 DEF Higher
<1>5. \A u, v, w \in Version : /\ Higher(u, v) /\ ~Higher(w, v) => Higher(u, w)
                               /\ Higher(u, v) => ~Higher(v, u)
  BY <1>1 DEF Higher
<1>6. Never \in Version
  BY DEF Never, Version
<1> QED BY <1>1, <1>2, <1>3, <1>4, <1>5, <1>6

(***************************************************************************)
(* Components and ledgers.                                                 *)
(***************************************************************************)

LEMMA ComponentParts ==
  ASSUME NEW c \in Component
  PROVE  /\ c = [rev |-> c.rev, total |-> c.total, hourly |-> c.hourly, stamp |-> c.stamp]
         /\ c.rev \in Nat /\ c.stamp \in [Models -> Version]
         /\ c.total \in [Models -> SUBSET Requests] /\ c.hourly \in [Models -> SUBSET Requests]
BY DEF Component

LEMMA EmptyIs ==
  /\ Empty \in Component
  /\ \A m \in Models : Empty.total[m] = {}
BY VersionOrder DEF Empty, Component, Nothing

LEMMA LedgerParts ==
  ASSUME NEW l, IsLedger(l)
  PROVE  /\ l = [epoch |-> l.epoch, models |-> l.models, origins |-> l.origins]
         /\ l.epoch \in Version /\ l.models \in [Models -> Version]
         /\ DOMAIN l.origins \subseteq Nodes
         /\ l.origins \in [DOMAIN l.origins -> Component]
         /\ \A o \in DOMAIN l.origins : l.origins[o] \in Component
BY DEF IsLedger

LEMMA MakeLedger ==
  ASSUME NEW e \in Version, NEW v \in [Models -> Version], NEW S \in SUBSET Nodes,
         NEW f \in [S -> Component]
  PROVE  IsLedger([epoch |-> e, models |-> v, origins |-> f])
BY DEF IsLedger

LEMMA FreshIs ==
  ASSUME NEW S \in SUBSET Nodes
  PROVE  /\ IsLedger(Fresh(S)) /\ Fresh(S).epoch = Never /\ DOMAIN Fresh(S).origins = S
         /\ \A o \in S : Fresh(S).origins[o] = Empty
<1> DEFINE f == [n \in S |-> Empty]
           v == [m \in Models |-> Never]
<1>1. f \in [S -> Component] /\ v \in [Models -> Version] /\ Never \in Version
  BY EmptyIs, VersionOrder
<1>2. Fresh(S) = [epoch |-> Never, models |-> v, origins |-> f]
  BY DEF Fresh
<1>3. IsLedger(Fresh(S))
  <2> HIDE DEF f, v
  <2> QED BY <1>1, <1>2, MakeLedger
<1> QED BY <1>2, <1>3

\* A component put beside the others of a ledger.
LEMMA PutIs ==
  ASSUME NEW S \in SUBSET Nodes, NEW f \in [S -> Component], NEW n \in Nodes, NEW c \in Component
  PROVE  /\ Put(f, n, c) \in [S \cup {n} -> Component]
         /\ Put(f, n, c)[n] = c
         /\ \A o \in S : o # n => Put(f, n, c)[o] = f[o]
BY DEF Put

\* What _visible_usage_component leaves of a component is no more than it held.
LEMMA VisibleIs ==
  ASSUME NEW l, NEW c \in Component
  PROVE  /\ Visible(l, c) \in Component /\ Visible(l, c).rev = c.rev
         /\ \A m \in Models : Visible(l, c).total[m] \subseteq c.total[m]
<1> DEFINE gone == {m \in Active(c) : c.stamp[m] # l.models[m]}
           t == [m \in Models |-> IF m \in gone THEN {} ELSE c.total[m]]
           h == [m \in Models |-> IF m \in gone THEN {} ELSE c.hourly[m]]
           s == [m \in Models |-> IF m \in gone THEN Never ELSE c.stamp[m]]
<1>1. Visible(l, c) = [c EXCEPT !.total = t, !.hourly = h, !.stamp = s]
  BY DEF Visible
<1> HIDE DEF gone
<1>2. t \in [Models -> SUBSET Requests] /\ h \in [Models -> SUBSET Requests]
      /\ s \in [Models -> Version]
  BY ComponentParts, VersionOrder
<1>3. \A m \in Models : t[m] \subseteq c.total[m]
  OBVIOUS
<1> HIDE DEF t, h, s
<1>4. Visible(l, c) \in Component /\ Visible(l, c).rev = c.rev /\ Visible(l, c).total = t
  BY <1>1, <1>2 DEF Component
<1> QED BY <1>3, <1>4

LEMMA StampedIs ==
  ASSUME NEW c \in Component, NEW v \in [Models -> Version]
  PROVE  /\ Stamped(c, v) \in Component /\ Stamped(c, v).rev = c.rev
         /\ Stamped(c, v).total = c.total
<1> DEFINE s == [m \in Models |-> IF m \in Active(c) THEN v[m] ELSE c.stamp[m]]
<1>1. Stamped(c, v) = [rev |-> c.rev, total |-> c.total, hourly |-> c.hourly, stamp |-> s]
  BY ComponentParts DEF Stamped
<1>2. s \in [Models -> Version]
  BY ComponentParts
<1> HIDE DEF s
<1> QED BY <1>1, <1>2, ComponentParts DEF Component

LEMMA KnownIs ==
  ASSUME NEW l, IsLedger(l), NEW n \in Nodes
  PROVE  LET k == Known(l, n) IN
         /\ IsLedger(k) /\ k.epoch = l.epoch /\ k.models = l.models
         /\ DOMAIN k.origins = DOMAIN l.origins \cup {n}
         /\ \A o \in DOMAIN l.origins : k.origins[o] = l.origins[o]
         /\ n \notin DOMAIN l.origins => k.origins[n] = Empty
<1>1. CASE n \in DOMAIN l.origins
  BY <1>1 DEF Known
<1>2. CASE n \notin DOMAIN l.origins
  <2> DEFINE f == Put(l.origins, n, Empty)
             S == DOMAIN l.origins
  <2>1. Known(l, n) = [epoch |-> l.epoch, models |-> l.models, origins |-> f]
    BY <1>2, LedgerParts DEF Known
  <2>2. S \in SUBSET Nodes /\ l.origins \in [S -> Component]
    BY LedgerParts
  <2>3. f \in [S \cup {n} -> Component] /\ f[n] = Empty /\ \A o \in S : o # n => f[o] = l.origins[o]
    <3>1. Empty \in Component
      BY EmptyIs
    <3> HIDE DEF S
    <3> QED BY <2>2, <3>1 DEF Put
  <2>4. S \cup {n} \in SUBSET Nodes /\ DOMAIN f = S \cup {n}
    BY <2>2, <2>3
  <2> HIDE DEF f
  <2>5. IsLedger(Known(l, n))
    BY <2>1, <2>3, <2>4, MakeLedger, LedgerParts
  <2> QED BY <1>2, <2>1, <2>3, <2>4, <2>5
<1> QED BY <1>1, <1>2

LEMMA LedgerExcept ==
  ASSUME NEW l, IsLedger(l), NEW v, NEW f
  PROVE  /\ [l EXCEPT !.origins = f] = [epoch |-> l.epoch, models |-> l.models, origins |-> f]
         /\ [l EXCEPT !.models = v, !.origins = f]
              = [epoch |-> l.epoch, models |-> v, origins |-> f]
<1> DEFINE x == [l EXCEPT !.models = v, !.origins = f]
           y == [l EXCEPT !.origins = f]
<1>1. l \in [epoch : {l.epoch}, models : {v, l.models}, origins : {f, l.origins}]
  BY DEF IsLedger
<1>2. /\ x \in [epoch : {l.epoch}, models : {v, l.models}, origins : {f, l.origins}]
      /\ y \in [epoch : {l.epoch}, models : {v, l.models}, origins : {f, l.origins}]
      /\ x.epoch = l.epoch /\ x.models = v /\ x.origins = f
      /\ y.epoch = l.epoch /\ y.models = l.models /\ y.origins = f
  BY <1>1
<1> HIDE DEF x, y
<1>3. /\ x = [epoch |-> x.epoch, models |-> x.models, origins |-> x.origins]
      /\ y = [epoch |-> y.epoch, models |-> y.models, origins |-> y.origins]
  BY <1>2
<1> QED BY <1>2, <1>3 DEF x, y

\* merge_token_usage_sync under one epoch: of each component the newer copy.
LEMMA UnionIs ==
  ASSUME NEW l, IsLedger(l), NEW r, IsLedger(r)
  PROVE  LET u == Union(l, r) IN
         /\ IsLedger(u) /\ u.epoch = l.epoch
         /\ DOMAIN u.origins = DOMAIN l.origins \cup DOMAIN r.origins
         /\ \A o \in DOMAIN u.origins :
              \/ /\ o \in DOMAIN r.origins /\ Newer(l, o, r.origins[o])
                 /\ u.origins[o] = r.origins[o]
              \/ o \in DOMAIN l.origins /\ u.origins[o] = l.origins[o]
<1> DEFINE v == [m \in Models |-> Later(l.models[m], r.models[m])]
           S == DOMAIN l.origins \cup DOMAIN r.origins
           f == [o \in S |-> IF o \in DOMAIN r.origins /\ Newer(l, o, r.origins[o])
                             THEN r.origins[o] ELSE l.origins[o]]
<1>1. Union(l, r) = [l EXCEPT !.models = v, !.origins = f]
  BY DEF Union
<1>2. v \in [Models -> Version] /\ S \in SUBSET Nodes
  BY LedgerParts, VersionOrder
<1>3. \A o \in S : \/ /\ o \in DOMAIN r.origins /\ Newer(l, o, r.origins[o])
                      /\ f[o] = r.origins[o]
                   \/ o \in DOMAIN l.origins /\ f[o] = l.origins[o]
  BY DEF Newer
<1>4. \A o \in S : f[o] \in Component
  <2> HIDE DEF f
  <2> QED BY <1>3, LedgerParts
<1>5. f \in [S -> Component] /\ DOMAIN f = S
  BY <1>4
<1> HIDE DEF f, v
<1>6. Union(l, r) = [epoch |-> l.epoch, models |-> v, origins |-> f]
  BY <1>1, LedgerExcept
<1>7. IsLedger(Union(l, r))
  <2> HIDE DEF S
  <2>1. l.epoch \in Version
    BY LedgerParts
  <2> QED BY <1>2, <1>5, <1>6, <2>1, MakeLedger
<1> QED BY <1>3, <1>5, <1>6, <1>7

\* What merging two ledgers leaves: a ledger under the higher epoch, each of whose
\* components is one of theirs under that epoch, or the node's own, still empty.
LEMMA MergeIs ==
  ASSUME NEW n \in Nodes, NEW l, IsLedger(l), n \in DOMAIN l.origins, NEW r, IsLedger(r)
  PROVE  LET u == Merge(n, l, r) IN
         /\ IsLedger(u) /\ n \in DOMAIN u.origins
         /\ u.epoch = l.epoch \/ (u.epoch = r.epoch /\ Higher(r.epoch, l.epoch))
         /\ \A o \in DOMAIN u.origins :
              \/ /\ o \in DOMAIN r.origins /\ u.epoch = r.epoch
                 /\ u.origins[o] = r.origins[o]
                 /\ Higher(r.epoch, l.epoch) \/ Newer(l, o, r.origins[o])
              \/ /\ o \in DOMAIN l.origins /\ u.epoch = l.epoch
                 /\ u.origins[o] = l.origins[o]
              \/ u.origins[o] = Empty
<1>0. /\ l.epoch \in Version /\ r.epoch \in Version
      /\ Higher(r.epoch, l.epoch) => ~Higher(l.epoch, r.epoch) /\ r.epoch # l.epoch
      /\ Higher(l.epoch, r.epoch) => r.epoch # l.epoch
      /\ Higher(r.epoch, l.epoch) \/ Higher(l.epoch, r.epoch) \/ r.epoch = l.epoch
  BY LedgerParts, VersionOrder
<1>1. CASE Higher(r.epoch, l.epoch)
  <2>1. Merge(n, l, r) = Known(r, n)
    BY <1>0, <1>1 DEF Merge
  <2>2. \A o \in DOMAIN Known(r, n).origins : o \in DOMAIN r.origins \/ Known(r, n).origins[o] = Empty
    BY KnownIs
  <2> QED BY <1>1, <2>1, <2>2, KnownIs
<1>2. CASE Higher(l.epoch, r.epoch)
  <2>1. Merge(n, l, r) = l
    BY <1>0, <1>2 DEF Merge
  <2> QED BY <2>1
<1>3. CASE r.epoch = l.epoch
  <2>1. ~Higher(r.epoch, l.epoch) /\ ~Higher(l.epoch, r.epoch)
    BY <1>0, <1>3
  <2>2. Merge(n, l, r) = Known(Union(l, r), n)
    BY <1>3, <2>1 DEF Merge
  <2>3. IsLedger(Union(l, r)) /\ n \in DOMAIN Union(l, r).origins
    BY UnionIs
  <2>4. Known(Union(l, r), n) = Union(l, r)
    BY <2>3 DEF Known
  <2>5. Merge(n, l, r) = Union(l, r)
    BY <2>2, <2>4
  <2> QED BY <1>3, <2>3, <2>5, UnionIs
<1> QED BY <1>0, <1>1, <1>2, <1>3

\* A joining peer's push differs from the controller's only in the peer's component.
LEMMA PreservedIs ==
  ASSUME NEW n \in Nodes, NEW l, IsLedger(l), n \in DOMAIN l.origins, NEW r, IsLedger(r)
  PROVE  LET p == Preserved(n, l, r) IN
         /\ IsLedger(p) /\ p.epoch = r.epoch /\ p.models = r.models
         /\ DOMAIN p.origins = DOMAIN r.origins \cup {n}
         /\ \A o \in DOMAIN r.origins : o # n => p.origins[o] = r.origins[o]
         /\ p.origins[n].rev = l.origins[n].rev
         /\ \A m \in Models : p.origins[n].total[m] \subseteq l.origins[n].total[m]
<1> DEFINE c == Stamped(Visible(l, l.origins[n]), r.models)
           f == Put(r.origins, n, c)
           S == DOMAIN r.origins
<1>1. /\ c \in Component /\ c.rev = l.origins[n].rev
      /\ \A m \in Models : c.total[m] \subseteq l.origins[n].total[m]
  <2>1. l.origins[n] \in Component /\ r.models \in [Models -> Version]
    BY LedgerParts
  <2>2. Visible(l, l.origins[n]) \in Component
    BY <2>1, VisibleIs
  <2> QED BY <2>1, <2>2, VisibleIs, StampedIs
<1> HIDE DEF c
<1>2. Preserved(n, l, r) = [epoch |-> r.epoch, models |-> r.models, origins |-> f]
  BY LedgerExcept DEF Preserved, c
<1>3. S \in SUBSET Nodes /\ r.origins \in [S -> Component]
      /\ r.epoch \in Version /\ r.models \in [Models -> Version]
  BY LedgerParts
<1>4. f \in [S \cup {n} -> Component] /\ f[n] = c /\ \A o \in S : o # n => f[o] = r.origins[o]
  BY <1>1, <1>3 DEF Put
<1>5. S \cup {n} \in SUBSET Nodes /\ DOMAIN f = S \cup {n}
  BY <1>3, <1>4
<1> HIDE DEF f
<1>6. IsLedger(Preserved(n, l, r))
  BY <1>2, <1>3, <1>4, <1>5, MakeLedger
<1> QED BY <1>1, <1>2, <1>4, <1>5, <1>6

\* What the controller makes of its own ledger and a new peer's: an epoch of its own
\* above both, in which no component counts more than one of the two did.
LEMMA ReconciledIs ==
  ASSUME NEW l, IsLedger(l), Ctl \in DOMAIN l.origins,
         NEW peer \in Peers, NEW r, IsLedger(r), peer \in DOMAIN r.origins
  PROVE  LET u == Reconciled(l, r, peer) IN
         /\ IsLedger(u) /\ Ctl \in DOMAIN u.origins
         /\ u.epoch[2] = Ctl /\ u.epoch[1] > l.epoch[1] /\ u.epoch[1] > r.epoch[1]
         /\ Higher(u.epoch, l.epoch) /\ Higher(u.epoch, r.epoch)
         /\ \A o \in DOMAIN u.origins :
              \/ /\ o \in DOMAIN l.origins /\ u.origins[o].rev = l.origins[o].rev
                 /\ \A m \in Models : u.origins[o].total[m] \subseteq l.origins[o].total[m]
              \/ /\ o = peer /\ u.origins[o].rev = r.origins[o].rev
                 /\ \A m \in Models : u.origins[o].total[m] \subseteq r.origins[o].total[m]
<1> DEFINE mine == [o \in DOMAIN l.origins |-> Visible(l, l.origins[o])]
           theirs == Visible(r, r.origins[peer])
           all == IF peer \in DOMAIN mine /\ theirs.rev < mine[peer].rev
                  THEN mine ELSE Put(mine, peer, theirs)
           used == UNION {Active(all[o]) : o \in DOMAIN all}
           counters(m) == {l.models[m][1]} \cup {all[o].stamp[m][1] : o \in DOMAIN all}
           versions == [m \in Models |-> IF m \in used THEN <<Largest(counters(m)) + 1, Ctl>>
                                         ELSE l.models[m]]
           top == Largest({l.epoch[1], r.epoch[1]})
           f == [o \in DOMAIN all |-> Stamped(all[o], versions)]
<1>1. Reconciled(l, r, peer) = [epoch |-> <<top + 1, Ctl>>, models |-> versions, origins |-> f]
  BY DEF Reconciled
<1>2. /\ l.epoch \in Version /\ l.models \in [Models -> Version] /\ DOMAIN l.origins \in SUBSET Nodes
      /\ \A o \in DOMAIN l.origins : l.origins[o] \in Component
      /\ r.epoch \in Version /\ r.origins[peer] \in Component
      /\ peer \in Nodes /\ Ctl \in Nodes
  BY LedgerParts, Ids
<1>3. /\ mine \in [DOMAIN l.origins -> Component]
      /\ \A o \in DOMAIN l.origins : mine[o].rev = l.origins[o].rev
      /\ \A o \in DOMAIN l.origins, m \in Models : mine[o].total[m] \subseteq l.origins[o].total[m]
  BY <1>2, VisibleIs
<1>4. /\ theirs \in Component /\ theirs.rev = r.origins[peer].rev
      /\ \A m \in Models : theirs.total[m] \subseteq r.origins[peer].total[m]
  BY <1>2, VisibleIs
<1>5. PICK S \in SUBSET Nodes :
        /\ Ctl \in S /\ all \in [S -> Component]
        /\ \A o \in S : (o \in DOMAIN l.origins /\ all[o] = mine[o]) \/ (o = peer /\ all[o] = theirs)
  <2> HIDE DEF mine, theirs
  <2>1. CASE peer \in DOMAIN mine /\ theirs.rev < mine[peer].rev
    <3>1. all = mine /\ DOMAIN l.origins = DOMAIN mine
      BY <1>3, <2>1
    <3> QED BY <1>2, <1>3, <3>1
  <2>2. CASE ~(peer \in DOMAIN mine /\ theirs.rev < mine[peer].rev)
    <3>1. all = Put(mine, peer, theirs)
      BY <2>2
    <3> DEFINE T == DOMAIN l.origins \cup {peer}
    <3>2. T \in SUBSET Nodes /\ Ctl \in T
      BY <1>2
    <3>3. all \in [T -> Component]
      BY <1>3, <1>4, <3>1 DEF Put
    <3>4. \A o \in T : (o \in DOMAIN l.origins /\ all[o] = mine[o]) \/ (o = peer /\ all[o] = theirs)
      BY <1>3, <3>1 DEF Put
    <3> HIDE DEF T, all
    <3> QED BY <3>2, <3>3, <3>4
  <2> QED BY <2>1, <2>2
<1> HIDE DEF all, mine, theirs
<1>6. \A m \in Models : Largest(counters(m)) \in Nat
  <2> SUFFICES ASSUME NEW m \in Models PROVE Largest(counters(m)) \in Nat
    OBVIOUS
  <2> DEFINE g == [n \in Nodes |-> IF n \in S THEN all[n].stamp[m][1] ELSE 0]
  <2>1. \A n \in Nodes : g[n] \in Nat
    <3>1. \A n \in S : all[n].stamp[m] \in Version
      BY <1>5, ComponentParts
    <3>2. \A n \in S : all[n].stamp[m][1] \in Nat
      BY <3>1, VersionOrder
    <3> QED BY <3>2
  <2>2. PICK b \in Nat : \A n \in Nodes : g[n] <= b
    <3> HIDE DEF g
    <3> QED BY <2>1, NodesBounded
  <2>3. l.models[m][1] \in Nat
    BY <1>2, VersionOrder
  <2> DEFINE c == IF b >= l.models[m][1] THEN b ELSE l.models[m][1]
  <2>4. c \in Nat /\ b <= c /\ l.models[m][1] <= c
    BY <2>3
  <2>5. \A y \in counters(m) : y = l.models[m][1] \/ \E n \in Nodes : y = g[n]
    BY <1>5
  <2> HIDE DEF g, c
  <2>6. \A y \in counters(m) : y \in Nat /\ y <= c
    <3> SUFFICES ASSUME NEW y \in counters(m) PROVE y \in Nat /\ y <= c
      OBVIOUS
    <3>1. CASE y = l.models[m][1]
      BY <2>3, <2>4, <3>1
    <3>2. ASSUME NEW n \in Nodes, y = g[n] PROVE y \in Nat /\ y <= c
      <4>1. g[n] \in Nat /\ g[n] <= b
        BY <2>1, <2>2
      <4> QED BY <2>4, <3>2, <4>1
    <3> QED BY <2>5, <3>1, <3>2
  <2>7. counters(m) # {}
    OBVIOUS
  <2>8. Largest(counters(m)) \in counters(m)
    <3> HIDE DEF counters
    <3>1. counters(m) \subseteq Nat /\ \A y \in counters(m) : y <= c
      BY <2>6
    <3> QED BY <2>4, <2>7, <3>1, LargestIs
  <2> QED BY <2>6, <2>8
<1> HIDE DEF counters
<1>7. versions \in [Models -> Version]
  <2>1. \A m \in Models : <<Largest(counters(m)) + 1, Ctl>> \in Version
    BY <1>2, <1>6 DEF Version
  <2> QED BY <1>2, <2>1
<1> HIDE DEF versions
<1>8. \A o \in S : f[o] \in Component /\ f[o].total = all[o].total /\ f[o].rev = all[o].rev
  BY <1>5, <1>7, StampedIs
<1>9. f \in [S -> Component] /\ DOMAIN f = S
  BY <1>5, <1>8
<1> HIDE DEF f
<1>10. top \in Nat /\ l.epoch[1] \in Nat /\ r.epoch[1] \in Nat /\ l.epoch[1] <= top /\ r.epoch[1] <= top
  <2> DEFINE S2 == {l.epoch[1], r.epoch[1]}
             c == IF l.epoch[1] >= r.epoch[1] THEN l.epoch[1] ELSE r.epoch[1]
  <2>1. l.epoch[1] \in Nat /\ r.epoch[1] \in Nat
    BY <1>2, VersionOrder
  <2>2. S2 \subseteq Nat /\ S2 # {} /\ c \in Nat /\ \A y \in S2 : y <= c
    BY <2>1
  <2>3. Largest(S2) \in S2 /\ \A y \in S2 : y <= Largest(S2)
    <3> HIDE DEF S2, c
    <3> QED BY <2>2, LargestIs
  <2> QED BY <2>1, <2>3
<1> HIDE DEF top
<1>11. <<top + 1, Ctl>> \in Version
  BY <1>2, <1>10 DEF Version
<1>12. IsLedger(Reconciled(l, r, peer))
  BY <1>1, <1>7, <1>9, <1>11, MakeLedger
<1>13. /\ Higher(<<top + 1, Ctl>>, l.epoch) /\ Higher(<<top + 1, Ctl>>, r.epoch)
       /\ top + 1 > l.epoch[1] /\ top + 1 > r.epoch[1]
  BY <1>10 DEF Higher
<1>14. ASSUME NEW o \in S
       PROVE  \/ /\ o \in DOMAIN l.origins /\ f[o].rev = l.origins[o].rev
                 /\ \A m \in Models : f[o].total[m] \subseteq l.origins[o].total[m]
              \/ /\ o = peer /\ f[o].rev = r.origins[o].rev
                 /\ \A m \in Models : f[o].total[m] \subseteq r.origins[o].total[m]
  BY <1>3, <1>4, <1>5, <1>8
<1> QED BY <1>1, <1>5, <1>9, <1>12, <1>13, <1>14

(***************************************************************************)
(* The inductive invariant.                                                *)
(***************************************************************************)

\* Component c of origin o, in a ledger under epoch e, given the requests recorded
\* and the epochs handed out by resets: it counts requests its origin recorded, none
\* under a higher epoch, those of this epoch under the version it is stamped with -
\* and no others, once a reset handed the epoch out (a later joiner's excepted).
Told(e, o, c, requests, resets) ==
  \A m \in Models : \A r \in c.total[m] :
    /\ r \in DOMAIN requests /\ requests[r].node = o
    /\ requests[r].epoch \in Version /\ ~Higher(requests[r].epoch, e)
    /\ requests[r].epoch = e => requests[r].version = c.stamp[m]
    /\ e \in resets /\ o \in Joined \cup {Ctl} => requests[r].epoch = e

Honest(l, requests, resets) ==
  \A o \in DOMAIN l.origins : Told(l.epoch, o, l.origins[o], requests, resets)

\* The node that handed out this epoch has seen it: its next one is another.  Not so once
\* a node has gone back to an epoch before one it handed out.
Foreseen(e, ledgers, gone) == gone \/ (e[2] \in Nodes => e[1] <= ledgers[e[2]].epoch[1])

Good(l, requests, resets, ledgers, gone) ==
  IsLedger(l) /\ Honest(l, requests, resets) /\ Foreseen(l.epoch, ledgers, gone)

\* The epochs handed out by resets, as long as none can be handed out again.
Resets == IF spent.rewound THEN {} ELSE spent.epochs

\* What node n shows beside ledger l, given what is stale.
ShowsRight(n, l, shown, old) ==
  \A m \in Models : /\ Counted(l, m) \subseteq shown[m]
                    /\ <<n, m>> \notin old => shown[m] = Counted(l, m)

LedgersOK ==
  \A n \in Nodes :
    /\ Good(ledger[n], log, Resets, ledger, spent.rewound) /\ n \in DOMAIN ledger[n].origins
    /\ Good(disk[n], log, Resets, ledger, spent.rewound) /\ n \in DOMAIN disk[n].origins
    /\ ShowsRight(n, ledger[n], totals[n], stale)

AnswersOK ==
  \A n \in DOMAIN answers :
    n \in Peers /\ Good(answers[n], log, Resets, ledger, spent.rewound) /\ n \in DOMAIN answers[n].origins

PushesOK ==
  /\ Good(snap, log, Resets, ledger, spent.rewound)
  /\ \A p \in late : /\ p.to \in Peers /\ p.claimed \in BOOLEAN
                     /\ Good(p.ledger, log, Resets, ledger, spent.rewound)
                     /\ p.claimed => p.to \notin Joined

RecordedRequest == [node : Nodes, model : Models, epoch : Version, version : Version]

SpentType == [resets : Nat, erases : Nat, faults : Nat, epochs : SUBSET Version,
              lost : BOOLEAN, rewound : BOOLEAN, torn : BOOLEAN]

HistoryOK ==
  /\ log \in Seq(RecordedRequest) /\ Len(log) <= MaxRequests
  /\ spent \in SpentType /\ (spent.rewound => spent.lost)
  /\ \A e \in Resets : e[2] \in Nodes /\ Foreseen(e, ledger, spent.rewound)

RoundOK ==
  /\ DOMAIN ledger = Nodes /\ DOMAIN disk = Nodes
  /\ totals \in [Nodes -> [Models -> SUBSET Requests]] /\ stale \subseteq Nodes \X Models
  /\ reconciled \subseteq Peers /\ Joined \subseteq reconciled
  /\ phase \in {"idle", "pull", "push"}
  /\ asked \subseteq Peers /\ claims \subseteq Peers /\ confirmed \subseteq Peers
  /\ claims \cap Joined = {}

IInv == LedgersOK /\ AnswersOK /\ PushesOK /\ HistoryOK /\ RoundOK

(***************************************************************************)
(* Operations on ledgers keep them honest.                                 *)
(***************************************************************************)

LEMMA EmptyTold ==
  ASSUME NEW e, NEW o, NEW requests, NEW resets
  PROVE  Told(e, o, Empty, requests, resets)
BY EmptyIs DEF Told

\* A component under a new epoch that no reset handed out may count less.
LEMMA ToldUnderHigher ==
  ASSUME NEW e \in Version, NEW e2 \in Version, Higher(e2, e), NEW o, NEW c, NEW c2,
         NEW requests, NEW resets, Told(e, o, c, requests, resets),
         \A m \in Models : c2.total[m] \subseteq c.total[m],
         e2 \notin resets \/ o \notin Joined \cup {Ctl}
  PROVE  Told(e2, o, c2, requests, resets)
<1> SUFFICES ASSUME NEW m \in Models, NEW r \in c2.total[m]
             PROVE  /\ r \in DOMAIN requests /\ requests[r].node = o
                    /\ requests[r].epoch \in Version /\ ~Higher(requests[r].epoch, e2)
                    /\ requests[r].epoch # e2
  BY DEF Told
<1>1. /\ r \in DOMAIN requests /\ requests[r].node = o
      /\ requests[r].epoch \in Version /\ ~Higher(requests[r].epoch, e)
  BY DEF Told
<1>2. Higher(e2, requests[r].epoch)
  BY <1>1, VersionOrder
<1> QED BY <1>1, <1>2, VersionOrder

LEMMA MergeHonest ==
  ASSUME NEW n \in Nodes, NEW l, IsLedger(l), n \in DOMAIN l.origins, NEW r, IsLedger(r),
         NEW requests, NEW resets, Honest(l, requests, resets), Honest(r, requests, resets)
  PROVE  Honest(Merge(n, l, r), requests, resets)
<1> DEFINE u == Merge(n, l, r)
<1> SUFFICES ASSUME NEW o \in DOMAIN u.origins
             PROVE  Told(u.epoch, o, u.origins[o], requests, resets)
  BY DEF Honest
<1>1. \/ o \in DOMAIN r.origins /\ u.epoch = r.epoch /\ u.origins[o] = r.origins[o]
      \/ o \in DOMAIN l.origins /\ u.epoch = l.epoch /\ u.origins[o] = l.origins[o]
      \/ u.origins[o] = Empty
  BY MergeIs
<1> HIDE DEF u
<1> QED BY <1>1, EmptyTold DEF Honest

\* The same for a joining peer, which keeps its own component.
LEMMA JoinHonest ==
  ASSUME NEW n \in Peers \ Joined, NEW l, IsLedger(l), n \in DOMAIN l.origins, NEW r, IsLedger(r),
         NEW requests, NEW resets, Honest(l, requests, resets), Honest(r, requests, resets)
  PROVE  Honest(Merge(n, l, Preserved(n, l, r)), requests, resets)
<1> DEFINE p == Preserved(n, l, r)
           u == Merge(n, l, p)
<1> SUFFICES ASSUME NEW o \in DOMAIN u.origins
             PROVE  Told(u.epoch, o, u.origins[o], requests, resets)
  BY DEF Honest
<1>0. n \in Nodes /\ n \notin Joined \cup {Ctl}
  BY Ids
<1>1. /\ IsLedger(p) /\ p.epoch = r.epoch
      /\ DOMAIN p.origins = DOMAIN r.origins \cup {n}
      /\ \A x \in DOMAIN r.origins : x # n => p.origins[x] = r.origins[x]
      /\ p.origins[n].rev = l.origins[n].rev
      /\ \A m \in Models : p.origins[n].total[m] \subseteq l.origins[n].total[m]
  BY <1>0, PreservedIs
<1> HIDE DEF p
<1>2. \/ /\ o \in DOMAIN p.origins /\ u.epoch = p.epoch
         /\ u.origins[o] = p.origins[o]
         /\ Higher(p.epoch, l.epoch) \/ Newer(l, o, p.origins[o])
      \/ o \in DOMAIN l.origins /\ u.epoch = l.epoch /\ u.origins[o] = l.origins[o]
      \/ u.origins[o] = Empty
  BY <1>0, <1>1, MergeIs
<1> HIDE DEF u
<1>3. CASE /\ o \in DOMAIN p.origins /\ u.epoch = p.epoch
           /\ u.origins[o] = p.origins[o]
           /\ Higher(p.epoch, l.epoch) \/ Newer(l, o, p.origins[o])
  <2>1. CASE o # n
    BY <1>1, <1>3, <2>1 DEF Honest
  <2>2. CASE o = n
    <3>1. l.origins[n].rev \in Nat /\ l.epoch \in Version /\ r.epoch \in Version
      BY LedgerParts, ComponentParts
    <3>2. ~Newer(l, n, p.origins[n])
      BY <1>1, <3>1 DEF Newer
    <3>3. Higher(r.epoch, l.epoch)
      BY <1>1, <1>3, <2>2, <3>2
    <3>4. Told(l.epoch, n, l.origins[n], requests, resets)
      BY DEF Honest
    <3>5. Told(r.epoch, n, p.origins[n], requests, resets)
      BY <1>0, <1>1, <3>1, <3>3, <3>4, ToldUnderHigher
    <3> QED BY <1>1, <1>3, <2>2, <3>5
  <2> QED BY <2>1, <2>2
<1> QED BY <1>2, <1>3, EmptyTold DEF Honest

\* The epoch a reconciliation starts is one no reset handed out.
LEMMA ReconciledHonest ==
  ASSUME NEW l, IsLedger(l), Ctl \in DOMAIN l.origins,
         NEW peer \in Peers, NEW r, IsLedger(r), peer \in DOMAIN r.origins,
         NEW requests, NEW resets, Honest(l, requests, resets), Honest(r, requests, resets),
         \A e \in resets : e[2] = Ctl => e[1] <= l.epoch[1],
         resets \subseteq Version
  PROVE  Honest(Reconciled(l, r, peer), requests, resets)
<1> DEFINE u == Reconciled(l, r, peer)
<1>1. /\ IsLedger(u)
      /\ u.epoch[2] = Ctl /\ u.epoch[1] > l.epoch[1]
      /\ Higher(u.epoch, l.epoch) /\ Higher(u.epoch, r.epoch)
      /\ \A o \in DOMAIN u.origins :
           \/ /\ o \in DOMAIN l.origins
              /\ \A m \in Models : u.origins[o].total[m] \subseteq l.origins[o].total[m]
           \/ /\ o = peer
              /\ \A m \in Models : u.origins[o].total[m] \subseteq r.origins[o].total[m]
  BY ReconciledIs
<1> HIDE DEF u
<1>2. l.epoch \in Version /\ r.epoch \in Version /\ u.epoch \in Version
      /\ l.epoch[1] \in Nat /\ u.epoch[1] \in Nat
  BY <1>1, LedgerParts, VersionOrder
<1>3. u.epoch \notin resets
  <2> SUFFICES ASSUME u.epoch \in resets PROVE FALSE
    OBVIOUS
  <2>1. u.epoch[1] <= l.epoch[1]
    BY <1>1
  <2> QED BY <1>1, <1>2, <2>1
<1>4. ASSUME NEW o \in DOMAIN u.origins PROVE Told(u.epoch, o, u.origins[o], requests, resets)
  <2>1. CASE /\ o \in DOMAIN l.origins
             /\ \A m \in Models : u.origins[o].total[m] \subseteq l.origins[o].total[m]
    <3>1. Told(l.epoch, o, l.origins[o], requests, resets)
      BY <2>1 DEF Honest
    <3> QED BY <1>1, <1>2, <1>3, <2>1, <3>1, ToldUnderHigher
  <2>2. CASE /\ o = peer
             /\ \A m \in Models : u.origins[o].total[m] \subseteq r.origins[o].total[m]
    <3>1. Told(r.epoch, o, r.origins[o], requests, resets)
      BY <2>2 DEF Honest
    <3> QED BY <1>1, <1>2, <1>3, <2>2, <3>1, ToldUnderHigher
  <2> QED BY <1>1, <2>1, <2>2
<1> QED BY <1>4 DEF Honest, u

(***************************************************************************)
(* The pulled ledgers, taken in one after the other.                       *)
(***************************************************************************)

\* The recursion of Absorbing: a function that satisfies it up to each place of
\* PeerOrder exists, so the one chosen does.
LEMMA AbsorbingIs ==
  \A i \in 0..Len(PeerOrder) :
    Absorbing[i] = IF i = 0 THEN ledger[Ctl]
                   ELSE LET n == PeerOrder[i] IN
                        IF n \in DOMAIN answers THEN Absorb(Absorbing[i - 1], answers[n], n)
                        ELSE Absorbing[i - 1]
<1> DEFINE N == Len(PeerOrder)
           Next1(x, i) == LET n == PeerOrder[i] IN
                          IF n \in DOMAIN answers THEN Absorb(x, answers[n], n) ELSE x
           Fits(g, k) == g = [i \in 0..k |-> IF i = 0 THEN ledger[Ctl]
                                             ELSE LET n == PeerOrder[i] IN
                                                  IF n \in DOMAIN answers
                                                  THEN Absorb(g[i - 1], answers[n], n)
                                                  ELSE g[i - 1]]
           P == {k \in 0..N : \E g : Fits(g, k)}
<1>0. N \in Nat
  BY UsageAssumption
<1>1. 0 \in P
  <2> DEFINE g == [i \in 0..0 |-> ledger[Ctl]]
  <2>1. Fits(g, 0)
    OBVIOUS
  <2>2. 0 \in 0..N
    BY <1>0
  <2> HIDE DEF g, Fits
  <2> QED BY <2>1, <2>2
<1>2. ASSUME NEW k \in 1..N, k - 1 \in P PROVE k \in P
  <2>1. PICK g : Fits(g, k - 1)
    BY <1>2
  <2> DEFINE h == [i \in 0..k |-> IF i = k THEN Next1(g[k - 1], k) ELSE g[i]]
  <2>2. /\ \A i \in 0..(k - 1) : g[i] = IF i = 0 THEN ledger[Ctl] ELSE Next1(g[i - 1], i)
        /\ k \in Nat /\ k # 0
    BY <2>1, <1>0
  <2> HIDE DEF Next1
  <2>3. \A i \in 0..k : h[i] = IF i = 0 THEN ledger[Ctl] ELSE Next1(h[i - 1], i)
    <3> SUFFICES ASSUME NEW i \in 0..k
                 PROVE  h[i] = IF i = 0 THEN ledger[Ctl] ELSE Next1(h[i - 1], i)
      OBVIOUS
    <3>1. i # 0 => i - 1 \in 0..k /\ i - 1 # k /\ h[i - 1] = g[i - 1]
      BY <2>2
    <3>2. CASE i = k
      <4>1. h[i] = Next1(g[k - 1], k) /\ i # 0
        BY <2>2, <3>2
      <4> HIDE DEF h
      <4> QED BY <3>1, <3>2, <4>1
    <3>3. CASE i # k
      <4>1. h[i] = g[i] /\ i \in 0..(k - 1)
        BY <2>2, <3>3
      <4> HIDE DEF h
      <4> QED BY <2>2, <3>1, <4>1
    <3> QED BY <3>2, <3>3
  <2>4. Fits(h, k)
    <3>1. h = [i \in 0..k |-> h[i]]
      OBVIOUS
    <3> HIDE DEF h
    <3> QED BY <2>3, <3>1 DEF Next1
  <2>5. k \in 0..N
    BY <1>0
  <2> HIDE DEF h, Fits
  <2> QED BY <2>4, <2>5
<1>3. \E g : Fits(g, N)
  <2>1. N \in P
    <3> HIDE DEF P
    <3>1. \A k \in 0..N : k \in P
      BY <1>0, <1>1, <1>2, Upto
    <3> QED BY <1>0, <3>1
  <2> HIDE DEF Fits
  <2> QED BY <2>1
<1>4. Fits(Absorbing, N)
  BY <1>3 DEF Absorbing
<1> QED BY <1>4, <1>0

\* What holds of the controller's ledger while it takes the pulled ones in: its epoch
\* never falls, and only a reconciliation gives it one of the controller's own.
Rising(l) ==
  /\ IsLedger(l) /\ Ctl \in DOMAIN l.origins /\ Honest(l, log, Resets)
  /\ ledger[Ctl].epoch[1] <= l.epoch[1]
  /\ l.epoch[2] # Ctl => Foreseen(l.epoch, ledger, spent.rewound)

LEMMA AbsorbRises ==
  ASSUME IInv, NEW l, Rising(l), NEW n \in DOMAIN answers
  PROVE  LET u == Absorb(l, answers[n], n) IN Rising(u) /\ l.epoch[1] <= u.epoch[1]
<1> DEFINE r == answers[n]
<1>1. /\ IsLedger(r) /\ Honest(r, log, Resets) /\ Foreseen(r.epoch, ledger, spent.rewound)
      /\ n \in DOMAIN r.origins /\ n \in Peers
  BY DEF IInv, AnswersOK, Good
<1>2. /\ IsLedger(l) /\ Ctl \in DOMAIN l.origins /\ Honest(l, log, Resets)
      /\ ledger[Ctl].epoch[1] <= l.epoch[1]
      /\ l.epoch[2] # Ctl => Foreseen(l.epoch, ledger, spent.rewound)
  BY DEF Rising
<1>3. Ctl \in Nodes /\ IsLedger(ledger[Ctl])
  BY Ids DEF IInv, LedgersOK, Good
<1>4. /\ l.epoch \in Version /\ r.epoch \in Version
      /\ ledger[Ctl].epoch[1] \in Nat /\ l.epoch[1] \in Nat /\ r.epoch[1] \in Nat
  BY <1>1, <1>2, <1>3, LedgerParts, VersionOrder
<1> HIDE DEF r
<1>5. CASE n \in reconciled
  <2> DEFINE u == Merge(Ctl, l, r)
  <2>1. Absorb(l, answers[n], n) = u
    BY <1>5 DEF Absorb, r
  <2>2. IsLedger(u) /\ Ctl \in DOMAIN u.origins
        /\ (u.epoch = l.epoch \/ (u.epoch = r.epoch /\ Higher(r.epoch, l.epoch)))
    BY <1>1, <1>2, <1>3, MergeIs
  <2>3. Honest(u, log, Resets)
    BY <1>1, <1>2, <1>3, MergeHonest
  <2> HIDE DEF u
  <2>4. Higher(r.epoch, l.epoch) => l.epoch[1] <= r.epoch[1]
    BY <1>4 DEF Higher
  <2>5. ledger[Ctl].epoch[1] <= u.epoch[1] /\ l.epoch[1] <= u.epoch[1]
    BY <1>2, <1>4, <2>2, <2>4
  <2> QED BY <1>1, <1>2, <2>1, <2>2, <2>3, <2>5 DEF Rising
<1>6. CASE n \notin reconciled
  <2> DEFINE u == Reconciled(l, r, n)
  <2>1. Absorb(l, answers[n], n) = u
    BY <1>6 DEF Absorb, r
  <2>2. IsLedger(u) /\ Ctl \in DOMAIN u.origins /\ u.epoch[2] = Ctl /\ u.epoch[1] > l.epoch[1]
    BY <1>1, <1>2, ReconciledIs
  <2>3. Resets \subseteq Version
        /\ \A e \in Resets : e[2] = Ctl => e[1] <= ledger[Ctl].epoch[1]
    BY <1>3 DEF IInv, HistoryOK, SpentType, Foreseen, Resets
  <2>4. \A e \in Resets : e[1] \in Nat
    BY <2>3, VersionOrder
  <2>5. \A e \in Resets : e[2] = Ctl => e[1] <= l.epoch[1]
    BY <1>2, <1>4, <2>3, <2>4
  <2>6. Honest(u, log, Resets)
    BY <1>1, <1>2, <2>3, <2>5, ReconciledHonest
  <2> HIDE DEF u
  <2>7. u.epoch[1] \in Nat
    BY <2>2, LedgerParts, VersionOrder
  <2>8. ledger[Ctl].epoch[1] <= u.epoch[1] /\ l.epoch[1] <= u.epoch[1]
    BY <1>2, <1>4, <2>2, <2>7
  <2> QED BY <2>1, <2>2, <2>6, <2>8 DEF Rising
<1> QED BY <1>5, <1>6

LEMMA AbsorbingRises ==
  ASSUME IInv
  PROVE  \A i \in 0..Len(PeerOrder) : Rising(Absorbing[i])
<1> DEFINE N == Len(PeerOrder)
           P == {i \in 0..N : Rising(Absorbing[i])}
<1>0. N \in Nat
  BY UsageAssumption
<1>1. 0 \in P
  <2>1. Absorbing[0] = ledger[Ctl] /\ 0 \in 0..N
    BY <1>0, AbsorbingIs
  <2>2. /\ Good(ledger[Ctl], log, Resets, ledger, spent.rewound) /\ Ctl \in DOMAIN ledger[Ctl].origins
    BY Ids DEF IInv, LedgersOK
  <2>3. ledger[Ctl].epoch[1] \in Nat
    BY <2>2, LedgerParts, VersionOrder DEF Good
  <2>4. Rising(ledger[Ctl])
    BY <2>2, <2>3 DEF Rising, Good
  <2> QED BY <2>1, <2>4
<1>2. ASSUME NEW i \in 1..N, i - 1 \in P PROVE i \in P
  <2>1. i \in 0..N /\ i # 0 /\ Rising(Absorbing[i - 1])
    BY <1>0, <1>2
  <2> DEFINE n == PeerOrder[i]
  <2>2. Absorbing[i] = IF n \in DOMAIN answers THEN Absorb(Absorbing[i - 1], answers[n], n)
                       ELSE Absorbing[i - 1]
    BY <2>1, AbsorbingIs
  <2> HIDE DEF n
  <2>3. Rising(Absorbing[i])
    BY <2>1, <2>2, AbsorbRises
  <2> QED BY <2>1, <2>3
<1>3. \A i \in 0..N : i \in P
  <2> HIDE DEF P
  <2> QED BY <1>0, <1>1, <1>2, Upto
<1> QED BY <1>3

\* The last one is the highest: what the controller's disk may be left with after a round
\* in which a save raised is under no higher an epoch than its ledger.
LEMMA AbsorbedRises ==
  ASSUME IInv
  PROVE  /\ Rising(Absorbed)
         /\ \A i \in 0..Len(PeerOrder) : Rising(Absorbing[i]) /\ Absorbing[i].epoch[1] <= Absorbed.epoch[1]
<1> DEFINE N == Len(PeerOrder)
<1>0. N \in Nat
  BY UsageAssumption
<1>1. \A i \in 0..N : Rising(Absorbing[i]) /\ Absorbing[i].epoch[1] \in Nat
  <2>1. \A i \in 0..N : Rising(Absorbing[i])
    BY AbsorbingRises
  <2>2. \A l : Rising(l) => l.epoch[1] \in Nat
    BY LedgerParts, VersionOrder DEF Rising
  <2> QED BY <2>1, <2>2
<1>2. ASSUME NEW i \in 1..N PROVE Absorbing[i - 1].epoch[1] <= Absorbing[i].epoch[1]
  <2>1. i \in 0..N /\ i # 0 /\ i - 1 \in 0..N /\ Rising(Absorbing[i - 1]) /\ Absorbing[i - 1].epoch[1] \in Nat
    BY <1>0, <1>1
  <2> DEFINE n == PeerOrder[i]
  <2>2. Absorbing[i] = IF n \in DOMAIN answers THEN Absorb(Absorbing[i - 1], answers[n], n)
                       ELSE Absorbing[i - 1]
    BY <2>1, AbsorbingIs
  <2> HIDE DEF n
  <2> QED BY <2>1, <2>2, AbsorbRises
<1>3. ASSUME NEW k \in 0..N PROVE Absorbing[k].epoch[1] <= Absorbing[N].epoch[1]
  <2> DEFINE P == {i \in 0..N : i >= k => Absorbing[k].epoch[1] <= Absorbing[i].epoch[1]}
  <2>1. 0 \in P
    <3>1. 0 >= k => k = 0
      OBVIOUS
    <3> QED BY <1>0, <1>1, <3>1
  <2>2. ASSUME NEW i \in 1..N, i - 1 \in P PROVE i \in P
    <3>1. i \in 0..N /\ i - 1 \in 0..N /\ i \in Nat /\ k \in Nat /\ k \in 0..N
      BY <1>0
    <3>2. /\ Absorbing[i].epoch[1] \in Nat /\ Absorbing[i - 1].epoch[1] \in Nat /\ Absorbing[k].epoch[1] \in Nat
          /\ Absorbing[i - 1].epoch[1] <= Absorbing[i].epoch[1]
      BY <1>1, <1>2, <3>1
    <3>3. i >= k => i = k \/ i - 1 >= k
      BY <3>1
    <3>4. i - 1 >= k => Absorbing[k].epoch[1] <= Absorbing[i - 1].epoch[1]
      BY <2>2
    <3>5. i >= k => Absorbing[k].epoch[1] <= Absorbing[i].epoch[1]
      BY <3>2, <3>3, <3>4
    <3> QED BY <3>1, <3>5
  <2>3. \A i \in 0..N : i \in P
    <3> HIDE DEF P
    <3> QED BY <1>0, <2>1, <2>2, Upto
  <2>4. N \in P /\ N >= k
    BY <1>0, <2>3
  <2> QED BY <2>4
<1> QED BY <1>0, <1>1, <1>3 DEF Absorbed

(***************************************************************************)
(* What a step may do to the copies it does not touch.                     *)
(***************************************************************************)

Stays ==
  /\ \A c : Good(c, log, Resets, ledger, spent.rewound) => Good(c, log', Resets', ledger', spent'.rewound)
  /\ \A e \in Version : Foreseen(e, ledger, spent.rewound) => Foreseen(e, ledger', spent'.rewound)

\* Only resets and restarts tell on the epochs: the other steps count their events.
Tallies ==
  /\ spent' \in SpentType /\ Resets' = Resets
  /\ spent'.rewound = spent.rewound /\ spent'.lost = spent.lost

LEMMA RebuiltType ==
  ASSUME NEW l, IsLedger(l)
  PROVE  Rebuilt(l) \in [Models -> SUBSET Requests]
<1>1. \A o \in DOMAIN l.origins, m \in Models : l.origins[o].total[m] \subseteq Requests
  BY LedgerParts, ComponentParts
<1>2. \A m \in Models : Counted(l, m) \subseteq Requests
  BY <1>1 DEF Counted
<1> QED BY <1>2 DEF Rebuilt

LEMMA StaysWhenRising ==
  ASSUME IInv, spent.rewound => spent'.rewound,
         spent'.rewound \/ \A n \in Nodes : IsLedger(ledger'[n]) /\ ledger[n].epoch[1] <= ledger'[n].epoch[1],
         \A c : Good(c, log, Resets, ledger, spent.rewound) => Honest(c, log', Resets')
  PROVE  Stays
<1>1. ASSUME NEW e \in Version, Foreseen(e, ledger, spent.rewound), ~spent'.rewound, e[2] \in Nodes
      PROVE  e[1] <= ledger'[e[2]].epoch[1]
  <2> DEFINE n == e[2]
  <2>1. /\ e[1] \in Nat /\ ledger[n].epoch[1] \in Nat /\ ledger'[n].epoch[1] \in Nat
    <3>1. IsLedger(ledger[n]) /\ IsLedger(ledger'[n])
      BY <1>1 DEF IInv, LedgersOK, Good
    <3> QED BY <3>1, LedgerParts, VersionOrder
  <2>2. e[1] <= ledger[n].epoch[1] /\ ledger[n].epoch[1] <= ledger'[n].epoch[1]
    BY <1>1 DEF Foreseen
  <2> HIDE DEF n
  <2>3. e[1] <= ledger'[n].epoch[1]
    BY <2>1, <2>2
  <2> QED BY <2>3 DEF n
<1>2. \A e \in Version : Foreseen(e, ledger, spent.rewound) => Foreseen(e, ledger', spent'.rewound)
  BY <1>1 DEF Foreseen
<1>3. \A c : IsLedger(c) => c.epoch \in Version
  BY LedgerParts
<1> QED BY <1>2, <1>3 DEF Stays, Good

\* Only node n's ledger changes, and its disk is left with d; the others, and the copies
\* on their way, stay good.
LEMMA OneLedgerChanges ==
  ASSUME IInv, NEW n \in Nodes, NEW l, NEW d,
         \A k \in Nodes : ledger'[k] = IF k = n THEN l ELSE ledger[k],
         \A k \in Nodes : disk'[k] = IF k = n THEN d ELSE disk[k],
         \A k \in Nodes : k # n => totals'[k] = totals[k],
         \A k \in Nodes, m \in Models : k # n /\ <<k, m>> \in stale => <<k, m>> \in stale',
         ShowsRight(n, l, totals'[n], stale'),
         IsLedger(l), n \in DOMAIN l.origins, IsLedger(d), n \in DOMAIN d.origins,
         Honest(l, log', Resets'), Honest(d, log', Resets'),
         spent.rewound => spent'.rewound,
         spent'.rewound \/ ledger[n].epoch[1] <= l.epoch[1],
         l.epoch[2] # n => Foreseen(l.epoch, ledger, spent.rewound),
         Foreseen(d.epoch, ledger, spent.rewound) \/ (d.epoch[2] = n /\ d.epoch[1] <= l.epoch[1]),
         \A c : Good(c, log, Resets, ledger, spent.rewound) => Honest(c, log', Resets')
  PROVE  Stays /\ LedgersOK' /\ Good(l, log', Resets', ledger', spent'.rewound)
<1>1. \A k \in Nodes : IsLedger(ledger[k]) /\ ledger[k].epoch[1] \in Nat
  BY LedgerParts, VersionOrder DEF IInv, LedgersOK, Good
<1>2. spent'.rewound \/ \A k \in Nodes : IsLedger(ledger'[k]) /\ ledger[k].epoch[1] <= ledger'[k].epoch[1]
  BY <1>1
<1>3. Stays
  BY <1>2, StaysWhenRising
<1>4. l.epoch[1] \in Nat /\ l.epoch \in Version /\ d.epoch \in Version
  BY LedgerParts, VersionOrder
<1>5. Foreseen(l.epoch, ledger', spent'.rewound)
  <2>1. CASE l.epoch[2] = n
    BY <1>4, <2>1 DEF Foreseen
  <2>2. CASE l.epoch[2] # n
    BY <1>3, <1>4, <2>2 DEF Stays
  <2> QED BY <2>1, <2>2
<1>d. Foreseen(d.epoch, ledger', spent'.rewound)
  <2>1. CASE d.epoch[2] = n /\ d.epoch[1] <= l.epoch[1]
    BY <2>1 DEF Foreseen
  <2>2. CASE Foreseen(d.epoch, ledger, spent.rewound)
    BY <1>3, <1>4, <2>2 DEF Stays
  <2> QED BY <2>1, <2>2
<1>6. Good(l, log', Resets', ledger', spent'.rewound) /\ Good(d, log', Resets', ledger', spent'.rewound)
  BY <1>5, <1>d DEF Good
<1>7. ASSUME NEW k \in Nodes
      PROVE  /\ Good(ledger'[k], log', Resets', ledger', spent'.rewound) /\ k \in DOMAIN ledger'[k].origins
             /\ Good(disk'[k], log', Resets', ledger', spent'.rewound) /\ k \in DOMAIN disk'[k].origins
             /\ ShowsRight(k, ledger'[k], totals'[k], stale')
  <2>1. CASE k = n
    BY <1>6, <2>1
  <2>2. CASE k # n
    <3>1. /\ ledger'[k] = ledger[k] /\ disk'[k] = disk[k] /\ totals'[k] = totals[k]
          /\ \A m \in Models : <<k, m>> \in stale => <<k, m>> \in stale'
      BY <2>2
    <3>2. ShowsRight(k, ledger'[k], totals'[k], stale')
      BY <3>1 DEF IInv, LedgersOK, ShowsRight
    <3> QED BY <1>3, <3>1, <3>2 DEF IInv, LedgersOK, Stays
  <2> QED BY <2>1, <2>2
<1>8. LedgersOK'
  BY <1>7 DEF LedgersOK
<1> QED BY <1>3, <1>6, <1>8

\* What a node rebuilds from a ledger is what the ledger counts.
LEMMA RebuiltShows ==
  ASSUME NEW n, NEW l, NEW old
  PROVE  ShowsRight(n, l, Rebuilt(l), old)
BY DEF ShowsRight, Rebuilt

\* A save that leaves node n's disk with d.
SavedAs(n, d) == DOMAIN disk' = Nodes /\ \A k \in Nodes : disk'[k] = IF k = n THEN d ELSE disk[k]

\* The same, when the node keeps a merged or reconciled ledger (_rebuild_synced_token_usage,
\* only when something changed), whatever ledger the save left on its disk.
LEMMA KeepStep ==
  ASSUME IInv, NEW n \in Nodes, NEW l, Keep(n, l),
         IsLedger(l), n \in DOMAIN l.origins, Honest(l, log, Resets),
         ledger[n].epoch[1] <= l.epoch[1],
         l.epoch[2] # n => Foreseen(l.epoch, ledger, spent.rewound),
         NEW d, SavedAs(n, d),
         IsLedger(d), n \in DOMAIN d.origins, Honest(d, log, Resets),
         Foreseen(d.epoch, ledger, spent.rewound) \/ (d.epoch[2] = n /\ d.epoch[1] <= l.epoch[1]),
         log' = log, Tallies
  PROVE  /\ Stays /\ LedgersOK' /\ Good(l, log', Resets', ledger', spent'.rewound)
         /\ DOMAIN ledger' = Nodes /\ DOMAIN disk' = Nodes
         /\ totals' \in [Nodes -> [Models -> SUBSET Requests]]
         /\ stale' \subseteq Nodes \X Models
<1>1. /\ DOMAIN ledger = Nodes /\ DOMAIN disk = Nodes
      /\ totals \in [Nodes -> [Models -> SUBSET Requests]] /\ stale \subseteq Nodes \X Models
      /\ ShowsRight(n, ledger[n], totals[n], stale)
  BY DEF IInv, RoundOK, LedgersOK
<1>2. \A k \in Nodes : ledger'[k] = IF k = n THEN l ELSE ledger[k]
  BY <1>1 DEF Keep
<1>3. \A k \in Nodes : disk'[k] = IF k = n THEN d ELSE disk[k]
  BY DEF SavedAs
<1>4. \A k \in Nodes : k # n => totals'[k] = totals[k]
  BY <1>1 DEF Keep
<1>5. DOMAIN ledger' = Nodes /\ DOMAIN disk' = Nodes
  BY <1>1 DEF Keep, SavedAs
<1>6. totals' \in [Nodes -> [Models -> SUBSET Requests]] /\ stale' \subseteq Nodes \X Models
  BY <1>1, RebuiltType DEF Keep
<1>7. \A k \in Nodes, m \in Models : k # n /\ <<k, m>> \in stale => <<k, m>> \in stale'
  BY DEF Keep, Entries
<1>8. ShowsRight(n, l, totals'[n], stale')
  <2>1. CASE l = ledger[n]
    BY <1>1, <2>1 DEF Keep
  <2>2. CASE l # ledger[n]
    BY <1>1, <2>2, RebuiltShows DEF Keep
  <2> QED BY <2>1, <2>2
<1>9. Honest(l, log', Resets') /\ Honest(d, log', Resets')
  BY DEF Tallies
<1>10. \A c : Good(c, log, Resets, ledger, spent.rewound) => Honest(c, log', Resets')
  BY DEF Good, Tallies
<1>11. Stays /\ LedgersOK' /\ Good(l, log', Resets', ledger', spent'.rewound)
  BY <1>2, <1>3, <1>4, <1>7, <1>8, <1>9, <1>10, OneLedgerChanges DEF Tallies
<1> QED BY <1>5, <1>6, <1>11

\* A step that leaves the ledgers and the history alone leaves all copies good.
LEMMA NothingChanges ==
  ASSUME IInv, ledger' = ledger, disk' = disk, totals' = totals, stale' = stale,
         log' = log, Tallies
  PROVE  Stays /\ LedgersOK'
BY DEF Stays, IInv, LedgersOK, Tallies

\* A step that counts nothing, or faults only.
Faulted(s, k, b) == [s EXCEPT !.faults = k, !.torn = b]

LEMMA TalliesWhen ==
  ASSUME IInv, spent' = spent \/ \E k \in Nat, b \in BOOLEAN : spent' = Faulted(spent, k, b)
  PROVE  Tallies
<1>1. spent \in SpentType
  BY DEF IInv, HistoryOK
<1>2. ASSUME NEW k \in Nat, NEW b \in BOOLEAN
      PROVE  LET t == Faulted(spent, k, b) IN
             t \in SpentType /\ t.epochs = spent.epochs /\ t.rewound = spent.rewound /\ t.lost = spent.lost
  BY <1>1 DEF SpentType, Faulted
<1>3. /\ spent' \in SpentType /\ spent'.epochs = spent.epochs
      /\ spent'.rewound = spent.rewound /\ spent'.lost = spent.lost
  BY <1>1, <1>2
<1> QED BY <1>3 DEF Tallies, Resets

\* One fault more (the events of a step that fails).
LEMMA TalliesFault ==
  ASSUME IInv, spent' = spent \/ spent' = [spent EXCEPT !.faults = @ + 1]
  PROVE  Tallies
<1>1. spent \in SpentType /\ spent.faults + 1 \in Nat /\ spent.torn \in BOOLEAN
  BY DEF IInv, HistoryOK, SpentType
<1>2. [spent EXCEPT !.faults = @ + 1] = Faulted(spent, spent.faults + 1, spent.torn)
  BY <1>1 DEF SpentType, Faulted
<1> QED BY <1>1, <1>2, TalliesWhen

(***************************************************************************)
(* Every step keeps the inductive invariant.                               *)
(***************************************************************************)

\* A step that leaves the log and the resets alone keeps the history.
LEMMA HistoryStays ==
  ASSUME IInv, Stays, log' = log, Tallies
  PROVE  HistoryOK'
<1>1. \A e \in Resets : e \in Version /\ e[2] \in Nodes /\ Foreseen(e, ledger, spent.rewound)
  BY DEF IInv, HistoryOK, SpentType, Resets
<1>2. \A e \in Resets : e[2] \in Nodes /\ Foreseen(e, ledger', spent'.rewound)
  BY <1>1 DEF Stays
<1> QED BY <1>2 DEF IInv, HistoryOK, Tallies

LEMMA AnswersStay ==
  ASSUME IInv, Stays, answers' = answers
  PROVE  AnswersOK'
BY DEF IInv, AnswersOK, Stays

LEMMA PushesStay ==
  ASSUME IInv, Stays, snap' = snap, late' \subseteq late
  PROVE  PushesOK'
BY DEF IInv, PushesOK, Stays

LEMMA FreshGood ==
  ASSUME NEW S \in SUBSET Nodes, NEW requests, NEW resets, NEW ledgers, NEW gone
  PROVE  /\ IsLedger(Fresh(S)) /\ Honest(Fresh(S), requests, resets)
         /\ Good(Fresh(S), requests, resets, ledgers, gone)
<1>1. IsLedger(Fresh(S)) /\ Fresh(S).epoch = Never /\ DOMAIN Fresh(S).origins = S
      /\ \A o \in S : Fresh(S).origins[o] = Empty
  BY FreshIs
<1>2. Never[2] \notin Nodes
  BY Ids DEF Never
<1>3. Honest(Fresh(S), requests, resets)
  BY <1>1, EmptyTold DEF Honest
<1> QED BY <1>1, <1>2, <1>3 DEF Good, Foreseen

LEMMA StartRoundStep ==
  ASSUME IInv, StartRound
  PROVE  IInv'
<1>0. Tallies
  BY TalliesWhen DEF StartRound
<1>1. Stays /\ LedgersOK'
  BY <1>0, NothingChanges DEF StartRound
<1>2. HistoryOK'
  BY <1>0, <1>1, HistoryStays DEF StartRound
<1>3. AnswersOK' /\ PushesOK'
  BY <1>1, AnswersStay, PushesStay DEF StartRound
<1>4. RoundOK'
  BY DEF IInv, RoundOK, StartRound
<1> QED BY <1>1, <1>2, <1>3, <1>4 DEF IInv

LEMMA AnswerPullStep ==
  ASSUME IInv, NEW n \in Peers, AnswerPull(n)
  PROVE  IInv'
<1>0. Tallies
  BY TalliesWhen DEF AnswerPull
<1>1. Stays /\ LedgersOK'
  BY <1>0, NothingChanges DEF AnswerPull
<1>2. HistoryOK'
  BY <1>0, <1>1, HistoryStays DEF AnswerPull
<1>3. PushesOK'
  BY <1>1, PushesStay DEF AnswerPull
<1>4. AnswersOK'
  <2>1. n \in Nodes /\ Good(ledger[n], log, Resets, ledger, spent.rewound) /\ n \in DOMAIN ledger[n].origins
    BY Ids DEF IInv, LedgersOK
  <2>2. answers' = Put(answers, n, ledger[n])
    BY DEF AnswerPull
  <2>3. \A k \in DOMAIN answers' : \/ k = n /\ answers'[k] = ledger[n]
                                   \/ k \in DOMAIN answers /\ answers'[k] = answers[k]
    BY <2>2 DEF Put
  <2> QED BY <1>1, <2>1, <2>3 DEF IInv, AnswersOK, Stays
<1>5. RoundOK'
  BY DEF IInv, RoundOK, AnswerPull
<1> QED BY <1>1, <1>2, <1>3, <1>4, <1>5 DEF IInv

LEMMA FailPullStep ==
  ASSUME IInv, NEW n \in Peers, FailPull(n)
  PROVE  IInv'
<1>0. Tallies
  BY TalliesFault DEF FailPull
<1>1. Stays /\ LedgersOK'
  BY <1>0, NothingChanges DEF FailPull
<1>2. HistoryOK'
  BY <1>0, <1>1, HistoryStays DEF FailPull
<1>3. AnswersOK' /\ PushesOK'
  BY <1>1, AnswersStay, PushesStay DEF FailPull
<1>4. RoundOK'
  BY DEF IInv, RoundOK, FailPull
<1> QED BY <1>1, <1>2, <1>3, <1>4 DEF IInv

\* The ledger a round of merges leaves on the controller's disk: the last one saved.
LEMMA MergesSaved ==
  ASSUME IInv, NEW kept \in SUBSET Changing,
         disk' = IF kept = {} THEN disk ELSE [disk EXCEPT ![Ctl] = Absorbing[Largest(kept)]]
  PROVE  \E d : /\ SavedAs(Ctl, d)
                /\ \/ d = disk[Ctl]
                   \/ \E i \in 1..Len(PeerOrder) : i \in kept /\ d = Absorbing[i]
<1>0. DOMAIN disk = Nodes /\ Ctl \in Nodes /\ Len(PeerOrder) \in Nat
  BY Ids, UsageAssumption DEF IInv, RoundOK
<1>1. CASE kept = {}
  <2>1. SavedAs(Ctl, disk[Ctl])
    BY <1>0, <1>1 DEF SavedAs
  <2> QED BY <2>1
<1>2. CASE kept # {}
  <2>1. kept \subseteq 1..Len(PeerOrder)
    BY DEF Changing
  <2>2. Largest(kept) \in kept
    <3>1. kept \subseteq Nat /\ \A y \in kept : y <= Len(PeerOrder)
      BY <1>0, <2>1
    <3> QED BY <1>0, <1>2, <3>1, LargestIs
  <2>3. SavedAs(Ctl, Absorbing[Largest(kept)])
    BY <1>0, <1>2 DEF SavedAs
  <2> QED BY <2>1, <2>2, <2>3
<1> QED BY <1>1, <1>2

LEMMA MergePullsStep ==
  ASSUME IInv, MergePulls
  PROVE  IInv'
<1>1. /\ Keep(Ctl, Absorbed) /\ snap' = Absorbed /\ answers' = <<>>
      /\ log' = log /\ late' = late
  BY DEF MergePulls
<1>2. Rising(Absorbed)
  BY AbsorbedRises
<1>r. PICK raised \in SUBSET Changing :
        LET dropped == {PeerOrder[i] : i \in raised}
            kept == Changing \ raised IN
        /\ disk' = IF kept = {} THEN disk ELSE [disk EXCEPT ![Ctl] = Absorbing[Largest(kept)]]
        /\ asked' = DOMAIN answers \ dropped
        /\ claims' = DOMAIN answers \ (reconciled \cup dropped)
        /\ \/ raised = {} /\ spent' = spent
           \/ spent' = [spent EXCEPT !.faults = @ + 1, !.torn = @ \/ ~(dropped \subseteq reconciled)]
  BY DEF MergePulls
<1>t. Tallies
  <2> DEFINE b == spent.torn \/ ~({PeerOrder[i] : i \in raised} \subseteq reconciled)
  <2>1. spent \in SpentType /\ spent.faults + 1 \in Nat /\ b \in BOOLEAN
    BY DEF IInv, HistoryOK, SpentType
  <2>2. spent' = spent \/ spent' = [spent EXCEPT !.faults = @ + 1, !.torn = b]
    BY <1>r
  <2> HIDE DEF b
  <2>3. [spent EXCEPT !.faults = @ + 1, !.torn = b] = Faulted(spent, spent.faults + 1, b)
    BY <2>1 DEF SpentType, Faulted
  <2> QED BY <2>1, <2>2, <2>3, TalliesWhen
<1>d. PICK d : /\ SavedAs(Ctl, d)
               /\ \/ d = disk[Ctl]
                  \/ \E i \in 1..Len(PeerOrder) : d = Absorbing[i]
  <2> DEFINE kept == Changing \ raised
  <2>1. disk' = IF kept = {} THEN disk ELSE [disk EXCEPT ![Ctl] = Absorbing[Largest(kept)]]
    BY <1>r
  <2>2. kept \in SUBSET Changing
    OBVIOUS
  <2> HIDE DEF kept
  <2> QED BY <2>1, <2>2, MergesSaved
<1>e. /\ IsLedger(d) /\ Ctl \in DOMAIN d.origins /\ Honest(d, log, Resets)
      /\ Foreseen(d.epoch, ledger, spent.rewound) \/ (d.epoch[2] = Ctl /\ d.epoch[1] <= Absorbed.epoch[1])
  <2>1. CASE d = disk[Ctl]
    BY <2>1, Ids DEF IInv, LedgersOK, Good
  <2>2. ASSUME NEW i \in 1..Len(PeerOrder), d = Absorbing[i]
        PROVE  Rising(d) /\ d.epoch[1] <= Absorbed.epoch[1]
    <3>1. i \in 0..Len(PeerOrder)
      BY UsageAssumption
    <3> QED BY <2>2, <3>1, AbsorbedRises
  <2>3. CASE d # disk[Ctl]
    BY <1>d, <2>2, <2>3 DEF Rising
  <2> QED BY <2>1, <2>3
<1>3. /\ Stays /\ LedgersOK' /\ Good(Absorbed, log', Resets', ledger', spent'.rewound)
      /\ DOMAIN ledger' = Nodes /\ DOMAIN disk' = Nodes
      /\ totals' \in [Nodes -> [Models -> SUBSET Requests]] /\ stale' \subseteq Nodes \X Models
  BY <1>1, <1>2, <1>t, <1>d, <1>e, Ids, KeepStep DEF Rising
<1>4. HistoryOK'
  BY <1>1, <1>3, <1>t, HistoryStays
<1>5. AnswersOK'
  BY <1>1 DEF AnswersOK
<1>6. PushesOK'
  BY <1>1, <1>3 DEF IInv, PushesOK, Stays
<1>7. RoundOK'
  <2>1. asked' \subseteq Peers /\ claims' \subseteq Peers /\ claims' \cap Joined = {}
    BY <1>r DEF IInv, RoundOK, AnswersOK
  <2> QED BY <1>3, <2>1 DEF IInv, RoundOK, MergePulls
<1> QED BY <1>3, <1>4, <1>5, <1>6, <1>7 DEF IInv

\* A peer that takes a push in; one that is still joining keeps its own component.
LEMMA ServeKeeps ==
  ASSUME IInv, NEW n \in Peers, NEW r, NEW claimed \in BOOLEAN, Serve(n, r, claimed),
         Good(r, log, Resets, ledger, spent.rewound), claimed => n \notin Joined,
         log' = log, Tallies
  PROVE  /\ Stays /\ LedgersOK'
         /\ DOMAIN ledger' = Nodes /\ DOMAIN disk' = Nodes
         /\ totals' \in [Nodes -> [Models -> SUBSET Requests]] /\ stale' \subseteq Nodes \X Models
<1> DEFINE l == ledger[n]
           p == IF claimed THEN Preserved(n, l, r) ELSE r
           u == Merge(n, l, p)
<1>1. Keep(n, u) /\ disk' \in {Saved(n, u), disk}
  BY DEF Serve
<1>2. /\ n \in Nodes /\ IsLedger(l) /\ Honest(l, log, Resets) /\ Foreseen(l.epoch, ledger, spent.rewound)
      /\ n \in DOMAIN l.origins
  BY Ids DEF IInv, LedgersOK, Good
<1>3. IsLedger(r) /\ Honest(r, log, Resets) /\ Foreseen(r.epoch, ledger, spent.rewound)
  BY DEF Good
<1>4. IsLedger(p) /\ p.epoch = r.epoch
  BY <1>2, <1>3, PreservedIs
<1>5. Honest(u, log, Resets)
  BY <1>2, <1>3, MergeHonest, JoinHonest
<1> HIDE DEF p
<1>6. IsLedger(u) /\ n \in DOMAIN u.origins
      /\ (u.epoch = l.epoch \/ (u.epoch = p.epoch /\ Higher(p.epoch, l.epoch)))
  BY <1>2, <1>4, MergeIs
<1>7. Foreseen(u.epoch, ledger, spent.rewound)
  BY <1>2, <1>3, <1>4, <1>6
<1>8. l.epoch[1] <= u.epoch[1]
  <2>1. l.epoch \in Version /\ p.epoch \in Version
    BY <1>2, <1>4, LedgerParts
  <2>2. l.epoch[1] \in Nat /\ p.epoch[1] \in Nat
    BY <2>1, VersionOrder
  <2>3. Higher(p.epoch, l.epoch) => l.epoch[1] <= p.epoch[1]
    BY <2>2 DEF Higher
  <2> QED BY <1>6, <2>2, <2>3
<1> HIDE DEF u
<1>9. DOMAIN disk = Nodes /\ Good(disk[n], log, Resets, ledger, spent.rewound) /\ n \in DOMAIN disk[n].origins
  BY <1>2 DEF IInv, LedgersOK, RoundOK
<1>10. PICK d \in {u, disk[n]} : SavedAs(n, d)
  <2>1. CASE disk' = disk
    BY <1>9, <2>1 DEF SavedAs
  <2>2. CASE disk' = [disk EXCEPT ![n] = u]
    BY <1>9, <2>2 DEF SavedAs
  <2> QED BY <1>1, <2>1, <2>2 DEF Saved
<1>11. /\ IsLedger(d) /\ n \in DOMAIN d.origins /\ Honest(d, log, Resets)
       /\ Foreseen(d.epoch, ledger, spent.rewound)
  BY <1>5, <1>6, <1>7, <1>9 DEF Good
<1> QED BY <1>1, <1>2, <1>5, <1>6, <1>7, <1>8, <1>10, <1>11, KeepStep

LEMMA ServePushStep ==
  ASSUME IInv, NEW n \in Peers, ServePush(n)
  PROVE  IInv'
<1>0. Tallies
  BY TalliesFault DEF ServePush
<1>1. /\ Serve(n, snap, n \in claims) /\ Good(snap, log, Resets, ledger, spent.rewound)
      /\ (n \in claims) \in BOOLEAN /\ (n \in claims => n \notin Joined)
      /\ log' = log
  BY DEF ServePush, IInv, PushesOK, RoundOK
<1>2. /\ Stays /\ LedgersOK'
      /\ DOMAIN ledger' = Nodes /\ DOMAIN disk' = Nodes
      /\ totals' \in [Nodes -> [Models -> SUBSET Requests]] /\ stale' \subseteq Nodes \X Models
  BY <1>0, <1>1, ServeKeeps
<1>3. HistoryOK'
  BY <1>0, <1>1, <1>2, HistoryStays
<1>4. AnswersOK' /\ PushesOK'
  BY <1>2, AnswersStay, PushesStay DEF ServePush
<1>5. RoundOK'
  BY <1>2 DEF IInv, RoundOK, ServePush
<1> QED BY <1>2, <1>3, <1>4, <1>5 DEF IInv

LEMMA TimeoutPushStep ==
  ASSUME IInv, NEW n \in Peers, TimeoutPush(n)
  PROVE  IInv'
<1>0. Tallies
  BY TalliesFault DEF TimeoutPush
<1>1. Stays /\ LedgersOK'
  BY <1>0, NothingChanges DEF TimeoutPush
<1>2. HistoryOK'
  BY <1>0, <1>1, HistoryStays DEF TimeoutPush
<1>3. AnswersOK'
  BY <1>1, AnswersStay DEF TimeoutPush
<1>4. PushesOK'
  <2> DEFINE p == [to |-> n, ledger |-> snap, claimed |-> n \in claims]
  <2>1. late' = late \cup {p} /\ snap' = snap
    BY DEF TimeoutPush
  <2>2. Good(snap, log', Resets', ledger', spent'.rewound)
    BY <1>1 DEF IInv, PushesOK, Stays
  <2>3. p.to \in Peers /\ p.claimed \in BOOLEAN /\ p.ledger = snap /\ (p.claimed => p.to \notin Joined)
    <3>1. (n \in claims) \in BOOLEAN /\ (n \in claims => n \notin Joined)
      BY DEF IInv, RoundOK
    <3>2. ASSUME NEW b \in BOOLEAN, b => n \notin Joined
          PROVE  LET q == [to |-> n, ledger |-> snap, claimed |-> b] IN
                 q.to \in Peers /\ q.claimed \in BOOLEAN /\ q.ledger = snap /\ (q.claimed => q.to \notin Joined)
      BY <3>2
    <3> QED BY <3>1, <3>2
  <2> HIDE DEF p
  <2> QED BY <1>1, <2>1, <2>2, <2>3 DEF IInv, PushesOK, Stays
<1>5. RoundOK'
  BY DEF IInv, RoundOK, TimeoutPush
<1> QED BY <1>1, <1>2, <1>3, <1>4, <1>5 DEF IInv

LEMMA ServeLateStep ==
  ASSUME IInv, NEW p \in late, ServeLate(p)
  PROVE  IInv'
<1>0. Tallies
  BY TalliesFault DEF ServeLate
<1>1. /\ Serve(p.to, p.ledger, p.claimed) /\ Good(p.ledger, log, Resets, ledger, spent.rewound)
      /\ p.to \in Peers /\ p.claimed \in BOOLEAN /\ (p.claimed => p.to \notin Joined)
      /\ log' = log
  BY DEF ServeLate, IInv, PushesOK
<1>2. /\ Stays /\ LedgersOK'
      /\ DOMAIN ledger' = Nodes /\ DOMAIN disk' = Nodes
      /\ totals' \in [Nodes -> [Models -> SUBSET Requests]] /\ stale' \subseteq Nodes \X Models
  BY <1>0, <1>1, ServeKeeps
<1>3. HistoryOK'
  BY <1>0, <1>1, <1>2, HistoryStays
<1>4. AnswersOK' /\ PushesOK'
  BY <1>2, AnswersStay, PushesStay DEF ServeLate, round
<1>5. RoundOK'
  BY <1>2 DEF IInv, RoundOK, ServeLate, round
<1> QED BY <1>2, <1>3, <1>4, <1>5 DEF IInv

LEMMA EndRoundStep ==
  ASSUME IInv, EndRound
  PROVE  IInv'
<1>0. Tallies
  <2> DEFINE b == spent.torn \/ ~(claims \subseteq confirmed)
  <2>1. spent \in SpentType /\ spent.faults \in Nat /\ b \in BOOLEAN
    BY DEF IInv, HistoryOK, SpentType
  <2>2. spent' = [spent EXCEPT !.torn = b]
    BY DEF EndRound
  <2> HIDE DEF b
  <2>3. [spent EXCEPT !.torn = b] = Faulted(spent, spent.faults, b)
    BY <2>1 DEF SpentType, Faulted
  <2> QED BY <2>1, <2>2, <2>3, TalliesWhen
<1>1. Stays /\ LedgersOK'
  BY <1>0, NothingChanges DEF EndRound
<1>2. HistoryOK'
  BY <1>0, <1>1, HistoryStays DEF EndRound
<1>3. AnswersOK'
  BY <1>1, AnswersStay DEF EndRound
<1>4. PushesOK'
  BY <1>1, FreshGood DEF EndRound, IInv, PushesOK, Stays
<1>5. RoundOK'
  BY DEF IInv, RoundOK, EndRound
<1> QED BY <1>1, <1>2, <1>3, <1>4, <1>5 DEF IInv

(***************************************************************************)
(* Recording, resetting and erasing.                                       *)
(***************************************************************************)

\* What counting request r of model m makes of node n's ledger l: only its own
\* component, and in it only m, changes (_record_tokens).
CountsOne(k, l, n, m, r) ==
  /\ IsLedger(k) /\ k.epoch = l.epoch /\ k.models = l.models
  /\ DOMAIN k.origins = DOMAIN l.origins
  /\ \A o \in DOMAIN l.origins : o # n => k.origins[o] = l.origins[o]
  /\ \A x \in Models : x # m => /\ k.origins[n].total[x] = l.origins[n].total[x]
                                /\ k.origins[n].stamp[x] = l.origins[n].stamp[x]
  /\ k.origins[n].stamp[m] = l.models[m]
  /\ l.origins[n].stamp[m] = l.models[m] => k.origins[n].total[m] = l.origins[n].total[m] \cup {r}
  /\ l.origins[n].stamp[m] # l.models[m] => k.origins[n].total[m] = {r}

LEMMA CountingIs ==
  ASSUME NEW l, IsLedger(l), NEW n \in DOMAIN l.origins, NEW m \in Models, NEW r \in Requests
  PROVE  CountsOne(Counting(l, n, m, r), l, n, m, r)
<1> DEFINE c == l.origins[n]
           old == IF c.stamp[m] = l.models[m] THEN c ELSE [c EXCEPT !.total[m] = {}, !.hourly[m] = {}]
           c1 == [old EXCEPT !.total[m] = @ \cup {r}, !.hourly[m] = @ \cup {r},
                             !.stamp[m] = l.models[m], !.rev = @ + 1]
           f == [l.origins EXCEPT ![n] = c1]
           S == DOMAIN l.origins
<1>1. Counting(l, n, m, r) = [l EXCEPT !.origins = f]
  BY DEF Counting
<1>2. /\ l.epoch \in Version /\ l.models \in [Models -> Version] /\ S \in SUBSET Nodes
      /\ l.origins \in [S -> Component] /\ c \in Component
  BY LedgerParts
<1>3. /\ old \in Component /\ old.stamp = c.stamp
      /\ \A x \in Models : x # m => old.total[x] = c.total[x]
      /\ c.stamp[m] = l.models[m] => old.total[m] = c.total[m]
      /\ c.stamp[m] # l.models[m] => old.total[m] = {}
  <2> HIDE DEF c
  <2>1. CASE c.stamp[m] = l.models[m]
    BY <1>2, <2>1
  <2>2. CASE c.stamp[m] # l.models[m]
    <3>1. old = [c EXCEPT !.total[m] = {}, !.hourly[m] = {}]
      BY <2>2
    <3> HIDE DEF old
    <3> QED BY <1>2, <2>2, <3>1 DEF Component
  <2> QED BY <2>1, <2>2
<1> HIDE DEF old
<1>4. /\ c1 \in Component /\ c1.stamp[m] = l.models[m] /\ c1.total[m] = old.total[m] \cup {r}
      /\ \A x \in Models : x # m => c1.total[x] = old.total[x] /\ c1.stamp[x] = old.stamp[x]
  <2> DEFINE t == [old.total EXCEPT ![m] = old.total[m] \cup {r}]
             h == [old.hourly EXCEPT ![m] = old.hourly[m] \cup {r}]
             v == [old.stamp EXCEPT ![m] = l.models[m]]
             i == old.rev + 1
  <2>1. c1 = [old EXCEPT !.total = t, !.hourly = h, !.stamp = v, !.rev = i]
    OBVIOUS
  <2>2. /\ t \in [Models -> SUBSET Requests] /\ h \in [Models -> SUBSET Requests]
        /\ v \in [Models -> Version] /\ i \in Nat
    BY <1>2, <1>3, ComponentParts
  <2>3. /\ t[m] = old.total[m] \cup {r} /\ v[m] = l.models[m]
        /\ \A x \in Models : x # m => t[x] = old.total[x] /\ v[x] = old.stamp[x]
    BY <1>3, ComponentParts
  <2> HIDE DEF c1, t, h, v, i
  <2>4. c1 \in Component /\ c1.total = t /\ c1.stamp = v
    BY <1>3, <2>1, <2>2 DEF Component
  <2> QED BY <2>3, <2>4
<1> HIDE DEF c1, c
<1>5. f \in [S -> Component] /\ f[n] = c1 /\ \A o \in S : o # n => f[o] = l.origins[o]
  BY <1>2, <1>4
<1> HIDE DEF f
<1>6. Counting(l, n, m, r) = [epoch |-> l.epoch, models |-> l.models, origins |-> f]
  BY <1>1, LedgerExcept
<1>7. IsLedger(Counting(l, n, m, r))
  <2> HIDE DEF S
  <2> QED BY <1>2, <1>5, <1>6, MakeLedger
<1>8. DOMAIN f = S
  BY <1>5
<1> QED BY <1>3, <1>4, <1>5, <1>6, <1>7, <1>8 DEF c, CountsOne

\* Bumping the totals in place gives what rebuilding them would.
LEMMA CountingRebuilt ==
  ASSUME NEW l, NEW k, NEW n \in DOMAIN l.origins, NEW m \in Models, NEW r, CountsOne(k, l, n, m, r)
  PROVE  /\ Counted(k, m) = Counted(l, m) \cup {r}
         /\ \A x \in Models : x # m => Counted(k, x) = Counted(l, x)
<1>1. Counted(k, m) = Counted(l, m) \cup {r}
  <2>1. ASSUME NEW q \in Counted(k, m) PROVE q \in Counted(l, m) \cup {r}
    BY <2>1 DEF Counted, CountsOne
  <2>2. r \in Counted(k, m)
    BY DEF Counted, CountsOne
  <2>3. ASSUME NEW q \in Counted(l, m) PROVE q \in Counted(k, m)
    BY <2>3 DEF Counted, CountsOne
  <2> QED BY <2>1, <2>2, <2>3
<1>2. ASSUME NEW x \in Models, x # m PROVE Counted(k, x) = Counted(l, x)
  <2>1. /\ DOMAIN k.origins = DOMAIN l.origins /\ k.models[x] = l.models[x]
        /\ \A o \in DOMAIN l.origins : /\ k.origins[o].total[x] = l.origins[o].total[x]
                                       /\ k.origins[o].stamp[x] = l.origins[o].stamp[x]
    BY <1>2 DEF CountsOne
  <2> QED BY <2>1 DEF Counted
<1> QED BY <1>1, <1>2

LEMMA RecordStep ==
  ASSUME IInv, NEW n \in Nodes, NEW m \in Models, Record(n, m)
  PROVE  IInv'
<1> DEFINE r == Len(log) + 1
           l == Counting(ledger[n], n, m, r)
           x == [node |-> n, model |-> m, epoch |-> l.epoch, version |-> l.models[m]]
<1>1. /\ Len(log) < MaxRequests
      /\ ledger' = [ledger EXCEPT ![n] = l]
      /\ totals' = [totals EXCEPT ![n][m] = @ \cup {r}]
      /\ log' = Append(log, x)
      /\ \/ disk' = [disk EXCEPT ![n] = l] /\ spent' = spent
         \/ disk' = disk /\ spent' = [spent EXCEPT !.faults = @ + 1]
      /\ stale' = stale /\ reconciled' = reconciled /\ late' = late
      /\ phase' = phase /\ asked' = asked /\ answers' = answers /\ snap' = snap
      /\ claims' = claims /\ confirmed' = confirmed
  BY DEF Record, round
<1>2. /\ IsLedger(ledger[n]) /\ Honest(ledger[n], log, Resets) /\ n \in DOMAIN ledger[n].origins
      /\ Foreseen(ledger[n].epoch, ledger, spent.rewound)
      /\ IsLedger(disk[n]) /\ Honest(disk[n], log, Resets) /\ n \in DOMAIN disk[n].origins
      /\ Foreseen(disk[n].epoch, ledger, spent.rewound)
      /\ ShowsRight(n, ledger[n], totals[n], stale)
  BY DEF IInv, LedgersOK, Good
<1>3. /\ DOMAIN ledger = Nodes /\ DOMAIN disk = Nodes
      /\ totals \in [Nodes -> [Models -> SUBSET Requests]]
  BY DEF IInv, RoundOK
<1>4. /\ log \in Seq(RecordedRequest) /\ Len(log) \in Nat /\ Len(log) <= MaxRequests /\ MaxRequests \in Nat
      /\ Tallies /\ Resets' = Resets
  <2>1. /\ log \in Seq(RecordedRequest) /\ Len(log) <= MaxRequests
    BY DEF IInv, HistoryOK
  <2>2. Len(log) \in Nat /\ MaxRequests \in Nat
    BY <2>1, Ids
  <2>3. spent' = spent \/ spent' = [spent EXCEPT !.faults = @ + 1]
    BY <1>1
  <2>4. Tallies
    BY <2>3, TalliesFault
  <2> QED BY <2>1, <2>2, <2>4 DEF Tallies
<1>5. r \in Requests /\ r \in Nat /\ r \notin DOMAIN log
  BY <1>1, <1>4 DEF Requests
<1>6. CountsOne(l, ledger[n], n, m, r)
  BY <1>2, <1>5, CountingIs
<1> HIDE DEF l
<1>7. /\ Counted(l, m) = Counted(ledger[n], m) \cup {r}
      /\ \A y \in Models : y # m => Counted(l, y) = Counted(ledger[n], y)
  BY <1>2, <1>6, CountingRebuilt
<1>c. IsLedger(l) /\ l.epoch = ledger[n].epoch /\ l.models = ledger[n].models
      /\ DOMAIN l.origins = DOMAIN ledger[n].origins
  BY <1>6 DEF CountsOne
<1> HIDE DEF r
<1>8. /\ totals' \in [Nodes -> [Models -> SUBSET Requests]]
      /\ \A k \in Nodes : k # n => totals'[k] = totals[k]
      /\ totals'[n][m] = totals[n][m] \cup {r} /\ \A y \in Models : y # m => totals'[n][y] = totals[n][y]
  <2> DEFINE t == [totals[n] EXCEPT ![m] = totals[n][m] \cup {r}]
  <2>1. totals' = [totals EXCEPT ![n] = t]
    BY <1>1
  <2>2. totals[n] \in [Models -> SUBSET Requests]
    BY <1>3
  <2>3. /\ t \in [Models -> SUBSET Requests]
        /\ t[m] = totals[n][m] \cup {r} /\ \A y \in Models : y # m => t[y] = totals[n][y]
    BY <1>5, <2>2
  <2> HIDE DEF t
  <2> QED BY <1>3, <2>1, <2>3
<1>9. ShowsRight(n, l, totals'[n], stale')
  <2>1. stale' = stale
    BY <1>1
  <2>2. ASSUME NEW y \in Models
        PROVE  Counted(l, y) \subseteq totals'[n][y] /\ (<<n, y>> \notin stale => totals'[n][y] = Counted(l, y))
    <3>1. Counted(ledger[n], y) \subseteq totals[n][y] /\ (<<n, y>> \notin stale => totals[n][y] = Counted(ledger[n], y))
      BY <1>2 DEF ShowsRight
    <3> QED BY <1>7, <1>8, <3>1
  <2> QED BY <2>1, <2>2 DEF ShowsRight
<1>10. /\ l.epoch \in Version /\ l.models[m] \in Version
  BY <1>c, LedgerParts
<1>11. /\ x \in RecordedRequest /\ x.node = n /\ x.epoch = l.epoch /\ x.version = l.models[m]
  BY <1>10 DEF RecordedRequest
<1> HIDE DEF x
<1>12. /\ log' \in Seq(RecordedRequest) /\ Len(log') <= MaxRequests
       /\ DOMAIN log \subseteq DOMAIN log' /\ \A q \in DOMAIN log : log'[q] = log[q]
       /\ r \in DOMAIN log' /\ log'[r] = x
  BY <1>1, <1>4, <1>11 DEF r
<1>13. ASSUME NEW e, NEW o, NEW c, Told(e, o, c, log, Resets)
       PROVE  Told(e, o, c, log', Resets')
  BY <1>4, <1>12, <1>13 DEF Told
<1>14. \A c : Honest(c, log, Resets) => Honest(c, log', Resets')
  BY <1>13 DEF Honest
<1>15. Told(l.epoch, n, l.origins[n], log', Resets')
  <2> SUFFICES ASSUME NEW y \in Models, NEW q \in l.origins[n].total[y]
               PROVE  /\ q \in DOMAIN log' /\ log'[q].node = n
                      /\ log'[q].epoch \in Version /\ ~Higher(log'[q].epoch, l.epoch)
                      /\ log'[q].epoch = l.epoch => log'[q].version = l.origins[n].stamp[y]
                      /\ l.epoch \in Resets' /\ n \in Joined \cup {Ctl} => log'[q].epoch = l.epoch
    BY DEF Told
  <2>1. CASE q = r /\ y = m
    BY <1>6, <1>10, <1>11, <1>12, <2>1, VersionOrder DEF CountsOne
  <2>2. CASE ~(q = r /\ y = m)
    <3>1. /\ q \in ledger[n].origins[n].total[y]
          /\ l.origins[n].stamp[y] = ledger[n].origins[n].stamp[y]
      BY <1>6, <2>2 DEF CountsOne
    <3>2. Told(l.epoch, n, ledger[n].origins[n], log', Resets')
      BY <1>2, <1>c, <1>14 DEF Honest
    <3> QED BY <3>1, <3>2 DEF Told
  <2> QED BY <2>1, <2>2
<1>16. Honest(l, log', Resets')
  BY <1>2, <1>6, <1>14, <1>15 DEF Honest, CountsOne
<1> DEFINE d == IF disk' = disk THEN disk[n] ELSE l
<1>17. DOMAIN disk' = Nodes /\ \A k \in Nodes : disk'[k] = IF k = n THEN d ELSE disk[k]
  BY <1>1, <1>3
<1>18. /\ IsLedger(d) /\ n \in DOMAIN d.origins /\ Foreseen(d.epoch, ledger, spent.rewound)
       /\ Honest(d, log', Resets')
  BY <1>2, <1>c, <1>14, <1>16
<1> HIDE DEF d
<1>19. DOMAIN ledger' = Nodes /\ \A k \in Nodes : ledger'[k] = IF k = n THEN l ELSE ledger[k]
  BY <1>1, <1>3
<1>20. ledger[n].epoch[1] <= l.epoch[1] /\ Foreseen(l.epoch, ledger, spent.rewound)
  <2>1. l.epoch[1] \in Nat
    BY <1>10, VersionOrder
  <2> QED BY <1>2, <1>c, <2>1
<1>21. \A c : Good(c, log, Resets, ledger, spent.rewound) => Honest(c, log', Resets')
  BY <1>14 DEF Good
<1>22. Stays /\ LedgersOK'
  <2>1. \A k \in Nodes, y \in Models : k # n /\ <<k, y>> \in stale => <<k, y>> \in stale'
    BY <1>1
  <2> QED BY <1>2, <1>c, <1>4, <1>8, <1>9, <1>16, <1>17, <1>18, <1>19, <1>20, <1>21, <2>1, OneLedgerChanges DEF Tallies
<1>23. HistoryOK'
  <2>1. \A e \in Resets : e \in Version /\ e[2] \in Nodes /\ Foreseen(e, ledger, spent.rewound)
    BY DEF IInv, HistoryOK, SpentType, Resets
  <2>2. \A e \in Resets' : e[2] \in Nodes /\ Foreseen(e, ledger', spent'.rewound)
    BY <1>4, <1>22, <2>1 DEF Stays
  <2>3. spent'.rewound => spent'.lost
    BY <1>4 DEF Tallies, IInv, HistoryOK
  <2> QED BY <1>4, <1>12, <2>2, <2>3 DEF HistoryOK, Tallies
<1>24. AnswersOK' /\ PushesOK'
  BY <1>1, <1>22, AnswersStay, PushesStay
<1>25. RoundOK'
  BY <1>1, <1>8, <1>17, <1>19 DEF IInv, RoundOK
<1> QED BY <1>22, <1>23, <1>24, <1>25 DEF IInv

\* A ledger all of whose components count no more than before, under the same stamps.
LEMMA HonestWithLess ==
  ASSUME NEW l, NEW k, NEW requests, NEW resets, Honest(l, requests, resets),
         k.epoch = l.epoch, DOMAIN k.origins = DOMAIN l.origins,
         \A o \in DOMAIN l.origins, m \in Models :
           \A r \in k.origins[o].total[m] : /\ r \in l.origins[o].total[m]
                                            /\ k.origins[o].stamp[m] = l.origins[o].stamp[m]
  PROVE  Honest(k, requests, resets)
BY DEF Honest, Told

\* The events a step counts.
LEMMA SpentReset ==
  ASSUME NEW s \in SpentType, NEW e \in Version
  PROVE  LET t == [s EXCEPT !.resets = @ + 1, !.epochs = @ \cup {e}] IN
         t \in SpentType /\ t.epochs = s.epochs \cup {e} /\ t.lost = s.lost /\ t.rewound = s.rewound
<1>1. s.resets + 1 \in Nat /\ s.epochs \cup {e} \in SUBSET Version
  BY DEF SpentType
<1>2. ASSUME NEW r2 \in Nat, NEW p2 \in SUBSET Version
      PROVE  LET t == [s EXCEPT !.resets = r2, !.epochs = p2] IN
             t \in SpentType /\ t.epochs = p2 /\ t.lost = s.lost /\ t.rewound = s.rewound
  BY DEF SpentType
<1> QED BY <1>1, <1>2

LEMMA SpentErase ==
  ASSUME NEW s \in SpentType
  PROVE  LET t == [s EXCEPT !.erases = @ + 1] IN
         t \in SpentType /\ t.epochs = s.epochs /\ t.lost = s.lost /\ t.rewound = s.rewound
<1>1. s.erases + 1 \in Nat
  BY DEF SpentType
<1>2. ASSUME NEW r2 \in Nat
      PROVE  LET t == [s EXCEPT !.erases = r2] IN
             t \in SpentType /\ t.epochs = s.epochs /\ t.lost = s.lost /\ t.rewound = s.rewound
  BY DEF SpentType
<1> QED BY <1>1, <1>2

Restarted(s, k, a, c, b) == [s EXCEPT !.faults = k, !.lost = a, !.rewound = c, !.torn = b]

LEMMA SpentRestart ==
  ASSUME NEW s \in SpentType, NEW k \in Nat, NEW a \in BOOLEAN, NEW b \in BOOLEAN, NEW c \in BOOLEAN
  PROVE  /\ Restarted(s, k, a, c, b) \in SpentType
         /\ Restarted(s, k, a, c, b).epochs = s.epochs
BY DEF SpentType, Restarted

LEMMA LostIs ==
  ASSUME NEW s \in SpentType, NEW k, NEW a, NEW b, NEW c
  PROVE  Restarted(s, k, a, c, b).lost = a
BY DEF SpentType, Restarted

LEMMA RewoundIs ==
  ASSUME NEW s \in SpentType, NEW k, NEW a, NEW b, NEW c
  PROVE  Restarted(s, k, a, c, b).rewound = c
BY DEF SpentType, Restarted

LEMMA ClearedIs ==
  ASSUME NEW c \in Component
  PROVE  Cleared(c) \in Component /\ \A m \in Models : Cleared(c).total[m] = {}
<1>1. Nothing \in [Models -> SUBSET Requests] /\ \A m \in Models : Nothing[m] = {}
  BY DEF Nothing
<1>2. c.rev + 1 \in Nat
  BY ComponentParts
<1>3. ASSUME NEW i \in Nat, NEW t \in [Models -> SUBSET Requests]
      PROVE  LET k == [c EXCEPT !.total = t, !.rev = i] IN k \in Component /\ k.total = t
  BY DEF Component
<1>4. Cleared(c) = [c EXCEPT !.total = Nothing, !.rev = c.rev + 1]
  BY DEF Cleared
<1>5. Cleared(c) \in Component /\ Cleared(c).total = Nothing
  BY <1>1, <1>2, <1>3, <1>4
<1> QED BY <1>1, <1>5

LEMMA PurgedIs ==
  ASSUME NEW c \in Component, NEW m \in Models
  PROVE  /\ Purged(c, m) \in Component /\ Purged(c, m).total[m] = {}
         /\ Purged(c, m).stamp = c.stamp
         /\ \A x \in Models : x # m => Purged(c, m).total[x] = c.total[x]
<1> DEFINE tt == [c.total EXCEPT ![m] = {}]
           hh == [c.hourly EXCEPT ![m] = {}]
           ii == c.rev + 1
<1>1. /\ tt \in [Models -> SUBSET Requests] /\ hh \in [Models -> SUBSET Requests] /\ ii \in Nat
      /\ tt[m] = {} /\ \A x \in Models : x # m => tt[x] = c.total[x]
  <2>1. c.total \in [Models -> SUBSET Requests] /\ c.hourly \in [Models -> SUBSET Requests] /\ c.rev \in Nat
    BY ComponentParts
  <2> QED BY <2>1
<1>2. Purged(c, m) = [c EXCEPT !.total = tt, !.hourly = hh, !.rev = ii]
  BY DEF Purged
<1> HIDE DEF tt, hh, ii
<1>3. Purged(c, m) \in Component /\ Purged(c, m).total = tt /\ Purged(c, m).stamp = c.stamp
  BY <1>1, <1>2 DEF Component
<1> QED BY <1>1, <1>3

\* A reset hands out an epoch no copy has: no later reset or merge mistakes it.
LEMMA ResetStep ==
  ASSUME IInv, NEW n \in Nodes, Reset(n)
  PROVE  IInv'
<1> DEFINE epoch == <<ledger[n].epoch[1] + 1, n>>
           S == DOMAIN ledger[n].origins
           f == [o \in S |-> Cleared(ledger[n].origins[o])]
           l == [ledger[n] EXCEPT !.epoch = epoch, !.origins = f]
<1>1. /\ ledger' = [ledger EXCEPT ![n] = l]
      /\ spent' = [spent EXCEPT !.resets = @ + 1, !.epochs = @ \cup {epoch}]
      /\ \/ /\ disk' = [disk EXCEPT ![n] = l] /\ totals' = [totals EXCEPT ![n] = Nothing]
            /\ stale' = stale \ Entries(n)
         \/ disk' = disk /\ totals' = totals /\ stale' = stale \cup Entries(n)
      /\ reconciled' = reconciled /\ late' = late /\ log' = log
      /\ phase' = phase /\ asked' = asked /\ answers' = answers /\ snap' = snap
      /\ claims' = claims /\ confirmed' = confirmed
  BY DEF Reset, round
<1>2. /\ IsLedger(ledger[n]) /\ n \in S /\ n \in Nat
      /\ Good(disk[n], log, Resets, ledger, spent.rewound) /\ n \in DOMAIN disk[n].origins
  BY Ids DEF IInv, LedgersOK, Good
<1>3. /\ ledger[n].epoch[1] \in Nat /\ epoch \in Version
      /\ ledger[n].models \in [Models -> Version] /\ S \in SUBSET Nodes
      /\ \A o \in S : ledger[n].origins[o] \in Component
  <2>1. ledger[n].epoch[1] \in Nat
    BY <1>2, LedgerParts, VersionOrder
  <2> QED BY <1>2, <2>1, LedgerParts DEF Version
<1>4. Nothing \in [Models -> SUBSET Requests]
  BY DEF Nothing
<1>5. \A o \in S : f[o] \in Component /\ \A m \in Models : f[o].total[m] = {}
  BY <1>3, ClearedIs
<1>6. f \in [S -> Component] /\ DOMAIN f = S
  BY <1>5
<1>7. l = [epoch |-> epoch, models |-> ledger[n].models, origins |-> f]
  <2>1. ledger[n] = [epoch |-> ledger[n].epoch, models |-> ledger[n].models, origins |-> ledger[n].origins]
    BY <1>2 DEF IsLedger
  <2> HIDE DEF f, epoch
  <2>2. ledger[n] \in [epoch : {epoch, ledger[n].epoch}, models : {ledger[n].models},
                       origins : {f, ledger[n].origins}]
    BY <2>1
  <2>3. /\ l \in [epoch : {epoch, ledger[n].epoch}, models : {ledger[n].models},
                  origins : {f, ledger[n].origins}]
        /\ l.epoch = epoch /\ l.models = ledger[n].models /\ l.origins = f
    BY <2>2
  <2> HIDE DEF l
  <2> QED BY <2>3
<1> HIDE DEF l, f
<1>8. IsLedger(l)
  BY <1>3, <1>6, <1>7, MakeLedger
<1>9. \A m \in Models : Counted(l, m) = {}
  BY <1>5, <1>6, <1>7 DEF Counted
<1>10. Honest(l, log', Resets')
  BY <1>5, <1>6, <1>7 DEF Honest, Told
<1>11. /\ spent' \in SpentType /\ spent'.rewound = spent.rewound /\ spent'.lost = spent.lost
       /\ Resets' = IF spent.rewound THEN {} ELSE Resets \cup {epoch}
  <2> HIDE DEF epoch
  <2>1. spent \in SpentType /\ spent.rewound \in BOOLEAN
    BY DEF IInv, HistoryOK, SpentType
  <2>2. /\ spent' \in SpentType /\ spent'.epochs = spent.epochs \cup {epoch}
        /\ spent'.rewound = spent.rewound /\ spent'.lost = spent.lost
    BY <1>1, <1>3, <2>1, SpentReset
  <2> QED BY <2>2 DEF Resets
<1>12. ASSUME NEW c, Good(c, log, Resets, ledger, spent.rewound) PROVE Honest(c, log', Resets')
  <2>1. IsLedger(c) /\ Honest(c, log, Resets) /\ Foreseen(c.epoch, ledger, spent.rewound)
    BY <1>12 DEF Good
  <2>0. CASE spent.rewound
    BY <1>1, <1>11, <2>0, <2>1 DEF Honest, Told, Resets
  <2>2. CASE ~spent.rewound /\ c.epoch = epoch
    <3>1. epoch[2] = n /\ epoch[1] = ledger[n].epoch[1] + 1
      OBVIOUS
    <3>2. epoch[1] <= ledger[n].epoch[1]
      BY <2>1, <2>2, <3>1 DEF Foreseen
    <3> QED BY <1>3, <3>1, <3>2
  <2> HIDE DEF epoch
  <2>3. CASE ~spent.rewound /\ c.epoch # epoch
    BY <1>1, <1>11, <2>1, <2>3 DEF Honest, Told
  <2> QED BY <2>0, <2>2, <2>3
<1>13. /\ DOMAIN ledger = Nodes /\ DOMAIN disk = Nodes
       /\ totals \in [Nodes -> [Models -> SUBSET Requests]] /\ stale \subseteq Nodes \X Models
  BY DEF IInv, RoundOK
<1> DEFINE d == IF disk' = disk THEN disk[n] ELSE l
<1>14. /\ DOMAIN ledger' = Nodes /\ DOMAIN disk' = Nodes
       /\ totals' \in [Nodes -> [Models -> SUBSET Requests]] /\ stale' \subseteq Nodes \X Models
       /\ \A k \in Nodes : ledger'[k] = IF k = n THEN l ELSE ledger[k]
       /\ \A k \in Nodes : disk'[k] = IF k = n THEN d ELSE disk[k]
       /\ \A k \in Nodes : k # n => totals'[k] = totals[k]
       /\ \A k \in Nodes, m \in Models : k # n /\ <<k, m>> \in stale => <<k, m>> \in stale'
       /\ ShowsRight(n, l, totals'[n], stale')
  <2>1. CASE /\ disk' = [disk EXCEPT ![n] = l] /\ totals' = [totals EXCEPT ![n] = Nothing]
             /\ stale' = stale \ Entries(n)
    <3>1. totals'[n] = Nothing
      BY <1>13, <2>1
    <3>2. ShowsRight(n, l, totals'[n], stale')
      BY <1>9, <3>1 DEF ShowsRight, Nothing
    <3> QED BY <1>1, <1>4, <1>13, <2>1, <3>2 DEF Entries
  <2>2. CASE disk' = disk /\ totals' = totals /\ stale' = stale \cup Entries(n)
    <3>1. \A m \in Models : <<n, m>> \in stale'
      BY <2>2 DEF Entries
    <3>2. ShowsRight(n, l, totals'[n], stale')
      BY <1>9, <3>1 DEF ShowsRight
    <3> QED BY <1>1, <1>13, <2>2, <3>2 DEF Entries
  <2> QED BY <1>1, <2>1, <2>2
<1>15. l.epoch = epoch /\ l.epoch[1] = ledger[n].epoch[1] + 1 /\ l.epoch[2] = n
  BY <1>7
<1>16. ledger[n].epoch[1] <= l.epoch[1]
  BY <1>3, <1>15
<1>17. n \in DOMAIN l.origins
  BY <1>2, <1>6, <1>7
<1>d. /\ IsLedger(d) /\ n \in DOMAIN d.origins /\ Honest(d, log', Resets')
      /\ Foreseen(d.epoch, ledger, spent.rewound) \/ (d.epoch[2] = n /\ d.epoch[1] <= l.epoch[1])
  <2>1. CASE d = disk[n]
    BY <1>2, <1>12, <2>1 DEF Good
  <2>2. CASE d = l
    <3>1. l.epoch[1] \in Nat
      BY <1>3, <1>15
    <3> QED BY <1>8, <1>10, <1>15, <1>17, <2>2, <3>1
  <2> QED BY <2>1, <2>2
<1> HIDE DEF d
<1>18. Stays /\ LedgersOK'
  <2>1. \A c : Good(c, log, Resets, ledger, spent.rewound) => Honest(c, log', Resets')
    BY <1>12
  <2> QED BY <1>8, <1>10, <1>11, <2>1, <1>14, <1>15, <1>16, <1>17, <1>d, OneLedgerChanges
<1>19. HistoryOK'
  <2>1. \A e \in Resets : e \in Version /\ e[2] \in Nodes /\ Foreseen(e, ledger, spent.rewound)
    BY DEF IInv, HistoryOK, SpentType, Resets
  <2>2. l.epoch[2] \in Nodes /\ Foreseen(l.epoch, ledger', spent'.rewound)
    BY <1>3, <1>14, <1>15 DEF Foreseen
  <2> HIDE DEF epoch
  <2>3. \A e \in Resets' : e[2] \in Nodes /\ Foreseen(e, ledger', spent'.rewound)
    BY <1>11, <1>15, <1>18, <2>1, <2>2 DEF Stays
  <2>4. log' \in Seq(RecordedRequest) /\ Len(log') <= MaxRequests /\ (spent'.rewound => spent'.lost)
    BY <1>1, <1>11 DEF IInv, HistoryOK
  <2> QED BY <1>11, <2>3, <2>4 DEF HistoryOK
<1>20. AnswersOK' /\ PushesOK'
  BY <1>1, <1>18, AnswersStay, PushesStay
<1>21. RoundOK'
  BY <1>1, <1>14 DEF IInv, RoundOK
<1> QED BY <1>18, <1>19, <1>20, <1>21 DEF IInv

LEMMA EraseStep ==
  ASSUME IInv, NEW n \in Nodes, NEW m \in Models, Erase(n, m)
  PROVE  IInv'
<1> DEFINE v == [ledger[n].models EXCEPT ![m] = <<@[1] + 1, n>>]
           S == DOMAIN ledger[n].origins
           f == [o \in S |-> Purged(ledger[n].origins[o], m)]
           l == [ledger[n] EXCEPT !.models = v, !.origins = f]
<1>1. /\ ledger' = [ledger EXCEPT ![n] = l]
      /\ \/ /\ disk' = [disk EXCEPT ![n] = l] /\ totals' = [totals EXCEPT ![n][m] = {}]
            /\ stale' = stale \ {<<n, m>>}
         \/ disk' = disk /\ totals' = totals /\ stale' = stale \cup {<<n, m>>}
      /\ spent' = [spent EXCEPT !.erases = @ + 1]
      /\ reconciled' = reconciled /\ late' = late /\ log' = log
      /\ phase' = phase /\ asked' = asked /\ answers' = answers /\ snap' = snap
      /\ claims' = claims /\ confirmed' = confirmed
  BY DEF Erase, round
<1>2. /\ IsLedger(ledger[n]) /\ n \in S /\ Honest(ledger[n], log, Resets)
      /\ Foreseen(ledger[n].epoch, ledger, spent.rewound) /\ ShowsRight(n, ledger[n], totals[n], stale)
      /\ IsLedger(disk[n]) /\ n \in DOMAIN disk[n].origins /\ Honest(disk[n], log, Resets)
      /\ Foreseen(disk[n].epoch, ledger, spent.rewound)
  BY DEF IInv, LedgersOK, Good
<1>3. /\ ledger[n].epoch \in Version /\ ledger[n].epoch[1] \in Nat
      /\ ledger[n].models \in [Models -> Version] /\ S \in SUBSET Nodes
      /\ \A o \in S : ledger[n].origins[o] \in Component
  BY <1>2, LedgerParts, VersionOrder
<1>4. v \in [Models -> Version] /\ \A x \in Models : x # m => v[x] = ledger[n].models[x]
  <2>1. ledger[n].models[m][1] \in Nat
    BY <1>3, VersionOrder
  <2>2. <<ledger[n].models[m][1] + 1, n>> \in Version
    BY <2>1 DEF Version
  <2> QED BY <1>3, <2>2
<1>5. ASSUME NEW o \in S
      PROVE  /\ f[o] \in Component /\ f[o].total[m] = {} /\ f[o].stamp = ledger[n].origins[o].stamp
             /\ \A x \in Models : x # m => f[o].total[x] = ledger[n].origins[o].total[x]
  BY <1>3, PurgedIs
<1>6. f \in [S -> Component] /\ DOMAIN f = S
  BY <1>5
<1> HIDE DEF v, f
<1>7. l = [epoch |-> ledger[n].epoch, models |-> v, origins |-> f]
  BY <1>2, LedgerExcept
<1> HIDE DEF l
<1>8. IsLedger(l) /\ n \in DOMAIN l.origins /\ l.epoch = ledger[n].epoch
  BY <1>2, <1>3, <1>4, <1>6, <1>7, MakeLedger
<1>9. Counted(l, m) = {} /\ \A x \in Models : x # m => Counted(l, x) = Counted(ledger[n], x)
  <2>1. Counted(l, m) = {}
    BY <1>5, <1>6, <1>7 DEF Counted
  <2>2. ASSUME NEW x \in Models, x # m PROVE Counted(l, x) = Counted(ledger[n], x)
    <3>1. /\ DOMAIN l.origins = S /\ l.models[x] = ledger[n].models[x]
          /\ \A o \in S : /\ l.origins[o].total[x] = ledger[n].origins[o].total[x]
                          /\ l.origins[o].stamp[x] = ledger[n].origins[o].stamp[x]
      BY <1>4, <1>5, <1>6, <1>7, <2>2
    <3> QED BY <3>1 DEF Counted
  <2> QED BY <2>1, <2>2
<1>11. Tallies /\ Resets' = Resets
  <2>1. spent \in SpentType /\ Never \in Version
    BY VersionOrder DEF IInv, HistoryOK
  <2>2. /\ spent' \in SpentType /\ spent'.epochs = spent.epochs
        /\ spent'.lost = spent.lost /\ spent'.rewound = spent.rewound
    BY <1>1, <2>1, SpentErase
  <2> QED BY <2>2 DEF Tallies, Resets
<1>12. Honest(l, log', Resets')
  <2>1. \A o \in S, x \in Models : \A r \in l.origins[o].total[x] :
          /\ r \in ledger[n].origins[o].total[x]
          /\ l.origins[o].stamp[x] = ledger[n].origins[o].stamp[x]
    BY <1>5, <1>7
  <2>2. Honest(l, log, Resets)
    BY <1>2, <1>6, <1>7, <1>8, <2>1, HonestWithLess
  <2> QED BY <1>1, <1>11, <2>2
<1>13. /\ DOMAIN ledger = Nodes /\ DOMAIN disk = Nodes
       /\ totals \in [Nodes -> [Models -> SUBSET Requests]] /\ stale \subseteq Nodes \X Models
  BY DEF IInv, RoundOK
<1>14. /\ totals' \in [Nodes -> [Models -> SUBSET Requests]] /\ stale' \subseteq Nodes \X Models
       /\ \A k \in Nodes : k # n => totals'[k] = totals[k]
       /\ \A k \in Nodes, x \in Models : k # n /\ <<k, x>> \in stale => <<k, x>> \in stale'
       /\ ShowsRight(n, l, totals'[n], stale')
  <2>0. \A x \in Models : /\ Counted(ledger[n], x) \subseteq totals[n][x]
                          /\ <<n, x>> \notin stale => totals[n][x] = Counted(ledger[n], x)
    BY <1>2 DEF ShowsRight
  <2>1. CASE totals' = [totals EXCEPT ![n][m] = {}] /\ stale' = stale \ {<<n, m>>}
    <3> DEFINE t == [totals[n] EXCEPT ![m] = {}]
    <3>1. totals' = [totals EXCEPT ![n] = t]
      BY <2>1
    <3>2. t \in [Models -> SUBSET Requests] /\ t[m] = {} /\ \A x \in Models : x # m => t[x] = totals[n][x]
      BY <1>13
    <3> HIDE DEF t
    <3>3. totals' \in [Nodes -> [Models -> SUBSET Requests]] /\ totals'[n] = t
          /\ \A k \in Nodes : k # n => totals'[k] = totals[k]
      BY <1>13, <3>1, <3>2
    <3>4. \A x \in Models : Counted(l, x) \subseteq t[x] /\ (<<n, x>> \notin stale' => t[x] = Counted(l, x))
      BY <1>9, <2>0, <2>1, <3>2
    <3> QED BY <1>13, <2>1, <3>3, <3>4 DEF ShowsRight
  <2>2. CASE totals' = totals /\ stale' = stale \cup {<<n, m>>}
    <3>1. \A x \in Models : Counted(l, x) \subseteq totals'[n][x] /\ (<<n, x>> \notin stale' => totals'[n][x] = Counted(l, x))
      BY <1>9, <2>0, <2>2
    <3> QED BY <1>13, <2>2, <3>1 DEF ShowsRight
  <2> QED BY <1>1, <2>1, <2>2
<1> DEFINE d == IF disk' = disk THEN disk[n] ELSE l
<1>15. /\ DOMAIN ledger' = Nodes /\ DOMAIN disk' = Nodes
       /\ \A k \in Nodes : ledger'[k] = IF k = n THEN l ELSE ledger[k]
       /\ \A k \in Nodes : disk'[k] = IF k = n THEN d ELSE disk[k]
  BY <1>1, <1>13
<1>16. ledger[n].epoch[1] <= l.epoch[1] /\ Foreseen(l.epoch, ledger, spent.rewound)
  BY <1>2, <1>3, <1>8
<1>17. \A c : Good(c, log, Resets, ledger, spent.rewound) => Honest(c, log', Resets')
  BY <1>1, <1>11 DEF Good
<1>d. /\ IsLedger(d) /\ n \in DOMAIN d.origins /\ Honest(d, log', Resets')
      /\ Foreseen(d.epoch, ledger, spent.rewound)
  BY <1>1, <1>2, <1>8, <1>11, <1>12
<1> HIDE DEF d
<1>18. Stays /\ LedgersOK'
  BY <1>8, <1>11, <1>12, <1>14, <1>15, <1>16, <1>17, <1>d, OneLedgerChanges DEF Tallies
<1>19. HistoryOK'
  BY <1>1, <1>11, <1>18, HistoryStays
<1>20. AnswersOK' /\ PushesOK'
  BY <1>1, <1>18, AnswersStay, PushesStay
<1>21. RoundOK'
  BY <1>1, <1>14, <1>15 DEF IInv, RoundOK
<1> QED BY <1>18, <1>19, <1>20, <1>21 DEF IInv

LEMMA RestartStep ==
  ASSUME IInv, NEW n \in Nodes, Restart(n)
  PROVE  IInv'
<1> DEFINE l == disk[n]
<1>1. /\ ledger' = [ledger EXCEPT ![n] = l]
      /\ totals' = [totals EXCEPT ![n] = Rebuilt(l)] /\ stale' = stale \ Entries(n)
      /\ disk' = disk /\ reconciled' = reconciled /\ late' = late /\ log' = log
      /\ \/ /\ phase' = "idle" /\ asked' = {} /\ answers' = <<>> /\ snap' = Fresh({})
            /\ claims' = {} /\ confirmed' = {}
         \/ /\ phase' = phase /\ asked' = asked /\ answers' = answers /\ snap' = snap
            /\ claims' = claims /\ confirmed' = confirmed
  BY DEF Restart, round
<1>2. /\ IsLedger(l) /\ n \in DOMAIN l.origins /\ Honest(l, log, Resets)
      /\ Foreseen(l.epoch, ledger, spent.rewound)
  BY DEF IInv, LedgersOK, Good
<1>3. l.epoch[1] \in Nat
  BY <1>2, LedgerParts, VersionOrder
<1>4. /\ spent' \in SpentType /\ Resets' \in {Resets, {}}
      /\ (spent.rewound => spent'.rewound) /\ (disk[n].epoch # ledger[n].epoch => spent'.rewound)
      /\ (spent'.rewound => spent'.lost)
  <2> DEFINE a == spent.lost \/ disk[n] # ledger[n]
             b == spent.torn \/ (n = Ctl /\ claims # {})
             c == spent.rewound \/ disk[n].epoch # ledger[n].epoch
  <2>1. spent' = [spent EXCEPT !.faults = @ + 1, !.lost = a, !.rewound = c, !.torn = b]
    BY DEF Restart
  <2>2. /\ a \in BOOLEAN /\ b \in BOOLEAN /\ c \in BOOLEAN /\ spent \in SpentType /\ Never \in Version
        /\ spent.rewound \in BOOLEAN /\ spent.lost \in BOOLEAN
    BY VersionOrder DEF IInv, HistoryOK, SpentType
  <2>3. c => a
    BY DEF IInv, HistoryOK
  <2>4. spent.rewound => c
    OBVIOUS
  <2> HIDE DEF a, b, c
  <2>5. spent' \in SpentType /\ spent'.epochs = spent.epochs /\ spent'.lost = a /\ spent'.rewound = c
    <3>1. spent \in SpentType /\ a \in BOOLEAN /\ b \in BOOLEAN /\ c \in BOOLEAN
      BY <2>2
    <3>2. spent' = Restarted(spent, spent.faults + 1, a, c, b)
      BY <2>1 DEF Restarted
    <3>3. spent.faults + 1 \in Nat
      BY <3>1 DEF SpentType
    <3> DEFINE k == spent.faults + 1
    <3>4. k \in Nat /\ spent' = Restarted(spent, k, a, c, b)
      BY <3>2, <3>3
    <3> HIDE DEF k
    <3>5. spent' \in SpentType /\ spent'.epochs = spent.epochs
      BY <3>1, <3>4, SpentRestart
    <3>6. spent'.lost = a
      BY <3>1, <3>4, LostIs
    <3>7. spent'.rewound = c
      BY <3>1, <3>4, RewoundIs
    <3> QED BY <3>5, <3>6, <3>7
  <2>6. Resets' \in {Resets, {}}
    BY <2>2, <2>4, <2>5 DEF Resets
  <2> QED BY <2>3, <2>5, <2>6 DEF c
<1>5. /\ DOMAIN ledger = Nodes /\ DOMAIN disk = Nodes
      /\ totals \in [Nodes -> [Models -> SUBSET Requests]] /\ stale \subseteq Nodes \X Models
  BY DEF IInv, RoundOK
<1>6. /\ DOMAIN ledger' = Nodes /\ DOMAIN disk' = Nodes
      /\ totals' \in [Nodes -> [Models -> SUBSET Requests]] /\ stale' \subseteq Nodes \X Models
      /\ \A k \in Nodes : ledger'[k] = IF k = n THEN l ELSE ledger[k]
      /\ \A k \in Nodes : disk'[k] = IF k = n THEN l ELSE disk[k]
      /\ \A k \in Nodes : k # n => totals'[k] = totals[k]
      /\ totals'[n] = Rebuilt(l)
      /\ \A k \in Nodes, m \in Models : k # n /\ <<k, m>> \in stale => <<k, m>> \in stale'
  BY <1>1, <1>2, <1>5, RebuiltType DEF Entries
<1>s. ShowsRight(n, l, totals'[n], stale')
  BY <1>6, RebuiltShows
<1>9. (spent.rewound => spent'.rewound) /\ (spent'.rewound \/ ledger[n].epoch[1] <= l.epoch[1])
  BY <1>3, <1>4
<1> HIDE DEF l
<1>h. \A c : Honest(c, log, Resets) => Honest(c, log', Resets')
  <2>1. \A c : Honest(c, log, Resets) => Honest(c, log, {})
    BY DEF Honest, Told
  <2> QED BY <1>1, <1>4, <2>1
<1>7. Honest(l, log', Resets')
  BY <1>2, <1>h
<1>8. \A c : Good(c, log, Resets, ledger, spent.rewound) => Honest(c, log', Resets')
  BY <1>h DEF Good
<1>10. Stays /\ LedgersOK'
  BY <1>2, <1>6, <1>7, <1>8, <1>9, <1>s, OneLedgerChanges
<1>11. HistoryOK'
  <2>1. \A e \in Resets : e \in Version /\ e[2] \in Nodes /\ Foreseen(e, ledger, spent.rewound)
    BY DEF IInv, HistoryOK, SpentType, Resets
  <2>2. \A e \in Resets' : e[2] \in Nodes /\ Foreseen(e, ledger', spent'.rewound)
    BY <1>4, <1>10, <2>1 DEF Stays
  <2>3. log' \in Seq(RecordedRequest) /\ Len(log') <= MaxRequests
    BY <1>1 DEF IInv, HistoryOK
  <2> QED BY <1>4, <2>2, <2>3 DEF HistoryOK
<1>12. AnswersOK' /\ PushesOK' /\ RoundOK'
  <2>1. CASE /\ phase' = "idle" /\ asked' = {} /\ answers' = <<>> /\ snap' = Fresh({})
             /\ claims' = {} /\ confirmed' = {}
    <3>1. AnswersOK'
      BY <2>1 DEF AnswersOK
    <3>2. PushesOK'
      BY <1>1, <1>10, <2>1, FreshGood DEF IInv, PushesOK, Stays
    <3>3. RoundOK'
      BY <1>1, <1>6, <2>1 DEF IInv, RoundOK
    <3> QED BY <3>1, <3>2, <3>3
  <2>2. CASE /\ phase' = phase /\ asked' = asked /\ answers' = answers /\ snap' = snap
             /\ claims' = claims /\ confirmed' = confirmed
    <3>1. AnswersOK' /\ PushesOK'
      BY <1>1, <1>10, <2>2, AnswersStay, PushesStay
    <3>2. RoundOK'
      BY <1>1, <1>6, <2>2 DEF IInv, RoundOK
    <3> QED BY <3>1, <3>2
  <2> QED BY <1>1, <2>1, <2>2
<1> QED BY <1>10, <1>11, <1>12 DEF IInv

(***************************************************************************)
(* The theorems.                                                           *)
(***************************************************************************)

LEMMA InitOK ==
  ASSUME Init
  PROVE  IInv
<1>1. /\ ledger = [n \in Nodes |-> Fresh(Members(n))] /\ disk = ledger
      /\ totals = [n \in Nodes |-> Nothing] /\ stale = {} /\ reconciled = Joined
      /\ phase = "idle" /\ asked = {} /\ answers = <<>> /\ snap = Fresh({})
      /\ claims = {} /\ confirmed = {} /\ late = {} /\ log = <<>>
      /\ spent = [resets |-> 0, erases |-> 0, faults |-> 0, epochs |-> {},
                  lost |-> FALSE, rewound |-> FALSE, torn |-> FALSE]
  BY DEF Init
<1>2. Nothing \in [Models -> SUBSET Requests]
  BY DEF Nothing
<1>3. LedgersOK
  <2> SUFFICES ASSUME NEW n \in Nodes
               PROVE  /\ Good(ledger[n], log, Resets, ledger, spent.rewound) /\ n \in DOMAIN ledger[n].origins
                      /\ ShowsRight(n, ledger[n], totals[n], stale)
    BY <1>1 DEF LedgersOK
  <2>1. Members(n) \in SUBSET Nodes /\ n \in Members(n)
    BY Ids DEF Members
  <2>2. ledger[n] = Fresh(Members(n)) /\ totals[n] = Nothing
    BY <1>1
  <2>3. Good(ledger[n], log, Resets, ledger, spent.rewound)
    BY <2>1, <2>2, FreshGood
  <2>4. DOMAIN ledger[n].origins = Members(n) /\ \A o \in Members(n) : ledger[n].origins[o] = Empty
    BY <2>1, <2>2, FreshIs
  <2>5. \A m \in Models : Counted(ledger[n], m) = {}
    BY <2>4, EmptyIs DEF Counted
  <2>6. ShowsRight(n, ledger[n], totals[n], stale)
    BY <2>2, <2>5 DEF ShowsRight, Nothing
  <2> QED BY <2>1, <2>2, <2>3, <2>4, <2>6
<1>4. AnswersOK
  BY <1>1 DEF AnswersOK
<1>5. PushesOK
  BY <1>1, FreshGood DEF PushesOK
<1>6. HistoryOK
  <2>1. log \in Seq(RecordedRequest) /\ Len(log) <= MaxRequests
    BY <1>1, Ids
  <2>2. spent \in SpentType /\ Resets = {} /\ ~spent.rewound
    BY <1>1 DEF SpentType, Resets
  <2> QED BY <2>1, <2>2 DEF HistoryOK
<1>7. RoundOK
  BY <1>1, <1>2, Ids DEF RoundOK
<1> QED BY <1>3, <1>4, <1>5, <1>6, <1>7 DEF IInv

LEMMA StepOK ==
  ASSUME IInv, [Next]_vars
  PROVE  IInv'
<1>1. CASE UNCHANGED vars
  <2>1. /\ ledger' = ledger /\ disk' = disk /\ totals' = totals /\ stale' = stale /\ reconciled' = reconciled
        /\ phase' = phase /\ asked' = asked /\ answers' = answers /\ snap' = snap
        /\ claims' = claims /\ confirmed' = confirmed /\ late' = late /\ log' = log /\ spent' = spent
    BY <1>1 DEF vars
  <2>t. Tallies
    BY <2>1, TalliesWhen
  <2>2. Stays /\ LedgersOK'
    BY <2>1, <2>t, NothingChanges
  <2>3. HistoryOK'
    BY <2>1, <2>2, <2>t, HistoryStays
  <2>4. AnswersOK' /\ PushesOK'
    BY <2>1, <2>2, AnswersStay, PushesStay
  <2>5. RoundOK'
    BY <2>1 DEF IInv, RoundOK
  <2> QED BY <2>2, <2>3, <2>4, <2>5 DEF IInv
<1>2. ASSUME NEW n \in Nodes, NEW m \in Models, Record(n, m) \/ Erase(n, m) PROVE IInv'
  BY <1>2, RecordStep, EraseStep
<1>3. ASSUME NEW n \in Nodes, Reset(n) \/ Restart(n) PROVE IInv'
  BY <1>3, ResetStep, RestartStep
<1>4. CASE StartRound \/ MergePulls \/ EndRound
  BY <1>4, StartRoundStep, MergePullsStep, EndRoundStep
<1>5. ASSUME NEW n \in Peers, AnswerPull(n) \/ FailPull(n) PROVE IInv'
  BY <1>5, AnswerPullStep, FailPullStep
<1>6. ASSUME NEW n \in Peers, ServePush(n) \/ TimeoutPush(n) PROVE IInv'
  BY <1>6, ServePushStep, TimeoutPushStep
<1>7. ASSUME NEW p \in late, ServeLate(p) PROVE IInv'
  BY <1>7, ServeLateStep
<1> QED BY <1>1, <1>2, <1>3, <1>4, <1>5, <1>6, <1>7 DEF Next

\* The inductive invariant holds: every copy of a ledger, wherever it is, is honest, and no
\* epoch is handed out twice (reset_token_stats, reconcile_token_usage_sync).
THEOREM InductiveInvariant == Spec => []IInv
<1>1. Init => IInv
  BY InitOK
<1>2. IInv /\ [Next]_vars => IInv'
  BY StepOK
<1> QED BY <1>1, <1>2, PTL DEF Spec

\* The types of the invariant are those of the run.
LEMMA Typed ==
  ASSUME IInv
  PROVE  TypeOK
<1>1. /\ DOMAIN ledger = Nodes /\ DOMAIN disk = Nodes
      /\ totals \in [Nodes -> [Models -> SUBSET Requests]] /\ stale \subseteq Nodes \X Models
      /\ reconciled \subseteq Peers
      /\ phase \in {"idle", "pull", "push"}
      /\ asked \subseteq Peers /\ claims \subseteq Peers /\ confirmed \subseteq Peers
  BY DEF IInv, RoundOK
<1>2. \A n \in Nodes : IsLedger(ledger[n]) /\ IsLedger(disk[n]) /\ n \in DOMAIN ledger[n].origins
  BY DEF IInv, LedgersOK, Good
<1>3. \A n \in DOMAIN answers : n \in Peers /\ IsLedger(answers[n])
  BY DEF IInv, AnswersOK, Good
<1>4. IsLedger(snap) /\ \A p \in late : p.to \in Peers /\ IsLedger(p.ledger) /\ p.claimed \in BOOLEAN
  BY DEF IInv, PushesOK, Good
<1>5. log \in Seq([node : Nodes, model : Models, epoch : Version, version : Version])
  BY DEF IInv, HistoryOK, RecordedRequest
<1> QED BY <1>1, <1>2, <1>3, <1>4, <1>5 DEF TypeOK

\* The variables have their types, and the totals a node shows - bumped in place by
\* _record_tokens, cleared by resets and erases - are those its ledger gives when rebuilt
\* (_rebuild_synced_token_usage); after a reset or an erase cut short by a save that raised
\* they count more, never less.  For every number of nodes, models, requests and faults.
THEOREM TotalsFollowTheLedger == Spec => []TotalsMatchLedger
<1>1. IInv => TotalsMatchLedger
  BY Typed DEF IInv, LedgersOK, ShowsRight, TotalsMatchLedger
<1> QED BY <1>1, InductiveInvariant, PTL

\* A node that has adopted a reset or an erase never counts again what it forgot, however
\* late a copy of it arrives (merge_token_usage_sync, the versions and epochs) and whichever
\* saves raise; only a restart can take an epoch back, when the save of it had raised.
THEOREM NothingForgottenReturns == Spec => []ForgottenStaysForgotten
<1>1. ASSUME IInv PROVE ForgottenStaysForgotten
  <2> SUFFICES ASSUME NEW n \in Nodes, NEW m \in Models, <<n, m>> \notin stale, NEW r \in totals[n][m]
               PROVE  /\ log[r].epoch = ledger[n].epoch => log[r].version = ledger[n].models[m]
                      /\ ~spent.rewound /\ ledger[n].epoch \in spent.epochs /\ log[r].node \in Joined \cup {Ctl}
                           => log[r].epoch = ledger[n].epoch
    BY DEF ForgottenStaysForgotten
  <2>1. Honest(ledger[n], log, Resets) /\ ShowsRight(n, ledger[n], totals[n], stale)
    BY <1>1 DEF IInv, LedgersOK, Good
  <2>2. r \in Counted(ledger[n], m)
    BY <2>1 DEF ShowsRight
  <2>3. PICK o \in DOMAIN ledger[n].origins :
          /\ ledger[n].origins[o].stamp[m] = ledger[n].models[m]
          /\ r \in ledger[n].origins[o].total[m]
    BY <2>2 DEF Counted
  <2>4. Told(ledger[n].epoch, o, ledger[n].origins[o], log, Resets)
    BY <2>1 DEF Honest
  <2> QED BY <2>3, <2>4 DEF Told, Resets
<1> QED BY <1>1, InductiveInvariant, PTL

(***************************************************************************)
(* Revisions.  Merging keeps of each component the copy with the higher    *)
(* revision; no node loses what it served as long as no copy overtakes the *)
(* node's own component - or only by the erase of another model.           *)
(***************************************************************************)

\* Ledger j has nothing newer of origin n than ledger k does.  What counts as newer
\* depends on the mode: "plain", a higher revision; "equal", also another component with
\* the same revision; "erased" allows j one revision more, the erase of model m that
\* gave it version v, which k does not know yet.
Trails(mode, m, v, n, k, j) ==
  n \in DOMAIN j.origins =>
    /\ n \in DOMAIN k.origins
    /\ \/ j.origins[n].rev < k.origins[n].rev
       \/ mode = "plain" /\ j.origins[n].rev = k.origins[n].rev
       \/ mode = "equal" /\ j.origins[n] = k.origins[n]
       \/ mode = "erased" /\ j.origins[n].rev = k.origins[n].rev
       \/ /\ mode = "erased" /\ j.origins[n].rev = k.origins[n].rev + 1
          /\ j.models[m] = v /\ Higher(v, k.models[m])
          /\ \A x \in Models \ {m} : /\ j.origins[n].total[x] = k.origins[n].total[x]
                                     /\ j.origins[n].stamp[x] = k.origins[n].stamp[x]

\* Among the ledgers of S, those of node n's epoch trail its own ledger; those of an epoch
\* the node has not come to yet trail each other.
AllTrail(mode, m, v, n, own, S) ==
  \A k, j \in S :
    k.epoch = j.epoch /\ (k = own \/ Higher(k.epoch, own.epoch)) => Trails(mode, m, v, n, k, j)

\* Within an epoch only an erase tells the versions of the models apart.
SameVersions(mode, m, v, S) ==
  \A k, j \in S : k.epoch = j.epoch =>
    /\ mode = "equal" => \A x \in Models : k.models[x] = j.models[x]
    /\ mode = "erased" /\ k.models[m] = v => ~Higher(j.models[m], v)

\* Who knows the erase has the component it left.
Carried(mode, m, v, n, own, S) ==
  mode = "erased" =>
    \A k, j \in S :
      /\ k.epoch = own.epoch /\ j.epoch = own.epoch /\ k.models[m] = v
      /\ n \in DOMAIN j.origins /\ j.origins[n].rev > own.origins[n].rev
      => n \in DOMAIN k.origins /\ k.origins[n].rev > own.origins[n].rev

Mode(mode, m, v) == mode = "erased" => m \in Models /\ v \in Version

Line(mode, m, v, n, own, S) ==
  /\ AllTrail(mode, m, v, n, own, S) /\ SameVersions(mode, m, v, S) /\ Carried(mode, m, v, n, own, S)

Ledgers(S) == \A k \in S : IsLedger(k)

\* What ledgers hold: revisions are numbers; epochs and erases are versions, compared as the
\* code compares them (_usage_version_key).
LEMMA RevisionsAre ==
  ASSUME NEW S, Ledgers(S), NEW m, NEW v, NEW mode, Mode(mode, m, v)
  PROVE  /\ \A k \in S : \A n \in DOMAIN k.origins : k.origins[n].rev \in Nat
         /\ \A k \in S : k.epoch \in Version
         /\ \A k \in S : \A x \in Models : k.models[x] \in Version
         /\ mode = "erased" => m \in Models /\ v \in Version
BY LedgerParts, ComponentParts DEF Ledgers, Mode

\* Fewer ledgers trail no worse.
LEMMA FewerTrail ==
  ASSUME NEW mode, NEW m, NEW v, NEW n, NEW own, NEW S, NEW T, T \subseteq S, Line(mode, m, v, n, own, S)
  PROVE  Line(mode, m, v, n, own, T)
<1>1. AllTrail(mode, m, v, n, own, T)
  BY DEF Line, AllTrail
<1>2. SameVersions(mode, m, v, T)
  BY DEF Line, SameVersions
<1>3. Carried(mode, m, v, n, own, T)
  BY DEF Line, Carried
<1> QED BY <1>1, <1>2, <1>3 DEF Line

\* Ledger u holds of origin n what ledger r does.
Alike(n, u, r) ==
  /\ u.epoch = r.epoch /\ \A x \in Models : u.models[x] = r.models[x]
  /\ n \in DOMAIN u.origins <=> n \in DOMAIN r.origins
  /\ n \in DOMAIN u.origins => u.origins[n] = r.origins[n]

\* Ledger u holds of origin n the newer of what l and r do.
Joins(n, u, l, r) ==
  /\ u.epoch = l.epoch /\ r.epoch = l.epoch
  /\ \A x \in Models : u.models[x] = Later(l.models[x], r.models[x])
  /\ n \in DOMAIN u.origins <=> n \in DOMAIN l.origins \/ n \in DOMAIN r.origins
  /\ n \in DOMAIN u.origins =>
       IF n \in DOMAIN r.origins /\ Newer(l, n, r.origins[n])
       THEN u.origins[n] = r.origins[n] ELSE n \in DOMAIN l.origins /\ u.origins[n] = l.origins[n]

\* Trailing looks at the origin and the models' versions only.
LEMMA TrailsAlike ==
  ASSUME NEW mode, NEW m, NEW v, NEW n, Mode(mode, m, v),
         NEW k, NEW j, NEW k2, NEW j2, Alike(n, k2, k), Alike(n, j2, j), Trails(mode, m, v, n, k, j)
  PROVE  Trails(mode, m, v, n, k2, j2)
BY DEF Trails, Alike, Mode

\* No ledger holds anything newer than itself.
LEMMA TrailsItself ==
  ASSUME NEW mode \in {"plain", "equal", "erased"}, NEW m, NEW v, NEW n, NEW k
  PROVE  Trails(mode, m, v, n, k, k)
BY DEF Trails

Modes == {"plain", "equal", "erased"}

\* A copy of a ledger, or one that differs from it in other origins only, joins the rest.
LEMMA AlikeJoins ==
  ASSUME NEW mode \in Modes, NEW m, NEW v, Mode(mode, m, v), NEW n, NEW own, NEW S, Ledgers(S),
         own \in S, Line(mode, m, v, n, own, S), NEW r \in S, NEW u, IsLedger(u), Alike(n, u, r)
  PROVE  Line(mode, m, v, n, own, S \cup {u})
<1> DEFINE Of(k) == IF k \in S THEN k ELSE r
           T == S \cup {u}
<1>1. \A k \in T : Of(k) \in S /\ Alike(n, k, Of(k)) /\ (k = own => Of(k) = own)
  BY DEF Alike
<1> HIDE DEF Of
<1>2. AllTrail(mode, m, v, n, own, T)
  <2> SUFFICES ASSUME NEW k \in T, NEW j \in T, k.epoch = j.epoch, k = own \/ Higher(k.epoch, own.epoch)
               PROVE  Trails(mode, m, v, n, k, j)
    BY DEF AllTrail
  <2>1. Of(k).epoch = Of(j).epoch /\ (Of(k) = own \/ Higher(Of(k).epoch, own.epoch))
    BY <1>1 DEF Alike
  <2>2. Trails(mode, m, v, n, Of(k), Of(j))
    BY <1>1, <2>1 DEF Line, AllTrail
  <2> QED BY <1>1, <2>2, TrailsAlike
<1>3. SameVersions(mode, m, v, T)
  <2> SUFFICES ASSUME NEW k \in T, NEW j \in T, k.epoch = j.epoch
               PROVE  /\ mode = "equal" => \A x \in Models : k.models[x] = j.models[x]
                      /\ mode = "erased" /\ k.models[m] = v => ~Higher(j.models[m], v)
    BY DEF SameVersions
  <2>1. Of(k).epoch = Of(j).epoch /\ \A x \in Models : Of(k).models[x] = k.models[x] /\ Of(j).models[x] = j.models[x]
    BY <1>1 DEF Alike
  <2>2. /\ mode = "equal" => \A x \in Models : Of(k).models[x] = Of(j).models[x]
        /\ mode = "erased" /\ Of(k).models[m] = v => ~Higher(Of(j).models[m], v)
    BY <1>1, <2>1 DEF Line, SameVersions
  <2> QED BY <2>1, <2>2 DEF Mode
<1>4. Carried(mode, m, v, n, own, T)
  <2> SUFFICES ASSUME mode = "erased", NEW k \in T, NEW j \in T,
                      k.epoch = own.epoch, j.epoch = own.epoch, k.models[m] = v,
                      n \in DOMAIN j.origins, j.origins[n].rev > own.origins[n].rev
               PROVE  n \in DOMAIN k.origins /\ k.origins[n].rev > own.origins[n].rev
    BY DEF Carried
  <2>1. /\ Of(k).epoch = own.epoch /\ Of(j).epoch = own.epoch /\ Of(k).models[m] = v
        /\ n \in DOMAIN Of(j).origins /\ Of(j).origins[n].rev > own.origins[n].rev
    BY <1>1 DEF Alike, Mode
  <2>2. n \in DOMAIN Of(k).origins /\ Of(k).origins[n].rev > own.origins[n].rev
    BY <1>1, <2>1 DEF Line, Carried
  <2> QED BY <1>1, <2>2 DEF Alike
<1> QED BY <1>2, <1>3, <1>4 DEF Line

\* Neither version is above v: the later one is not, and is v only if one of them is.
LEMMA LaterIs ==
  ASSUME NEW a \in Version, NEW b \in Version, NEW v \in Version
  PROVE  /\ Later(a, a) = a
         /\ ~Higher(a, v) /\ ~Higher(b, v) => ~Higher(Later(a, b), v)
         /\ Higher(v, a) /\ Higher(v, b) => Higher(v, Later(a, b))
         /\ Later(a, b) = v => a = v \/ b = v
         /\ a = v /\ ~Higher(b, v) => Later(a, b) = v
         /\ b = v /\ ~Higher(a, v) => Later(a, b) = v
         /\ Later(a, b) = a \/ (Later(a, b) = b /\ Higher(b, a))
         /\ Higher(v, a) \/ Higher(a, v) \/ v = a
         /\ ~Higher(v, v)
<1>1. Higher(a, b) \/ Higher(b, a) \/ a = b
  BY VersionOrder
<1>2. ~Higher(a, a) /\ ~Higher(v, v) /\ (Higher(a, b) => ~Higher(b, a)) /\ (Higher(b, a) => ~Higher(a, b))
  BY VersionOrder
<1>3. Higher(v, a) \/ Higher(a, v) \/ v = a
  BY VersionOrder
<1> QED BY <1>1, <1>2, <1>3 DEF Later

\* What trails both ledgers' newer copies ...
LEMMA TrailsJoined ==
  ASSUME NEW mode \in Modes, NEW m, NEW v, Mode(mode, m, v), NEW n,
         NEW k, NEW l, IsLedger(l), NEW r, IsLedger(r), NEW u, Joins(n, u, l, r),
         Trails(mode, m, v, n, k, l), Trails(mode, m, v, n, k, r), SameVersions(mode, m, v, {l, r})
  PROVE  Trails(mode, m, v, n, k, u)
<1> SUFFICES ASSUME n \in DOMAIN u.origins PROVE Trails(mode, m, v, n, k, u)
  BY DEF Trails
<1>1. mode = "erased" => /\ m \in Models /\ v \in Version /\ l.models[m] \in Version /\ r.models[m] \in Version
                         /\ u.models[m] = Later(l.models[m], r.models[m])
  BY LedgerParts DEF Mode, Joins
<1>2. mode = "erased" /\ (l.models[m] = v \/ r.models[m] = v) => u.models[m] = v
  <2>1. ASSUME mode = "erased", l.models[m] = v \/ r.models[m] = v PROVE u.models[m] = v
    <3>1. ~Higher(l.models[m], v) /\ ~Higher(r.models[m], v)
      <4>1. l.epoch = r.epoch
        BY DEF Joins
      <4> QED BY <2>1, <4>1, <1>1, LaterIs DEF SameVersions
    <3> QED BY <1>1, <2>1, <3>1, LaterIs
  <2> QED BY <2>1
<1>3. \/ n \in DOMAIN r.origins /\ u.origins[n] = r.origins[n]
      \/ n \in DOMAIN l.origins /\ u.origins[n] = l.origins[n]
  BY DEF Joins
<1> QED BY <1>2, <1>3 DEF Trails

\* ... and what the newer copy is trailed by.
LEMMA JoinedTrails ==
  ASSUME NEW mode \in Modes, NEW m, NEW v, Mode(mode, m, v), NEW n,
         NEW j, IsLedger(j), NEW l, IsLedger(l), NEW r, IsLedger(r), NEW u, Joins(n, u, l, r),
         Trails(mode, m, v, n, l, j), Trails(mode, m, v, n, r, j)
  PROVE  Trails(mode, m, v, n, u, j)
<1> SUFFICES ASSUME n \in DOMAIN j.origins PROVE Trails(mode, m, v, n, u, j)
  BY DEF Trails
<1>1. n \in DOMAIN l.origins /\ n \in DOMAIN r.origins /\ n \in DOMAIN u.origins
  BY DEF Trails, Joins
<1>2. j.origins[n].rev \in Nat /\ l.origins[n].rev \in Nat /\ r.origins[n].rev \in Nat
  BY <1>1, LedgerParts, ComponentParts
<1>3. \/ u.origins[n] = r.origins[n] /\ r.origins[n].rev > l.origins[n].rev
      \/ u.origins[n] = l.origins[n] /\ ~(r.origins[n].rev > l.origins[n].rev)
  BY <1>1 DEF Joins, Newer
<1>4. mode = "erased" => /\ m \in Models /\ v \in Version /\ l.models[m] \in Version /\ r.models[m] \in Version
                         /\ u.models[m] = Later(l.models[m], r.models[m])
  BY LedgerParts DEF Mode, Joins
<1>5. mode = "erased" /\ Higher(v, l.models[m]) /\ Higher(v, r.models[m]) => Higher(v, u.models[m])
  BY <1>4, LaterIs
<1>6. CASE mode = "plain"
  BY <1>1, <1>2, <1>3, <1>6 DEF Trails
<1>7. CASE mode = "equal"
  BY <1>1, <1>2, <1>3, <1>7 DEF Trails
<1>8. CASE mode = "erased"
  BY <1>1, <1>2, <1>3, <1>5, <1>8 DEF Trails
<1> QED BY <1>6, <1>7, <1>8 DEF Modes

\* Merging two ledgers of one epoch (merge_token_usage_sync) gives each model the later version,
\* one that was there already: the versions stay told apart by the erase alone.
LEMMA JoinVersions ==
  ASSUME NEW mode \in Modes, NEW m, NEW v, Mode(mode, m, v), NEW n, NEW S, Ledgers(S),
         SameVersions(mode, m, v, S), NEW l \in S, NEW r \in S, NEW u, IsLedger(u), Joins(n, u, l, r)
  PROVE  SameVersions(mode, m, v, S \cup {u})
<1> DEFINE T == S \cup {u}
<1>1. /\ \A x \in Models : l.models[x] \in Version /\ r.models[x] \in Version
      /\ \A x \in Models : u.models[x] = Later(l.models[x], r.models[x])
      /\ u.epoch = l.epoch /\ r.epoch = l.epoch
  BY LedgerParts DEF Ledgers, Joins
<1>2. CASE mode = "equal"
  <2>1. \A x \in Models : r.models[x] = l.models[x]
    BY <1>1, <1>2 DEF SameVersions
  <2>2. \A x \in Models : u.models[x] = l.models[x]
    BY <1>1, <2>1, LaterIs
  <2>3. \A k, j \in T : k.epoch = j.epoch => \A x \in Models : k.models[x] = j.models[x]
    BY <1>1, <1>2, <2>2 DEF SameVersions
  <2> QED BY <1>2, <2>3 DEF SameVersions
<1>3. CASE mode = "erased"
  <2>0. m \in Models /\ v \in Version /\ \A j \in T : j.models[m] \in Version
    BY <1>3, LedgerParts DEF Mode, Ledgers
  <2> SUFFICES ASSUME NEW k \in T, NEW j \in T, k.epoch = j.epoch, k.models[m] = v
               PROVE  ~Higher(j.models[m], v)
    BY <1>3 DEF SameVersions
  <2>1. PICK k2 \in S : k2.epoch = k.epoch /\ k2.models[m] = v
    BY <1>1, <2>0, LaterIs
  <2>2. \A i \in S : i.epoch = k.epoch => ~Higher(i.models[m], v)
    BY <1>3, <2>1 DEF SameVersions
  <2>3. CASE j \in S
    BY <2>2, <2>3
  <2>4. CASE j = u
    <3>1. ~Higher(l.models[m], v) /\ ~Higher(r.models[m], v)
      BY <1>1, <2>2, <2>4
    <3> QED BY <1>1, <2>0, <2>4, <3>1, LaterIs
  <2> QED BY <2>3, <2>4
<1>4. CASE mode = "plain"
  BY <1>4 DEF SameVersions
<1> QED BY <1>2, <1>3, <1>4 DEF Modes

\* A node merges two ledgers of another origin's epoch.
LEMMA JoinedJoins ==
  ASSUME NEW mode \in Modes, NEW m, NEW v, Mode(mode, m, v), NEW n, NEW own, NEW S, Ledgers(S),
         own \in S, n \in DOMAIN own.origins, Line(mode, m, v, n, own, S),
         NEW l \in S, NEW r \in S, NEW u, IsLedger(u), Joins(n, u, l, r)
  PROVE  Line(mode, m, v, n, own, S \cup {u})
<1> DEFINE T == S \cup {u}
<1>1. IsLedger(l) /\ IsLedger(r) /\ u.epoch = l.epoch /\ r.epoch = l.epoch
  BY DEF Ledgers, Joins
<1>2. SameVersions(mode, m, v, T)
  BY JoinVersions DEF Line
<1>3. SameVersions(mode, m, v, {l, r})
  BY DEF Line, SameVersions
<1>4. AllTrail(mode, m, v, n, own, T)
  <2> SUFFICES ASSUME NEW k \in T, NEW j \in T, k.epoch = j.epoch, k = own \/ Higher(k.epoch, own.epoch)
               PROVE  Trails(mode, m, v, n, k, j)
    BY DEF AllTrail
  <2>1. \A a, b \in S : a.epoch = b.epoch /\ (a = own \/ Higher(a.epoch, own.epoch)) => Trails(mode, m, v, n, a, b)
    BY DEF Line, AllTrail
  <2>2. CASE k \in S /\ j \in S
    BY <2>1, <2>2
  <2>3. CASE k \in S /\ j \notin S
    <3>1. j = u /\ Trails(mode, m, v, n, k, l) /\ Trails(mode, m, v, n, k, r)
      BY <1>1, <2>1, <2>3
    <3> QED BY <1>1, <1>3, <3>1, TrailsJoined
  <2>4. CASE k \notin S /\ j \in S
    <3>1. k = u /\ Trails(mode, m, v, n, l, j) /\ Trails(mode, m, v, n, r, j)
      BY <1>1, <2>1, <2>4
    <3>2. IsLedger(j)
      BY <2>4 DEF Ledgers
    <3> QED BY <1>1, <3>1, <3>2, JoinedTrails
  <2>5. CASE k \notin S /\ j \notin S
    <3>1. k = j
      BY <2>5
    <3> QED BY <3>1, TrailsItself DEF Modes
  <2> QED BY <2>2, <2>3, <2>4, <2>5
<1>5. Carried(mode, m, v, n, own, T)
  <2> SUFFICES ASSUME mode = "erased", NEW k \in T, NEW j \in T,
                      k.epoch = own.epoch, j.epoch = own.epoch, k.models[m] = v,
                      n \in DOMAIN j.origins, j.origins[n].rev > own.origins[n].rev
               PROVE  n \in DOMAIN k.origins /\ k.origins[n].rev > own.origins[n].rev
    BY DEF Carried
  <2>0. /\ \A i \in {l, r, u, own} : \A o \in DOMAIN i.origins : i.origins[o].rev \in Nat
        /\ m \in Models /\ v \in Version /\ l.models[m] \in Version /\ r.models[m] \in Version
    BY <1>1, LedgerParts, ComponentParts DEF Ledgers, Mode
  <2>1. PICK j2 \in S : /\ j2.epoch = own.epoch /\ n \in DOMAIN j2.origins
                        /\ j2.origins[n].rev > own.origins[n].rev
    <3>1. CASE j \in S
      BY <3>1
    <3>2. CASE j = u
      BY <1>1, <3>2 DEF Joins
    <3> QED BY <3>1, <3>2
  <2>2. \A i \in S : i.epoch = own.epoch /\ i.models[m] = v
                       => n \in DOMAIN i.origins /\ i.origins[n].rev > own.origins[n].rev
    BY <2>1 DEF Line, Carried
  <2>3. CASE k \in S
    BY <2>2, <2>3
  <2>4. CASE k = u
    <3>1. l.models[m] = v \/ r.models[m] = v
      BY <2>0, <2>4, LaterIs DEF Joins
    <3>2. \/ n \in DOMAIN l.origins /\ l.origins[n].rev > own.origins[n].rev
          \/ n \in DOMAIN r.origins /\ r.origins[n].rev > own.origins[n].rev
      BY <1>1, <2>2, <2>4, <3>1
    <3> QED BY <2>0, <2>4, <3>2 DEF Joins, Newer
  <2> QED BY <2>3, <2>4
<1> QED BY <1>2, <1>4, <1>5 DEF Line

\* The ledgers of an epoch the node has not come to.
LEMMA Ahead ==
  ASSUME NEW mode \in Modes, NEW m, NEW v, Mode(mode, m, v), NEW n, NEW own, NEW S, Ledgers(S),
         own \in S, Line(mode, m, v, n, own, S), NEW k \in S, Higher(k.epoch, own.epoch) \/ k = own,
         NEW j \in S, j.epoch = k.epoch
  PROVE  Trails(mode, m, v, n, k, j)
BY DEF Line, AllTrail

\* A node whose own ledger becomes u, in a later epoch or not: the ledgers ahead of it
\* were so before.
LEMMA OwnMoves ==
  ASSUME NEW mode \in Modes, NEW m, NEW v, Mode(mode, m, v), NEW n, NEW own, NEW S, Ledgers(S),
         own \in S, Line(mode, m, v, n, own, S), NEW u, IsLedger(u),
         u.epoch = own.epoch \/ Higher(u.epoch, own.epoch),
         \A j \in S : j.epoch = u.epoch => Trails(mode, m, v, n, u, j)
  PROVE  AllTrail(mode, m, v, n, u, S \cup {u})
<1> DEFINE T == S \cup {u}
<1>0. \A k \in T : k.epoch \in Version
  BY LedgerParts DEF Ledgers
<1>1. own.epoch \in Version /\ u.epoch \in Version
  BY <1>0
<1> SUFFICES ASSUME NEW k \in T, NEW j \in T, k.epoch = j.epoch, k = u \/ Higher(k.epoch, u.epoch)
             PROVE  Trails(mode, m, v, n, k, j)
  BY DEF AllTrail
<1>2. CASE k = u
  <2>1. CASE j = u
    BY <1>2, <2>1, TrailsItself DEF Modes
  <2>2. CASE j \in S
    BY <1>2, <2>2
  <2> QED BY <2>1, <2>2
<1>3. CASE k # u
  <2>1. k \in S /\ Higher(k.epoch, u.epoch)
    BY <1>3
  <2>2. Higher(k.epoch, own.epoch)
    BY <1>0, <1>1, <2>1, VersionOrder
  <2>3. j \in S
    BY <1>0, <1>1, <2>1, VersionOrder
  <2> QED BY <2>1, <2>2, <2>3, Ahead
<1> QED BY <1>2, <1>3

\* A node merges a ledger of its own epoch: no other one is newer after than was before.
LEMMA OwnJoined ==
  ASSUME NEW mode \in Modes, NEW m, NEW v, Mode(mode, m, v), NEW n, NEW own, NEW S, Ledgers(S),
         own \in S, n \in DOMAIN own.origins, Line(mode, m, v, n, own, S),
         NEW r \in S, NEW u, IsLedger(u), Joins(n, u, own, r)
  PROVE  Line(mode, m, v, n, u, S \cup {u})
<1> DEFINE T == S \cup {u}
<1>1. /\ IsLedger(own) /\ IsLedger(r) /\ u.epoch = own.epoch /\ r.epoch = own.epoch
      /\ n \in DOMAIN u.origins
      /\ own.origins[n].rev \in Nat
      /\ \A j \in T : n \in DOMAIN j.origins => j.origins[n].rev \in Nat
  BY LedgerParts, ComponentParts DEF Ledgers, Joins
<1>2. SameVersions(mode, m, v, T)
  BY JoinVersions DEF Line
<1>3. \A j \in S : j.epoch = own.epoch => Trails(mode, m, v, n, own, j)
  BY Ahead
<1>4. \/ /\ n \in DOMAIN r.origins /\ r.origins[n].rev > own.origins[n].rev
         /\ u.origins[n] = r.origins[n]
      \/ /\ n \in DOMAIN r.origins => ~(r.origins[n].rev > own.origins[n].rev)
         /\ u.origins[n] = own.origins[n]
  BY <1>1 DEF Joins, Newer
<1>5. mode = "erased" =>
        /\ m \in Models /\ v \in Version /\ own.models[m] \in Version /\ r.models[m] \in Version
        /\ u.models[m] = Later(own.models[m], r.models[m])
  BY <1>1, LedgerParts DEF Mode, Joins
<1>6. ASSUME NEW j \in S, j.epoch = own.epoch
      PROVE  /\ Trails(mode, m, v, n, u, j)
             /\ n \in DOMAIN j.origins /\ j.origins[n].rev > u.origins[n].rev
                  => mode = "erased" /\ j.origins[n].rev > own.origins[n].rev
                     /\ u.origins[n].rev = own.origins[n].rev
  <2>1. Trails(mode, m, v, n, own, j)
    BY <1>3, <1>6
  <2> SUFFICES ASSUME n \in DOMAIN j.origins
               PROVE  /\ Trails(mode, m, v, n, u, j)
                      /\ j.origins[n].rev > u.origins[n].rev
                           => mode = "erased" /\ j.origins[n].rev > own.origins[n].rev
                              /\ u.origins[n].rev = own.origins[n].rev
    BY DEF Trails
  <2>2. j.origins[n].rev \in Nat
    BY <1>1
  <2>3. CASE /\ n \in DOMAIN r.origins /\ r.origins[n].rev > own.origins[n].rev
             /\ u.origins[n] = r.origins[n]
    <3>1. r.origins[n].rev \in Nat /\ Trails(mode, m, v, n, own, r)
      BY <1>1, <1>3, <2>3
    <3>2. mode = "erased" /\ r.origins[n].rev = own.origins[n].rev + 1
      BY <1>1, <2>3, <3>1 DEF Trails
    <3>3. j.origins[n].rev <= u.origins[n].rev
      BY <1>1, <2>1, <2>2, <2>3, <3>2 DEF Trails
    <3>4. j.origins[n].rev < u.origins[n].rev \/ j.origins[n].rev = u.origins[n].rev
      BY <2>2, <2>3, <3>1, <3>3
    <3> QED BY <1>1, <2>2, <2>3, <3>1, <3>2, <3>4 DEF Trails
  <2>4. CASE /\ n \in DOMAIN r.origins => ~(r.origins[n].rev > own.origins[n].rev)
             /\ u.origins[n] = own.origins[n]
    <3>1. CASE mode = "erased" /\ j.origins[n].rev > own.origins[n].rev
      <4>1. /\ j.origins[n].rev = own.origins[n].rev + 1
            /\ j.models[m] = v /\ Higher(v, own.models[m])
            /\ \A x \in Models \ {m} : /\ j.origins[n].total[x] = own.origins[n].total[x]
                                       /\ j.origins[n].stamp[x] = own.origins[n].stamp[x]
        BY <1>1, <2>1, <2>2, <3>1 DEF Trails
      <4>2. r.models[m] # v
        BY <1>1, <1>6, <2>4, <3>1 DEF Line, Carried
      <4>3. ~Higher(r.models[m], v)
        BY <1>1, <1>6, <3>1, <4>1 DEF Line, SameVersions
      <4>4. Higher(v, r.models[m])
        BY <1>5, <3>1, <4>2, <4>3, LaterIs
      <4>5. Higher(v, u.models[m])
        BY <1>5, <3>1, <4>1, <4>4, LaterIs
      <4> QED BY <1>1, <2>4, <3>1, <4>1, <4>5 DEF Trails
    <3>2. CASE ~(mode = "erased" /\ j.origins[n].rev > own.origins[n].rev)
      BY <1>1, <2>1, <2>2, <2>4, <3>2 DEF Trails
    <3> QED BY <3>1, <3>2
  <2> QED BY <1>4, <2>3, <2>4
<1>7. AllTrail(mode, m, v, n, u, T)
  BY <1>1, <1>6, OwnMoves
<1>8. Carried(mode, m, v, n, u, T)
  <2> SUFFICES ASSUME mode = "erased", NEW k \in T, NEW j \in T,
                      k.epoch = own.epoch, j.epoch = own.epoch, k.models[m] = v,
                      n \in DOMAIN j.origins, j.origins[n].rev > u.origins[n].rev
               PROVE  n \in DOMAIN k.origins /\ k.origins[n].rev > u.origins[n].rev
    BY <1>1 DEF Carried
  <2>1. j \in S
    BY <1>1
  <2>2. j.origins[n].rev > own.origins[n].rev /\ u.origins[n].rev = own.origins[n].rev
    BY <1>6, <2>1
  <2>3. CASE k \in S
    BY <2>1, <2>2, <2>3 DEF Line, Carried
  <2>4. CASE k = u
    <3>1. Trails(mode, m, v, n, u, j)
      BY <1>6, <2>1
    <3>2. Higher(v, v)
      BY <1>1, <2>1, <2>4, <3>1 DEF Trails
    <3> QED BY <1>5, <3>2, VersionOrder
  <2> QED BY <2>3, <2>4
<1> QED BY <1>2, <1>7, <1>8 DEF Line

\* A node adopts a ledger of a later epoch.
LEMMA OwnAdopts ==
  ASSUME NEW mode \in Modes, NEW m, NEW v, Mode(mode, m, v), NEW n, NEW own, NEW S, Ledgers(S),
         own \in S, Line(mode, m, v, n, own, S),
         NEW r \in S, Higher(r.epoch, own.epoch), NEW u, IsLedger(u),
         u.epoch = r.epoch, \A x \in Models : u.models[x] = r.models[x], n \in DOMAIN u.origins,
         n \in DOMAIN r.origins => u.origins[n] = r.origins[n]
  PROVE  Line(mode, m, v, n, u, S \cup {u})
<1> DEFINE T == S \cup {u}
<1>1. \A j \in S : j.epoch = r.epoch => Trails(mode, m, v, n, r, j)
  BY Ahead
<1>2. ASSUME NEW j \in S, j.epoch = u.epoch PROVE Trails(mode, m, v, n, u, j)
  BY <1>1, <1>2 DEF Trails, Mode
<1>3. AllTrail(mode, m, v, n, u, T)
  BY <1>2, OwnMoves
<1>4. SameVersions(mode, m, v, T)
  <2> SUFFICES ASSUME NEW k \in T, NEW j \in T, k.epoch = j.epoch
               PROVE  /\ mode = "equal" => \A x \in Models : k.models[x] = j.models[x]
                      /\ mode = "erased" /\ k.models[m] = v => ~Higher(j.models[m], v)
    BY DEF SameVersions
  <2>1. PICK k2 \in S : k2.epoch = k.epoch /\ \A x \in Models : k2.models[x] = k.models[x]
    OBVIOUS
  <2>2. PICK j2 \in S : j2.epoch = j.epoch /\ \A x \in Models : j2.models[x] = j.models[x]
    OBVIOUS
  <2>3. /\ mode = "equal" => \A x \in Models : k2.models[x] = j2.models[x]
        /\ mode = "erased" /\ k2.models[m] = v => ~Higher(j2.models[m], v)
    BY <2>1, <2>2 DEF Line, SameVersions
  <2> QED BY <2>1, <2>2, <2>3 DEF Mode
<1>5. Carried(mode, m, v, n, u, T)
  <2> SUFFICES ASSUME mode = "erased", NEW k \in T, NEW j \in T,
                      k.epoch = u.epoch, j.epoch = u.epoch, k.models[m] = v,
                      n \in DOMAIN j.origins, j.origins[n].rev > u.origins[n].rev
               PROVE  n \in DOMAIN k.origins /\ k.origins[n].rev > u.origins[n].rev
    BY DEF Carried
  <2>0. u.origins[n].rev \in Nat /\ j.origins[n].rev \in Nat /\ \A a \in Version : ~Higher(a, a)
    BY LedgerParts, ComponentParts, VersionOrder DEF Ledgers
  <2>1. j \in S /\ Trails(mode, m, v, n, u, j)
    BY <1>2, <2>0
  <2>2. v \in Version /\ j.models[m] = v
    BY <2>0, <2>1 DEF Trails, Mode
  <2>3. CASE k \in S
    <3>1. Trails(mode, m, v, n, k, j)
      BY <2>1, <2>3, Ahead
    <3>2. n \in DOMAIN k.origins /\ k.origins[n].rev \in Nat
      BY <2>3, <3>1, LedgerParts, ComponentParts DEF Trails, Ledgers
    <3> QED BY <2>0, <2>2, <3>1, <3>2 DEF Trails
  <2>4. CASE k = u
    BY <2>0, <2>1, <2>2, <2>4 DEF Trails
  <2> QED BY <2>3, <2>4
<1> QED BY <1>3, <1>4, <1>5 DEF Line

\* A ledger under an epoch just started is compared with none ...
LEMMA FreshVersions ==
  ASSUME NEW mode \in Modes, NEW m, NEW v, Mode(mode, m, v), NEW S,
         SameVersions(mode, m, v, S), NEW u, IsLedger(u), \A k \in S : k.epoch # u.epoch
  PROVE  SameVersions(mode, m, v, S \cup {u})
<1>1. mode = "erased" => v \in Version /\ ~Higher(v, v)
  BY VersionOrder DEF Mode
<1> QED BY <1>1 DEF SameVersions

\* A ledger of an epoch no other has - after a reset - has nothing to overtake.
LEMMA FreshJoins ==
  ASSUME NEW mode \in Modes, NEW m, NEW v, Mode(mode, m, v), NEW n, NEW own, NEW S, Ledgers(S),
         own \in S, Line(mode, m, v, n, own, S),
         NEW u, IsLedger(u), \A k \in S : k.epoch # u.epoch
  PROVE  Line(mode, m, v, n, own, S \cup {u})
<1> DEFINE T == S \cup {u}
<1>1. SameVersions(mode, m, v, T)
  BY FreshVersions DEF Line
<1>2. AllTrail(mode, m, v, n, own, T)
  <2> SUFFICES ASSUME NEW k \in T, NEW j \in T, k.epoch = j.epoch, k = own \/ Higher(k.epoch, own.epoch)
               PROVE  Trails(mode, m, v, n, k, j)
    BY DEF AllTrail
  <2>1. (k \in S /\ j \in S) \/ k = j
    OBVIOUS
  <2> QED BY <2>1, Ahead, TrailsItself DEF Modes
<1>3. Carried(mode, m, v, n, own, T)
  BY DEF Line, Carried
<1> QED BY <1>1, <1>2, <1>3 DEF Line

\* ... also if it is the node's own.
LEMMA OwnFresh ==
  ASSUME NEW mode \in Modes, NEW m, NEW v, Mode(mode, m, v), NEW n, NEW own, NEW S, Ledgers(S),
         own \in S, Line(mode, m, v, n, own, S),
         NEW u, IsLedger(u), \A k \in S : k.epoch # u.epoch, Higher(u.epoch, own.epoch),
         n \in DOMAIN u.origins
  PROVE  Line(mode, m, v, n, u, S \cup {u})
<1> DEFINE T == S \cup {u}
<1>1. SameVersions(mode, m, v, T)
  BY FreshVersions DEF Line
<1>2. AllTrail(mode, m, v, n, u, T)
  BY OwnMoves
<1>3. u.origins[n].rev \in Nat
  BY LedgerParts, ComponentParts
<1>4. Carried(mode, m, v, n, u, T)
  BY <1>3 DEF Carried
<1> QED BY <1>1, <1>2, <1>4 DEF Line

\* The node counts a request: its own component moves on.
LEMMA OwnRises ==
  ASSUME NEW mode \in Modes, NEW m, NEW v, Mode(mode, m, v), NEW n, NEW own, NEW S, Ledgers(S),
         own \in S, n \in DOMAIN own.origins, Line(mode, m, v, n, own, S), NEW u, IsLedger(u),
         u.epoch = own.epoch, \A x \in Models : u.models[x] = own.models[x],
         n \in DOMAIN u.origins, u.origins[n].rev = own.origins[n].rev + 1
  PROVE  Line(mode, m, v, n, u, S \cup {u})
<1> DEFINE T == S \cup {u}
<1>1. /\ IsLedger(own) /\ own.origins[n].rev \in Nat
      /\ \A j \in T : n \in DOMAIN j.origins => j.origins[n].rev \in Nat
  BY LedgerParts, ComponentParts DEF Ledgers
<1>2. ASSUME NEW j \in S, j.epoch = u.epoch
      PROVE  /\ Trails(mode, m, v, n, u, j)
             /\ n \in DOMAIN j.origins => ~(j.origins[n].rev > u.origins[n].rev)
  <2>1. Trails(mode, m, v, n, own, j)
    BY <1>2, Ahead
  <2>2. CASE n \in DOMAIN j.origins
    <3>1. j.origins[n].rev \in Nat
      BY <1>1, <2>2
    <3> QED BY <1>1, <2>1, <2>2, <3>1 DEF Trails, Modes
  <2>3. CASE n \notin DOMAIN j.origins
    BY <2>3 DEF Trails
  <2> QED BY <2>2, <2>3
<1>3. AllTrail(mode, m, v, n, u, T)
  BY <1>2, OwnMoves
<1>4. SameVersions(mode, m, v, T)
  <2> SUFFICES ASSUME NEW k \in T, NEW j \in T, k.epoch = j.epoch
               PROVE  /\ mode = "equal" => \A x \in Models : k.models[x] = j.models[x]
                      /\ mode = "erased" /\ k.models[m] = v => ~Higher(j.models[m], v)
    BY DEF SameVersions
  <2>1. PICK k2 \in S : k2.epoch = k.epoch /\ \A x \in Models : k2.models[x] = k.models[x]
    OBVIOUS
  <2>2. PICK j2 \in S : j2.epoch = j.epoch /\ \A x \in Models : j2.models[x] = j.models[x]
    OBVIOUS
  <2>3. /\ mode = "equal" => \A x \in Models : k2.models[x] = j2.models[x]
        /\ mode = "erased" /\ k2.models[m] = v => ~Higher(j2.models[m], v)
    BY <2>1, <2>2 DEF Line, SameVersions
  <2> QED BY <2>1, <2>2, <2>3 DEF Mode
<1>5. Carried(mode, m, v, n, u, T)
  BY <1>1, <1>2 DEF Carried
<1> QED BY <1>3, <1>4, <1>5 DEF Line

\* Ledger u is ledger l after an erase of model m.
Erased(u, l, m, v) ==
  /\ u.epoch = l.epoch /\ v = u.models[m] /\ Higher(v, l.models[m])
  /\ DOMAIN u.origins = DOMAIN l.origins
  /\ \A o \in DOMAIN l.origins :
       /\ u.origins[o].rev = l.origins[o].rev + 1
       /\ \A x \in Models \ {m} : /\ u.origins[o].total[x] = l.origins[o].total[x]
                                  /\ u.origins[o].stamp[x] = l.origins[o].stamp[x]

\* An erase gives the model a version above any there is in the epoch (_erase_synced_usage_model), so
\* whoever shows that version has taken the erase in.
LEMMA EraseVersions ==
  ASSUME NEW a, NEW b, NEW S, Ledgers(S), SameVersions("equal", a, b, S), NEW l \in S,
         NEW m \in Models, NEW v \in Version, NEW u, IsLedger(u), Erased(u, l, m, v)
  PROVE  /\ SameVersions("erased", m, v, S \cup {u})
         /\ \A k \in S : k.epoch = u.epoch => Higher(v, k.models[m]) /\ k.models[m] # v
<1>1. \A k \in S : k.epoch = l.epoch => k.models[m] = l.models[m]
  BY DEF SameVersions
<1>2. \A k \in S : k.models[m] \in Version
  BY LedgerParts DEF Ledgers
<1>3. ~Higher(v, v) /\ \A w \in Version : Higher(v, w) => ~Higher(w, v)
  BY VersionOrder
<1>4. ASSUME NEW k \in S, k.epoch = u.epoch PROVE Higher(v, k.models[m]) /\ k.models[m] # v
  BY <1>1, <1>3, <1>4 DEF Erased
<1>5. ASSUME NEW k \in S \cup {u}, NEW j \in S \cup {u}, k.epoch = j.epoch, k.models[m] = v
      PROVE  ~Higher(j.models[m], v)
  <2>1. CASE j = u
    BY <1>3, <2>1 DEF Erased
  <2>2. CASE j \in S /\ k = u
    BY <1>2, <1>3, <1>4, <1>5, <2>2
  <2>3. CASE j \in S /\ k \in S
    <3>1. j.models[m] = v
      BY <1>5, <2>3 DEF SameVersions
    <3> QED BY <1>3, <3>1
  <2> QED BY <2>1, <2>2, <2>3
<1> QED BY <1>4, <1>5 DEF SameVersions

\* The first erase, at another node ...
LEMMA EraseJoins ==
  ASSUME NEW a, NEW b, NEW n, NEW own, NEW S, Ledgers(S), own \in S, n \in DOMAIN own.origins,
         Line("equal", a, b, n, own, S), NEW l \in S,
         NEW m \in Models, NEW v \in Version, NEW u, IsLedger(u), Erased(u, l, m, v)
  PROVE  Line("erased", m, v, n, own, S \cup {u})
<1> DEFINE T == S \cup {u}
<1>0. /\ SameVersions("erased", m, v, T)
      /\ \A k \in S : k.epoch = u.epoch => Higher(v, k.models[m]) /\ k.models[m] # v
  BY EraseVersions DEF Line
<1>1. /\ SameVersions("erased", m, v, T)
      /\ \A k \in S : k.epoch = u.epoch => Higher(v, k.models[m]) /\ k.models[m] # v
      /\ u # own
  BY <1>0 DEF Erased
<1>2. /\ \A k \in T : \A o \in DOMAIN k.origins : k.origins[o].rev \in Nat
      /\ "equal" \in Modes /\ "erased" \in Modes
  BY LedgerParts, ComponentParts DEF Ledgers, Modes
<1>3. \A k, j \in S : k.epoch = j.epoch /\ (Higher(k.epoch, own.epoch) \/ k = own) => Trails("equal", a, b, n, k, j)
  BY DEF Line, AllTrail
<1>4. AllTrail("erased", m, v, n, own, T)
  <2> SUFFICES ASSUME NEW k \in T, NEW j \in T, k.epoch = j.epoch, k = own \/ Higher(k.epoch, own.epoch)
               PROVE  Trails("erased", m, v, n, k, j)
    BY DEF AllTrail
  <2>1. CASE k \in S /\ j \in S
    <3>1. Trails("equal", a, b, n, k, j)
      BY <1>3, <2>1
    <3> QED BY <3>1 DEF Trails
  <2>2. CASE k \in S /\ j = u
    <3>1. Trails("equal", a, b, n, k, l) /\ Higher(v, k.models[m])
      BY <1>1, <1>3, <2>2 DEF Erased
    <3>2. CASE n \in DOMAIN l.origins
      <4>1. n \in DOMAIN k.origins /\ l.origins[n].rev \in Nat /\ k.origins[n].rev \in Nat
        BY <1>2, <2>2, <3>1, <3>2 DEF Trails
      <4>2. CASE l.origins[n].rev < k.origins[n].rev
        <5>1. u.origins[n].rev < k.origins[n].rev \/ u.origins[n].rev = k.origins[n].rev
          BY <3>2, <4>1, <4>2 DEF Erased
        <5> QED BY <2>2, <4>1, <5>1 DEF Trails
      <4>3. CASE l.origins[n] = k.origins[n]
        BY <2>2, <3>1, <3>2, <4>1, <4>3 DEF Trails, Erased
      <4> QED BY <3>1, <3>2, <4>2, <4>3 DEF Trails
    <3>3. CASE n \notin DOMAIN l.origins
      BY <2>2, <3>3 DEF Trails, Erased
    <3> QED BY <3>2, <3>3
  <2>3. CASE k = u /\ j \in S
    <3>1. Trails("equal", a, b, n, l, j)
      BY <1>1, <1>3, <2>3 DEF Erased
    <3>2. CASE n \in DOMAIN j.origins
      <4>1. n \in DOMAIN l.origins /\ l.origins[n].rev \in Nat /\ j.origins[n].rev \in Nat
        BY <1>2, <2>3, <3>1, <3>2 DEF Trails
      <4>2. j.origins[n].rev < u.origins[n].rev /\ n \in DOMAIN u.origins
        BY <3>1, <3>2, <4>1 DEF Trails, Erased
      <4> QED BY <2>3, <4>2 DEF Trails
    <3> QED BY <3>2 DEF Trails
  <2>4. CASE k = u /\ j = u
    BY <1>2, <2>4, TrailsItself DEF Modes
  <2> QED BY <2>1, <2>2, <2>3, <2>4
<1>5. Carried("erased", m, v, n, own, T)
  <2> SUFFICES ASSUME NEW k \in T, NEW j \in T,
                      k.epoch = own.epoch, j.epoch = own.epoch, k.models[m] = v,
                      n \in DOMAIN j.origins, j.origins[n].rev > own.origins[n].rev
               PROVE  n \in DOMAIN k.origins /\ k.origins[n].rev > own.origins[n].rev
    BY DEF Carried
  <2>1. own.origins[n].rev \in Nat /\ j.origins[n].rev \in Nat
    BY <1>2
  <2>2. j \in S => FALSE
    <3>1. j \in S => Trails("equal", a, b, n, own, j)
      BY <1>3
    <3> QED BY <2>1, <3>1 DEF Trails
  <2>3. j = u
    BY <2>2
  <2>4. k = u
    BY <1>1, <2>3
  <2> QED BY <2>3, <2>4
<1> QED BY <1>1, <1>4, <1>5 DEF Line

\* ... and at the node itself.
LEMMA OwnErased ==
  ASSUME NEW a, NEW b, NEW n, NEW own, NEW S, Ledgers(S), own \in S, n \in DOMAIN own.origins,
         Line("equal", a, b, n, own, S),
         NEW m \in Models, NEW v \in Version, NEW u, IsLedger(u), Erased(u, own, m, v)
  PROVE  Line("erased", m, v, n, u, S \cup {u})
<1> DEFINE T == S \cup {u}
<1>1. SameVersions("erased", m, v, T)
  BY EraseVersions DEF Line
<1>2. /\ \A k \in T : \A o \in DOMAIN k.origins : k.origins[o].rev \in Nat
      /\ u.epoch = own.epoch /\ u.epoch \in Version
      /\ n \in DOMAIN u.origins /\ u.origins[n].rev = own.origins[n].rev + 1
  BY LedgerParts, ComponentParts DEF Ledgers, Erased
<1>3. \A k, j \in S : k.epoch = j.epoch /\ (Higher(k.epoch, own.epoch) \/ k = own) => Trails("equal", a, b, n, k, j)
  BY DEF Line, AllTrail
<1>4. ASSUME NEW j \in S, j.epoch = u.epoch, n \in DOMAIN j.origins
      PROVE  j.origins[n].rev \in Nat /\ j.origins[n].rev < u.origins[n].rev
  <2>1. Trails("equal", a, b, n, own, j)
    BY <1>2, <1>3, <1>4
  <2>2. j.origins[n].rev \in Nat /\ own.origins[n].rev \in Nat
    BY <1>2, <1>4
  <2> QED BY <1>2, <1>4, <2>1, <2>2 DEF Trails
<1>5. AllTrail("erased", m, v, n, u, T)
  <2> SUFFICES ASSUME NEW k \in T, NEW j \in T, k.epoch = j.epoch, k = u \/ Higher(k.epoch, u.epoch)
               PROVE  Trails("erased", m, v, n, k, j)
    BY DEF AllTrail
  <2>1. ~Higher(u.epoch, u.epoch)
    BY <1>2, VersionOrder
  <2>2. CASE k = u
    BY <1>2, <1>4, <2>2, TrailsItself DEF Trails, Modes
  <2>3. CASE k # u
    <3>1. k \in S /\ j \in S /\ Higher(k.epoch, own.epoch)
      BY <1>2, <2>1, <2>3
    <3>2. Trails("equal", a, b, n, k, j)
      BY <1>3, <3>1
    <3> QED BY <3>2 DEF Trails
  <2> QED BY <2>2, <2>3
<1>6. Carried("erased", m, v, n, u, T)
  <2>1. \A j \in T : j.epoch = u.epoch /\ n \in DOMAIN j.origins => ~(j.origins[n].rev > u.origins[n].rev)
    BY <1>2, <1>4
  <2> QED BY <2>1 DEF Carried
<1> QED BY <1>1, <1>5, <1>6 DEF Line

\* What node n counts of its own requests in ledger l it counts in u, unless it came to
\* another epoch or to another version of the model.
KeepsOwn(n, l, u) ==
  u.epoch = l.epoch =>
    \A x \in Models : u.models[x] = l.models[x] /\ l.origins[n].stamp[x] = l.models[x] =>
      /\ u.origins[n].stamp[x] = l.models[x]
      /\ l.origins[n].total[x] \subseteq u.origins[n].total[x]

\* A merge never puts an older or another count in the place of the node's own: what it counted
\* of its own requests before the merge (merge_token_usage_sync) it counts after.
LEMMA JoinedKeeps ==
  ASSUME NEW mode \in Modes, NEW m, NEW v, Mode(mode, m, v), NEW n, NEW own, NEW S, Ledgers(S),
         own \in S, n \in DOMAIN own.origins, Line(mode, m, v, n, own, S),
         NEW r \in S, NEW u, IsLedger(u), Joins(n, u, own, r)
  PROVE  KeepsOwn(n, own, u)
<1>1. CASE n \in DOMAIN r.origins /\ r.origins[n].rev > own.origins[n].rev
  <2>1. own.origins[n].rev \in Nat /\ r.origins[n].rev \in Nat /\ u.origins[n] = r.origins[n]
    BY <1>1, LedgerParts, ComponentParts DEF Ledgers, Joins, Newer
  <2>2. Trails(mode, m, v, n, own, r)
    BY Ahead DEF Joins
  <2>3. /\ mode = "erased" /\ r.models[m] = v /\ Higher(v, own.models[m])
        /\ \A x \in Models \ {m} : /\ r.origins[n].total[x] = own.origins[n].total[x]
                                   /\ r.origins[n].stamp[x] = own.origins[n].stamp[x]
    BY <1>1, <2>1, <2>2 DEF Trails
  <2>4. m \in Models /\ v \in Version /\ own.models[m] \in Version
    BY <2>3, LedgerParts DEF Mode, Ledgers
  <2>5. u.models[m] # own.models[m]
    <3>1. u.models[m] = Later(own.models[m], v)
      BY <2>3, <2>4 DEF Joins
    <3> QED BY <2>3, <2>4, <3>1, VersionOrder DEF Later
  <2> QED BY <2>1, <2>3, <2>5 DEF KeepsOwn
<1>2. CASE ~(n \in DOMAIN r.origins /\ r.origins[n].rev > own.origins[n].rev)
  <2>1. u.origins[n] = own.origins[n]
    BY <1>2 DEF Joins, Newer
  <2> QED BY <2>1 DEF KeepsOwn
<1> QED BY <1>1, <1>2

(***************************************************************************)
(* Merging, reconciling and recording, seen from one origin.               *)
(***************************************************************************)

\* The three outcomes of a merge (merge_token_usage_sync): the remote epoch is newer and is adopted,
\* or is older and ignored, or the same and the origins are joined one by one.
LEMMA MergeParts ==
  ASSUME NEW x \in Nodes, NEW l, IsLedger(l), x \in DOMAIN l.origins, NEW r, IsLedger(r)
  PROVE  LET u == Merge(x, l, r) IN
         /\ IsLedger(u) /\ x \in DOMAIN u.origins
         /\ \/ /\ Higher(r.epoch, l.epoch) /\ u.epoch = r.epoch /\ u.models = r.models
               /\ \A o \in Nodes : o # x => Alike(o, u, r)
               /\ x \in DOMAIN r.origins => u.origins[x] = r.origins[x]
            \/ Higher(l.epoch, r.epoch) /\ u = l
            \/ \A o \in Nodes : Joins(o, u, l, r)
<1>0. /\ l.epoch \in Version /\ r.epoch \in Version
      /\ Higher(r.epoch, l.epoch) => ~Higher(l.epoch, r.epoch) /\ r.epoch # l.epoch
      /\ Higher(l.epoch, r.epoch) => r.epoch # l.epoch
      /\ Higher(r.epoch, l.epoch) \/ Higher(l.epoch, r.epoch) \/ r.epoch = l.epoch
  BY LedgerParts, VersionOrder
<1>a. IsLedger(Merge(x, l, r)) /\ x \in DOMAIN Merge(x, l, r).origins
  BY MergeIs
<1>1. CASE Higher(r.epoch, l.epoch)
  <2>1. Merge(x, l, r) = Known(r, x)
    BY <1>0, <1>1 DEF Merge
  <2> DEFINE u == Known(r, x)
  <2>2. /\ u.epoch = r.epoch /\ u.models = r.models
        /\ DOMAIN u.origins = DOMAIN r.origins \cup {x}
        /\ \A o \in DOMAIN r.origins : u.origins[o] = r.origins[o]
    BY KnownIs
  <2> HIDE DEF u
  <2>3. \A o \in Nodes : o # x => Alike(o, u, r)
    BY <2>2 DEF Alike
  <2> QED BY <1>a, <1>1, <2>1, <2>2, <2>3 DEF u
<1>2. CASE Higher(l.epoch, r.epoch)
  <2>1. Merge(x, l, r) = l
    BY <1>0, <1>2 DEF Merge
  <2> QED BY <1>a, <1>2, <2>1
<1>3. CASE r.epoch = l.epoch
  <2>1. ~Higher(r.epoch, l.epoch) /\ ~Higher(l.epoch, r.epoch)
    BY <1>0, <1>3
  <2>2. Merge(x, l, r) = Known(Union(l, r), x)
    BY <1>3, <2>1 DEF Merge
  <2>3. IsLedger(Union(l, r)) /\ x \in DOMAIN Union(l, r).origins
    BY UnionIs
  <2>4. Merge(x, l, r) = Union(l, r)
    BY <2>2, <2>3 DEF Known
  <2> DEFINE u == Union(l, r)
             vs == [y \in Models |-> Later(l.models[y], r.models[y])]
             S == DOMAIN l.origins \cup DOMAIN r.origins
             f == [o \in S |-> IF o \in DOMAIN r.origins /\ Newer(l, o, r.origins[o])
                               THEN r.origins[o] ELSE l.origins[o]]
  <2>5. u = [epoch |-> l.epoch, models |-> vs, origins |-> f]
    BY LedgerExcept DEF Union
  <2>6. \A o \in Nodes : Joins(o, u, l, r)
    <3>1. u.epoch = l.epoch /\ u.models = vs /\ u.origins = f
      BY <2>5
    <3>2. \A y \in Models : vs[y] = Later(l.models[y], r.models[y])
      OBVIOUS
    <3>3. DOMAIN f = S
          /\ \A o \in S : f[o] = IF o \in DOMAIN r.origins /\ Newer(l, o, r.origins[o])
                                 THEN r.origins[o] ELSE l.origins[o]
      OBVIOUS
    <3>4. \A o : o \in S <=> o \in DOMAIN l.origins \/ o \in DOMAIN r.origins
      OBVIOUS
    <3> HIDE DEF u, vs, f, S
    <3>5. \A o \in S : o \notin DOMAIN l.origins => o \in DOMAIN r.origins /\ Newer(l, o, r.origins[o])
      BY <3>4 DEF Newer
    <3> QED BY <1>3, <3>1, <3>2, <3>3, <3>4, <3>5 DEF Joins
  <2> QED BY <1>a, <2>4, <2>6
<1> QED BY <1>0, <1>1, <1>2, <1>3

\* What merging at node x does to the standing of origin n.
LEMMA MergeMoves ==
  ASSUME NEW mode \in Modes, NEW m, NEW v, Mode(mode, m, v), NEW n \in Nodes, NEW own, NEW S, Ledgers(S),
         own \in S, n \in DOMAIN own.origins, Line(mode, m, v, n, own, S),
         NEW x \in Nodes, NEW l \in S, x \in DOMAIN l.origins, n = x => own = l, NEW r \in S
  PROVE  LET u == Merge(x, l, r) IN
         /\ Line(mode, m, v, n, IF n = x THEN u ELSE own, S \cup {u})
         /\ n = x => KeepsOwn(n, l, u)
<1> DEFINE u == Merge(x, l, r)
<1>1. IsLedger(l) /\ IsLedger(r)
  BY DEF Ledgers
<1>2. /\ IsLedger(u) /\ x \in DOMAIN u.origins
      /\ \/ /\ Higher(r.epoch, l.epoch) /\ u.epoch = r.epoch /\ u.models = r.models
            /\ \A o \in Nodes : o # x => Alike(o, u, r)
            /\ x \in DOMAIN r.origins => u.origins[x] = r.origins[x]
         \/ Higher(l.epoch, r.epoch) /\ u = l
         \/ \A o \in Nodes : Joins(o, u, l, r)
  BY <1>1, MergeParts
<1> HIDE DEF u
<1>3. CASE /\ Higher(r.epoch, l.epoch) /\ u.epoch = r.epoch /\ u.models = r.models
           /\ \A o \in Nodes : o # x => Alike(o, u, r)
           /\ x \in DOMAIN r.origins => u.origins[x] = r.origins[x]
  <2>1. CASE n = x
    <3>1. Line(mode, m, v, n, u, S \cup {u})
      BY <1>2, <1>3, <2>1, OwnAdopts
    <3>2. KeepsOwn(n, l, u)
      BY <1>1, <1>3, LedgerParts, VersionOrder DEF KeepsOwn
    <3> QED BY <2>1, <3>1, <3>2 DEF u
  <2>2. CASE n # x
    BY <1>2, <1>3, <2>2, AlikeJoins DEF u
  <2> QED BY <2>1, <2>2
<1>4. CASE Higher(l.epoch, r.epoch) /\ u = l
  <2>1. S \cup {u} = S
    BY <1>4
  <2>2. KeepsOwn(n, l, u)
    BY <1>4 DEF KeepsOwn
  <2> QED BY <1>4, <2>1, <2>2 DEF u
<1>5. CASE \A o \in Nodes : Joins(o, u, l, r)
  <2>1. CASE n = x
    BY <1>2, <1>5, <2>1, OwnJoined, JoinedKeeps DEF u
  <2>2. CASE n # x
    BY <1>2, <1>5, <2>2, JoinedJoins DEF u
  <2> QED BY <2>1, <2>2
<1> QED BY <1>2, <1>3, <1>4, <1>5

\* Ledger u is not behind l: of a later epoch, or of the same with no model's version lower.
Advances(l, u) ==
  \/ Higher(u.epoch, l.epoch)
  \/ u.epoch = l.epoch /\ \A x \in Models : u.models[x] = l.models[x] \/ Higher(u.models[x], l.models[x])

\* Epochs and versions only rise along a chain of merges.
LEMMA AdvancesFurther ==
  ASSUME NEW a, IsLedger(a), NEW b, IsLedger(b), NEW c, IsLedger(c), Advances(a, b), Advances(b, c)
  PROVE  Advances(a, c)
<1>1. /\ a.epoch \in Version /\ b.epoch \in Version /\ c.epoch \in Version
      /\ \A x \in Models : a.models[x] \in Version /\ b.models[x] \in Version /\ c.models[x] \in Version
  BY LedgerParts
<1>2. \A u, v, w \in Version : Higher(u, v) /\ Higher(v, w) => Higher(u, w)
  BY VersionOrder
<1>3. CASE Higher(c.epoch, a.epoch)
  BY <1>3 DEF Advances
<1>4. CASE ~Higher(c.epoch, a.epoch)
  <2>1. b.epoch = a.epoch /\ c.epoch = b.epoch
    BY <1>1, <1>2, <1>4 DEF Advances
  <2>2. ~Higher(a.epoch, a.epoch)
    BY <1>1, VersionOrder
  <2>3. \A x \in Models : /\ b.models[x] = a.models[x] \/ Higher(b.models[x], a.models[x])
                          /\ c.models[x] = b.models[x] \/ Higher(c.models[x], b.models[x])
    BY <2>1, <2>2 DEF Advances
  <2>4. \A x \in Models : c.models[x] = a.models[x] \/ Higher(c.models[x], a.models[x])
    BY <1>1, <1>2, <2>3
  <2> QED BY <2>1, <2>4 DEF Advances
<1> QED BY <1>3, <1>4

\* The node's own usage is kept along the way, too.
LEMMA KeepsFurther ==
  ASSUME NEW n, NEW a, IsLedger(a), NEW b, IsLedger(b), NEW c, IsLedger(c), Advances(a, b), Advances(b, c),
         KeepsOwn(n, a, b), KeepsOwn(n, b, c)
  PROVE  KeepsOwn(n, a, c)
<1>1. /\ a.epoch \in Version /\ b.epoch \in Version /\ c.epoch \in Version
      /\ \A x \in Models : a.models[x] \in Version /\ b.models[x] \in Version /\ c.models[x] \in Version
  BY LedgerParts
<1>2. \A u, v \in Version : Higher(u, v) => ~Higher(v, u) /\ u # v
  BY VersionOrder
<1>3. \A u, v, w \in Version : Higher(u, v) /\ Higher(v, w) => Higher(u, w)
  BY VersionOrder
<1> SUFFICES ASSUME c.epoch = a.epoch, NEW x \in Models, c.models[x] = a.models[x],
                    a.origins[n].stamp[x] = a.models[x]
             PROVE  /\ c.origins[n].stamp[x] = a.models[x]
                    /\ a.origins[n].total[x] \subseteq c.origins[n].total[x]
  BY DEF KeepsOwn
<1>4. b.epoch = a.epoch
  BY <1>1, <1>2 DEF Advances
<1>5. b.models[x] = a.models[x]
  BY <1>1, <1>2, <1>4 DEF Advances
<1>6. b.origins[n].stamp[x] = a.models[x] /\ a.origins[n].total[x] \subseteq b.origins[n].total[x]
  BY <1>4, <1>5 DEF KeepsOwn
<1> QED BY <1>4, <1>5, <1>6 DEF KeepsOwn

\* A merge falls behind neither of the two ledgers it is made of (merge_token_usage_sync).
LEMMA MergeAdvances ==
  ASSUME NEW x \in Nodes, NEW l, IsLedger(l), x \in DOMAIN l.origins, NEW r, IsLedger(r)
  PROVE  Advances(l, Merge(x, l, r)) /\ Advances(r, Merge(x, l, r))
<1> DEFINE u == Merge(x, l, r)
<1>1. /\ \A y \in Models : l.models[y] \in Version /\ r.models[y] \in Version
      /\ \/ Higher(r.epoch, l.epoch) /\ u.epoch = r.epoch /\ u.models = r.models
         \/ Higher(l.epoch, r.epoch) /\ u = l
         \/ \A o \in Nodes : Joins(o, u, l, r)
  BY MergeParts, LedgerParts
<1> HIDE DEF u
<1>2. ASSUME \A o \in Nodes : Joins(o, u, l, r) PROVE Advances(l, u) /\ Advances(r, u)
  <2>1. /\ u.epoch = l.epoch /\ r.epoch = l.epoch
        /\ \A y \in Models : u.models[y] = Later(l.models[y], r.models[y])
    BY <1>2 DEF Joins
  <2>2. \A a, b \in Version : /\ Later(a, b) = a \/ Higher(Later(a, b), a)
                              /\ Later(a, b) = b \/ Higher(Later(a, b), b)
    BY VersionOrder DEF Later
  <2> QED BY <1>1, <2>1, <2>2 DEF Advances
<1> QED BY <1>1, <1>2 DEF Advances, u

\* Recording a request raises the revision of the node's component by one (_record_tokens).
LEMMA CountingRev ==
  ASSUME NEW l, IsLedger(l), NEW n \in DOMAIN l.origins, NEW m \in Models, NEW r \in Requests
  PROVE  Counting(l, n, m, r).origins[n].rev = l.origins[n].rev + 1
<1> DEFINE c == l.origins[n]
           old == IF c.stamp[m] = l.models[m] THEN c ELSE [c EXCEPT !.total[m] = {}, !.hourly[m] = {}]
           c1 == [old EXCEPT !.total[m] = @ \cup {r}, !.hourly[m] = @ \cup {r},
                             !.stamp[m] = l.models[m], !.rev = @ + 1]
           f == [l.origins EXCEPT ![n] = c1]
<1>1. Counting(l, n, m, r) = [l EXCEPT !.origins = f]
  BY DEF Counting
<1>2. c \in Component /\ c = [rev |-> c.rev, total |-> c.total, hourly |-> c.hourly, stamp |-> c.stamp]
  BY LedgerParts, ComponentParts
<1>3. old.rev = c.rev /\ \E a, b : old = [rev |-> c.rev, total |-> a, hourly |-> b, stamp |-> c.stamp]
  <2> HIDE DEF c
  <2>1. CASE c.stamp[m] = l.models[m]
    BY <1>2, <2>1
  <2>2. CASE c.stamp[m] # l.models[m]
    <3> DEFINE a == [c.total EXCEPT ![m] = {}]
               b == [c.hourly EXCEPT ![m] = {}]
    <3>1. old = [c EXCEPT !.total = a, !.hourly = b]
      BY <2>2
    <3> HIDE DEF a, b
    <3>2. old = [rev |-> c.rev, total |-> a, hourly |-> b, stamp |-> c.stamp]
      BY <1>2, <3>1
    <3> QED BY <3>2
  <2> QED BY <2>1, <2>2
<1> HIDE DEF old
<1>4. c1.rev = c.rev + 1
  <2> DEFINE a == [old.total EXCEPT ![m] = @ \cup {r}]
             b == [old.hourly EXCEPT ![m] = @ \cup {r}]
             s == [old.stamp EXCEPT ![m] = l.models[m]]
  <2>1. c1 = [old EXCEPT !.total = a, !.hourly = b, !.stamp = s, !.rev = old.rev + 1]
    OBVIOUS
  <2> HIDE DEF a, b, s, c1
  <2> QED BY <1>3, <2>1
<1> HIDE DEF c1
<1>5. f[n] = c1
  OBVIOUS
<1> HIDE DEF f
<1>6. Counting(l, n, m, r).origins = f
  BY <1>1, LedgerExcept
<1> QED BY <1>4, <1>5, <1>6

(***************************************************************************)
(* The revisions of all the copies of the ledgers there are.               *)
(***************************************************************************)

\* The ledgers in memory, pulled, pushed, and in pushes given up by the controller.
Copies ==
  {ledger[x] : x \in Nodes} \cup {answers[x] : x \in DOMAIN answers}
    \cup {snap, Fresh({})} \cup {p.ledger : p \in late}

\* All the copies are ledgers whose epoch was handed out, and every node has a component of its own.
LEMMA CopiesAre ==
  ASSUME IInv
  PROVE  /\ Ledgers(Copies) /\ \A k \in Copies : Foreseen(k.epoch, ledger, spent.rewound)
         /\ \A n \in Nodes : /\ ledger[n] \in Copies /\ IsLedger(ledger[n])
                             /\ n \in DOMAIN ledger[n].origins
         /\ \A n \in DOMAIN answers : answers[n] \in Copies
         /\ snap \in Copies /\ Fresh({}) \in Copies /\ \A p \in late : p.ledger \in Copies
<1>1. \A n \in Nodes : IsLedger(ledger[n]) /\ Foreseen(ledger[n].epoch, ledger, spent.rewound) /\ n \in DOMAIN ledger[n].origins
  BY DEF IInv, LedgersOK, Good
<1>2. \A n \in DOMAIN answers : IsLedger(answers[n]) /\ Foreseen(answers[n].epoch, ledger, spent.rewound)
  BY DEF IInv, AnswersOK, Good
<1>3. /\ IsLedger(snap) /\ Foreseen(snap.epoch, ledger, spent.rewound)
      /\ \A p \in late : IsLedger(p.ledger) /\ Foreseen(p.ledger.epoch, ledger, spent.rewound)
  BY DEF IInv, PushesOK, Good
<1>4. IsLedger(Fresh({})) /\ Foreseen(Fresh({}).epoch, ledger, spent.rewound)
  BY FreshGood DEF Good
<1> QED BY <1>1, <1>2, <1>3, <1>4 DEF Copies, Ledgers

\* Node x's ledger becomes u, and no other ledger comes up.
Becomes(x, u) ==
  /\ \A n \in Nodes : ledger'[n] = IF n = x THEN u ELSE ledger[n]
  /\ Copies' \subseteq Copies \cup {u}

\* Node x's ledger becoming u leaves the standing of origin n as good as it was, as long as
\* no epoch can be handed out twice.
Moves(n, x, u) ==
  ~spent.rewound =>
    \A mode \in Modes : \A m, v :
      Mode(mode, m, v) /\ Line(mode, m, v, n, ledger[n], Copies)
        => Line(mode, m, v, n, IF n = x THEN u ELSE ledger[n], Copies \cup {u})

\* An epoch is handed out twice only after a restart that lost a save.
LEMMA NotRewound ==
  ASSUME IInv, ~spent.lost
  PROVE  ~spent.rewound
BY DEF IInv, HistoryOK

\* After a step the standing of an origin is that among the ledgers there are then: those a round
\* or a late push gave up only make it better.
LEMMA LineBecomes ==
  ASSUME NEW mode \in Modes, NEW m, NEW v, Mode(mode, m, v), NEW n \in Nodes, NEW x, NEW u,
         Becomes(x, u), Moves(n, x, u), ~spent.rewound, Line(mode, m, v, n, ledger[n], Copies)
  PROVE  Line(mode, m, v, n, ledger'[n], Copies')
<1>1. Line(mode, m, v, n, IF n = x THEN u ELSE ledger[n], Copies \cup {u})
  BY DEF Moves
<1>2. ledger'[n] = IF n = x THEN u ELSE ledger[n]
  BY DEF Becomes
<1> QED BY <1>1, <1>2, FewerTrail DEF Becomes

\* Recording a request (_record_tokens).
LEMMA RecordMoves ==
  ASSUME IInv, NEW x \in Nodes, NEW m \in Models, Record(x, m)
  PROVE  \E u : /\ Becomes(x, u) /\ IsLedger(u) /\ u.epoch = ledger[x].epoch /\ u.models = ledger[x].models
                /\ \A n \in Nodes : Moves(n, x, u)
                /\ \A n \in Nodes : n # x /\ n \in DOMAIN u.origins =>
                     n \in DOMAIN ledger[x].origins /\ u.origins[n].rev = ledger[x].origins[n].rev
                /\ x \in DOMAIN u.origins /\ u.origins[x].rev = ledger[x].origins[x].rev + 1
                /\ KeepsOwn(x, ledger[x], u)
<1> DEFINE l == ledger[x]
           r == Len(log) + 1
           u == Counting(l, x, m, r)
<1>1. ledger' = [ledger EXCEPT ![x] = u] /\ answers' = answers /\ snap' = snap /\ late' = late
  BY DEF Record, round
<1>2. r \in Requests
  <2>1. Len(log) \in Nat /\ Len(log) < MaxRequests /\ MaxRequests \in Nat
    BY Ids DEF Record, IInv, HistoryOK
  <2> QED BY <2>1 DEF Requests
<1>3. /\ IsLedger(l) /\ x \in DOMAIN l.origins /\ l \in Copies /\ Ledgers(Copies) /\ DOMAIN ledger = Nodes
      /\ \A n \in Nodes : ledger[n] \in Copies /\ n \in DOMAIN ledger[n].origins
  BY CopiesAre DEF IInv, RoundOK
<1>4. CountsOne(u, l, x, m, r) /\ u.origins[x].rev = l.origins[x].rev + 1
  BY <1>2, <1>3, CountingIs, CountingRev
<1> HIDE DEF u
<1>5. Becomes(x, u)
  BY <1>1, <1>3 DEF Becomes, Copies
<1>6. /\ IsLedger(u) /\ u.epoch = l.epoch /\ u.models = l.models
      /\ \A n \in DOMAIN u.origins : n # x => n \in DOMAIN l.origins /\ u.origins[n] = l.origins[n]
      /\ DOMAIN u.origins = DOMAIN l.origins
  BY <1>4 DEF CountsOne
<1>7. ASSUME NEW n \in Nodes PROVE Moves(n, x, u)
  <2> SUFFICES ASSUME ~spent.rewound, NEW mode \in Modes, NEW a, NEW b, Mode(mode, a, b),
                      Line(mode, a, b, n, ledger[n], Copies)
               PROVE  Line(mode, a, b, n, IF n = x THEN u ELSE ledger[n], Copies \cup {u})
    BY DEF Moves
  <2>1. CASE n = x
    BY <1>3, <1>4, <1>6, <2>1, OwnRises
  <2>2. CASE n # x
    <3>1. Alike(n, u, l)
      BY <1>6, <2>2 DEF Alike
    <3> QED BY <1>3, <1>6, <2>2, <3>1, AlikeJoins
  <2> QED BY <2>1, <2>2
<1>8. KeepsOwn(x, l, u)
  BY <1>4, <1>6 DEF KeepsOwn, CountsOne
<1> QED BY <1>3, <1>4, <1>5, <1>6, <1>7, <1>8

\* The ledger a reset leaves, part by part.
LEMMA EpochExcept ==
  ASSUME NEW l, IsLedger(l), NEW e, NEW f
  PROVE  [l EXCEPT !.epoch = e, !.origins = f] = [epoch |-> e, models |-> l.models, origins |-> f]
<1> DEFINE x == [l EXCEPT !.epoch = e, !.origins = f]
<1>1. l \in [epoch : {e, l.epoch}, models : {l.models}, origins : {f, l.origins}]
  BY DEF IsLedger
<1>2. /\ x \in [epoch : {e, l.epoch}, models : {l.models}, origins : {f, l.origins}]
      /\ x.epoch = e /\ x.models = l.models /\ x.origins = f
  BY <1>1
<1> HIDE DEF x
<1>3. x = [epoch |-> x.epoch, models |-> x.models, origins |-> x.origins]
  BY <1>2
<1> QED BY <1>2, <1>3 DEF x

\* A reset starts an epoch none of the copies has (reset_token_stats).
LEMMA ResetMoves ==
  ASSUME IInv, NEW x \in Nodes, Reset(x)
  PROVE  \E u : /\ Becomes(x, u)
                /\ \A n \in Nodes : Moves(n, x, u)
                /\ u.epoch # ledger[x].epoch
<1> DEFINE l == ledger[x]
           epoch == <<l.epoch[1] + 1, x>>
           f == [o \in DOMAIN l.origins |-> Cleared(l.origins[o])]
           u == [l EXCEPT !.epoch = epoch, !.origins = f]
<1>1. ledger' = [ledger EXCEPT ![x] = u] /\ answers' = answers /\ snap' = snap /\ late' = late
  BY DEF Reset, round
<1>2. /\ IsLedger(l) /\ x \in DOMAIN l.origins /\ l \in Copies /\ Ledgers(Copies) /\ DOMAIN ledger = Nodes
      /\ \A n \in Nodes : ledger[n] \in Copies /\ n \in DOMAIN ledger[n].origins
      /\ \A k \in Copies : Foreseen(k.epoch, ledger, spent.rewound)
  BY CopiesAre DEF IInv, RoundOK
<1>3. /\ l.epoch \in Version /\ l.epoch[1] \in Nat /\ DOMAIN l.origins \in SUBSET Nodes
      /\ \A o \in DOMAIN l.origins : l.origins[o] \in Component
  BY <1>2, LedgerParts, VersionOrder
<1>4. epoch \in Version /\ f \in [DOMAIN l.origins -> Component] /\ DOMAIN f = DOMAIN l.origins
  BY <1>3, ClearedIs DEF Version
<1>5. Higher(epoch, l.epoch)
  BY <1>3 DEF Higher
<1>6. epoch[1] = l.epoch[1] + 1 /\ epoch[2] = x
  OBVIOUS
<1> HIDE DEF epoch, f
<1>7. u = [epoch |-> epoch, models |-> l.models, origins |-> f]
  BY <1>2, EpochExcept
<1> HIDE DEF u
<1>8. /\ IsLedger(u) /\ u.epoch = epoch /\ DOMAIN u.origins = DOMAIN l.origins
  BY <1>2, <1>3, <1>4, <1>7, MakeLedger, LedgerParts
<1>9. ~spent.rewound => \A k \in Copies : k.epoch # u.epoch
  BY <1>2, <1>3, <1>6, <1>8 DEF Foreseen
<1>10. Becomes(x, u)
  BY <1>1, <1>2 DEF Becomes, Copies
<1>11. ASSUME NEW n \in Nodes PROVE Moves(n, x, u)
  <2> SUFFICES ASSUME ~spent.rewound, NEW mode \in Modes, NEW a, NEW b, Mode(mode, a, b),
                      Line(mode, a, b, n, ledger[n], Copies)
               PROVE  Line(mode, a, b, n, IF n = x THEN u ELSE ledger[n], Copies \cup {u})
    BY DEF Moves
  <2>1. CASE n = x
    BY <1>2, <1>5, <1>8, <1>9, <2>1, OwnFresh
  <2>2. CASE n # x
    BY <1>2, <1>8, <1>9, <2>2, FreshJoins
  <2> QED BY <2>1, <2>2
<1>12. u.epoch # l.epoch
  BY <1>3, <1>6, <1>8
<1> QED BY <1>10, <1>11, <1>12

\* Purging an erased model raises the revision of every component by one (_erase_synced_usage_model).
LEMMA PurgedRev ==
  ASSUME NEW c \in Component, NEW m \in Models
  PROVE  Purged(c, m).rev = c.rev + 1
<1> DEFINE t == [c.total EXCEPT ![m] = {}]
           h == [c.hourly EXCEPT ![m] = {}]
<1>1. Purged(c, m) = [c EXCEPT !.total = t, !.hourly = h, !.rev = c.rev + 1]
  BY DEF Purged
<1> HIDE DEF t, h
<1> QED BY <1>1, ComponentParts

\* An erase (erase_usage_model): of each component it leaves a newer one, which differs
\* in the erased model only.
LEMMA EraseMoves ==
  ASSUME IInv, NEW x \in Nodes, NEW m \in Models, Erase(x, m)
  PROVE  \E u, v : /\ Becomes(x, u) /\ IsLedger(u) /\ v \in Version /\ Erased(u, ledger[x], m, v)
<1> DEFINE l == ledger[x]
           v == <<l.models[m][1] + 1, x>>
           vs == [l.models EXCEPT ![m] = v]
           f == [o \in DOMAIN l.origins |-> Purged(l.origins[o], m)]
           u == [l EXCEPT !.models = vs, !.origins = f]
<1>1. ledger' = [ledger EXCEPT ![x] = u] /\ answers' = answers /\ snap' = snap /\ late' = late
  BY DEF Erase, round
<1>2. /\ IsLedger(l) /\ DOMAIN ledger = Nodes
  BY CopiesAre DEF IInv, RoundOK
<1>3. /\ l.epoch \in Version /\ l.models \in [Models -> Version] /\ l.models[m][1] \in Nat
      /\ DOMAIN l.origins \in SUBSET Nodes
      /\ \A o \in DOMAIN l.origins : l.origins[o] \in Component
  BY <1>2, LedgerParts, VersionOrder
<1>4. v \in Version /\ Higher(v, l.models[m])
  BY <1>3 DEF Version, Higher
<1> HIDE DEF v
<1>5. vs \in [Models -> Version] /\ vs[m] = v
  BY <1>3, <1>4
<1>6. ASSUME NEW o \in DOMAIN l.origins
      PROVE  /\ f[o] \in Component /\ f[o].rev = l.origins[o].rev + 1
             /\ \A y \in Models \ {m} : /\ f[o].total[y] = l.origins[o].total[y]
                                        /\ f[o].stamp[y] = l.origins[o].stamp[y]
  <2>1. f[o] = Purged(l.origins[o], m)
    OBVIOUS
  <2> HIDE DEF f
  <2> QED BY <1>3, <2>1, PurgedIs, PurgedRev
<1>7. f \in [DOMAIN l.origins -> Component] /\ DOMAIN f = DOMAIN l.origins
  BY <1>6
<1> HIDE DEF f, vs
<1>8. u = [epoch |-> l.epoch, models |-> vs, origins |-> f]
  BY <1>2, LedgerExcept
<1> HIDE DEF u
<1>9. IsLedger(u)
  BY <1>3, <1>5, <1>7, <1>8, MakeLedger
<1>10. Erased(u, l, m, v)
  BY <1>4, <1>5, <1>6, <1>7, <1>8 DEF Erased
<1>11. Becomes(x, u)
  BY <1>1, <1>2 DEF Becomes, Copies
<1> QED BY <1>4, <1>9, <1>10, <1>11

(***************************************************************************)
(* The controller takes the pulled ledgers in.                             *)
(***************************************************************************)

\* What holds of the controller's ledger on the way, as far as revisions are concerned:
\* every origin's standing stays as good as it was, the controller's own usage is kept,
\* and no revision comes up that was not there.
Taken(l) ==
  /\ Rising(l) /\ Advances(ledger[Ctl], l)
  /\ \A n \in Nodes : Moves(n, Ctl, l)
  /\ ~spent.rewound => \A mode \in Modes : \A m, v :
       Mode(mode, m, v) /\ Line(mode, m, v, Ctl, ledger[Ctl], Copies) => KeepsOwn(Ctl, ledger[Ctl], l)
  /\ \A n \in Peers : n \in DOMAIN l.origins =>
       \E k \in Copies : n \in DOMAIN k.origins /\ l.origins[n].rev <= k.origins[n].rev

\* One pulled ledger of a peer already reconciled (merge_token_usage_sync).
LEMMA MergeTaken ==
  ASSUME IInv, NEW l, Taken(l), NEW p \in DOMAIN answers, p \in reconciled
  PROVE  Taken(Absorb(l, answers[p], p))
<1> DEFINE r == answers[p]
           u == Merge(Ctl, l, r)
<1>1. Absorb(l, answers[p], p) = u
  BY DEF Absorb
<1>2. /\ Ctl \in Nodes /\ Ledgers(Copies) /\ r \in Copies
      /\ \A n \in Nodes : ledger[n] \in Copies /\ IsLedger(ledger[n]) /\ n \in DOMAIN ledger[n].origins
      /\ \A n \in Peers : n \in Nodes /\ n # Ctl
  BY CopiesAre, Ids DEF Peers
<1>3. IsLedger(l) /\ Ctl \in DOMAIN l.origins /\ IsLedger(r)
  BY <1>2 DEF Taken, Rising, Ledgers
<1>4. Rising(u)
  BY <1>1, AbsorbRises DEF Taken
<1>5. Advances(l, u) /\ IsLedger(u)
  BY <1>2, <1>3, <1>4, MergeAdvances DEF Rising
<1>6. Advances(ledger[Ctl], u)
  BY <1>2, <1>3, <1>5, AdvancesFurther DEF Taken
<1> DEFINE S == Copies \cup {l}
<1>7. Ledgers(S) /\ r \in S /\ l \in S
  BY <1>2, <1>3 DEF Ledgers
<1>8. ASSUME ~spent.rewound, NEW n \in Nodes, NEW mode \in Modes, NEW a, NEW b, Mode(mode, a, b),
             Line(mode, a, b, n, ledger[n], Copies)
      PROVE  /\ Line(mode, a, b, n, IF n = Ctl THEN u ELSE ledger[n], Copies \cup {u})
             /\ n = Ctl => KeepsOwn(n, l, u)
  <2> DEFINE own == IF n = Ctl THEN l ELSE ledger[n]
  <2>1. Line(mode, a, b, n, own, S)
    BY <1>8 DEF Taken, Moves
  <2>2. own \in S /\ n \in DOMAIN own.origins /\ (n = Ctl => own = l)
    BY <1>2, <1>3
  <2> HIDE DEF own, u, S, r
  <2>3. /\ Line(mode, a, b, n, IF n = Ctl THEN u ELSE own, S \cup {u})
        /\ n = Ctl => KeepsOwn(n, l, u)
    BY <1>2, <1>3, <1>7, <1>8, <2>1, <2>2, MergeMoves DEF u
  <2>4. Line(mode, a, b, n, IF n = Ctl THEN u ELSE own, Copies \cup {u})
    BY <2>3, FewerTrail DEF S
  <2> QED BY <2>3, <2>4 DEF own
<1>9. \A n \in Nodes : Moves(n, Ctl, u)
  BY <1>8 DEF Moves
<1>10. ASSUME ~spent.rewound, NEW mode \in Modes, NEW a, NEW b, Mode(mode, a, b),
              Line(mode, a, b, Ctl, ledger[Ctl], Copies)
       PROVE  KeepsOwn(Ctl, ledger[Ctl], u)
  <2>1. KeepsOwn(Ctl, l, u)
    BY <1>2, <1>8, <1>10
  <2>2. KeepsOwn(Ctl, ledger[Ctl], l) /\ Advances(ledger[Ctl], l)
    BY <1>10 DEF Taken
  <2> HIDE DEF u
  <2> QED BY <1>2, <1>3, <1>5, <2>1, <2>2, KeepsFurther
<1>11. ASSUME NEW n \in Peers, n \in DOMAIN u.origins
       PROVE  \E k \in Copies : n \in DOMAIN k.origins /\ u.origins[n].rev <= k.origins[n].rev
  <2>1. \/ n \in DOMAIN r.origins /\ u.origins[n] = r.origins[n]
        \/ n \in DOMAIN l.origins /\ u.origins[n] = l.origins[n]
    <3>1. n \in Nodes /\ n # Ctl
      BY <1>2
    <3>2. \/ \A o \in Nodes : o # Ctl => Alike(o, u, r)
          \/ u = l
          \/ \A o \in Nodes : Joins(o, u, l, r)
      BY <1>2, <1>3, MergeParts
    <3> HIDE DEF u
    <3> QED BY <1>11, <3>1, <3>2 DEF Alike, Joins
  <2> HIDE DEF u, r
  <2>2. CASE n \in DOMAIN r.origins /\ u.origins[n] = r.origins[n]
    <3>1. r.origins[n].rev \in Nat
      BY <1>3, <2>2, LedgerParts, ComponentParts
    <3> QED BY <1>2, <2>2, <3>1
  <2>3. CASE n \in DOMAIN l.origins /\ u.origins[n] = l.origins[n]
    BY <2>3 DEF Taken
  <2> QED BY <2>1, <2>2, <2>3
<1> HIDE DEF u
<1> QED BY <1>1, <1>4, <1>6, <1>9, <1>10, <1>11 DEF Taken

\* One pulled ledger of a peer that joins (reconcile_token_usage_sync): the epoch it gets is
\* one of the controller's that no copy has.
LEMMA ReconcileTaken ==
  ASSUME IInv, NEW l, Taken(l), NEW p \in DOMAIN answers, p \notin reconciled
  PROVE  Taken(Absorb(l, answers[p], p))
<1> DEFINE r == answers[p]
           u == Reconciled(l, r, p)
<1>1. Absorb(l, answers[p], p) = u
  BY DEF Absorb
<1>2. /\ Ctl \in Nodes /\ Ledgers(Copies) /\ r \in Copies
      /\ \A n \in Nodes : ledger[n] \in Copies /\ IsLedger(ledger[n]) /\ n \in DOMAIN ledger[n].origins
      /\ \A k \in Copies : Foreseen(k.epoch, ledger, spent.rewound)
      /\ p \in Peers /\ p \in DOMAIN r.origins
  BY CopiesAre, Ids DEF IInv, AnswersOK
<1>3. /\ IsLedger(l) /\ Ctl \in DOMAIN l.origins /\ IsLedger(r)
      /\ ledger[Ctl].epoch[1] <= l.epoch[1]
  BY <1>2 DEF Taken, Rising, Ledgers
<1>4. Rising(u)
  BY <1>1, AbsorbRises DEF Taken
<1>5. /\ IsLedger(u) /\ Ctl \in DOMAIN u.origins
      /\ u.epoch[2] = Ctl /\ u.epoch[1] > l.epoch[1] /\ Higher(u.epoch, l.epoch)
      /\ \A o \in DOMAIN u.origins :
           \/ o \in DOMAIN l.origins /\ u.origins[o].rev = l.origins[o].rev
           \/ o = p /\ u.origins[o].rev = r.origins[o].rev
  BY <1>2, <1>3, ReconciledIs
<1> HIDE DEF u
<1>6. Advances(l, u)
  BY <1>5 DEF Advances
<1>7. Advances(ledger[Ctl], u)
  BY <1>2, <1>3, <1>5, <1>6, AdvancesFurther DEF Taken
<1> DEFINE S == Copies \cup {l}
<1>8. Ledgers(S) /\ l \in S
  BY <1>2, <1>3 DEF Ledgers
<1>9. ASSUME ~spent.rewound PROVE \A k \in S : k.epoch # u.epoch
  <2>1. ledger[Ctl].epoch[1] \in Nat /\ l.epoch[1] \in Nat /\ u.epoch[1] \in Nat
    BY <1>2, <1>3, <1>5, LedgerParts, VersionOrder
  <2>2. \A k \in Copies : k.epoch[2] = Ctl => k.epoch[1] <= ledger[Ctl].epoch[1]
    BY <1>2, <1>9 DEF Foreseen
  <2>3. \A k \in Copies : k.epoch = u.epoch => FALSE
    BY <1>3, <1>5, <2>1, <2>2
  <2>4. l.epoch # u.epoch
    BY <1>5, <2>1
  <2> QED BY <2>3, <2>4
<1>10. ASSUME ~spent.rewound, NEW n \in Nodes, NEW mode \in Modes, NEW a, NEW b, Mode(mode, a, b),
              Line(mode, a, b, n, ledger[n], Copies)
      PROVE  Line(mode, a, b, n, IF n = Ctl THEN u ELSE ledger[n], Copies \cup {u})
  <2> DEFINE own == IF n = Ctl THEN l ELSE ledger[n]
  <2>1. Line(mode, a, b, n, own, S)
    BY <1>10 DEF Taken, Moves
  <2>2. own \in S /\ (n = Ctl => own = l)
    BY <1>2
  <2>3. Line(mode, a, b, n, IF n = Ctl THEN u ELSE own, S \cup {u})
    <3> HIDE DEF own, S
    <3>1. CASE n = Ctl
      BY <1>5, <1>8, <1>9, <1>10, <2>1, <2>2, <3>1, OwnFresh
    <3>2. CASE n # Ctl
      BY <1>5, <1>8, <1>9, <1>10, <2>1, <2>2, <3>2, FreshJoins
    <3> QED BY <3>1, <3>2
  <2> HIDE DEF own
  <2>4. Line(mode, a, b, n, IF n = Ctl THEN u ELSE own, Copies \cup {u})
    BY <2>3, FewerTrail DEF S
  <2> QED BY <2>4 DEF own
<1>11. \A n \in Nodes : Moves(n, Ctl, u)
  BY <1>10 DEF Moves
<1>12. KeepsOwn(Ctl, ledger[Ctl], u)
  <2>1. /\ ledger[Ctl].epoch \in Version /\ l.epoch \in Version /\ u.epoch \in Version
        /\ l.epoch = ledger[Ctl].epoch \/ Higher(l.epoch, ledger[Ctl].epoch)
    BY <1>2, <1>3, <1>5, LedgerParts DEF Taken, Advances
  <2>2. u.epoch # ledger[Ctl].epoch
    BY <1>5, <2>1, VersionOrder
  <2> QED BY <2>2 DEF KeepsOwn
<1>13. ASSUME NEW n \in Peers, n \in DOMAIN u.origins
       PROVE  \E k \in Copies : n \in DOMAIN k.origins /\ u.origins[n].rev <= k.origins[n].rev
  <2>1. CASE n = p /\ u.origins[n].rev = r.origins[n].rev
    <3>1. r.origins[n].rev \in Nat
      BY <1>2, <1>3, <2>1, LedgerParts, ComponentParts
    <3> QED BY <1>2, <2>1, <3>1
  <2>2. CASE n \in DOMAIN l.origins /\ u.origins[n].rev = l.origins[n].rev
    BY <2>2 DEF Taken
  <2> QED BY <1>5, <1>13, <2>1, <2>2
<1> QED BY <1>1, <1>4, <1>7, <1>11, <1>12, <1>13 DEF Taken

\* It starts with its own ledger.
LEMMA StartTaken ==
  ASSUME IInv
  PROVE  Taken(ledger[Ctl])
<1>1. /\ Good(ledger[Ctl], log, Resets, ledger, spent.rewound) /\ Ctl \in DOMAIN ledger[Ctl].origins
      /\ ledger[Ctl] \in Copies
  BY Ids, CopiesAre DEF IInv, LedgersOK
<1>2. ledger[Ctl].epoch[1] \in Nat /\ \A o \in DOMAIN ledger[Ctl].origins : ledger[Ctl].origins[o].rev \in Nat
  BY <1>1, LedgerParts, VersionOrder, ComponentParts DEF Good
<1>3. Rising(ledger[Ctl])
  BY <1>1, <1>2 DEF Rising, Good
<1>4. Advances(ledger[Ctl], ledger[Ctl]) /\ KeepsOwn(Ctl, ledger[Ctl], ledger[Ctl])
  BY DEF Advances, KeepsOwn
<1>5. \A n \in Nodes : Moves(n, Ctl, ledger[Ctl])
  <2>1. Copies \cup {ledger[Ctl]} = Copies
    BY <1>1
  <2> QED BY <2>1 DEF Moves
<1>6. \A n \in Peers : n \in DOMAIN ledger[Ctl].origins =>
       \E k \in Copies : n \in DOMAIN k.origins /\ ledger[Ctl].origins[n].rev <= k.origins[n].rev
  BY <1>1, <1>2
<1> QED BY <1>3, <1>4, <1>5, <1>6 DEF Taken

\* All of them (the loop of sync_token_usage_once).
LEMMA AbsorbedTaken ==
  ASSUME IInv
  PROVE  Taken(Absorbed)
<1> DEFINE N == Len(PeerOrder)
           P == {i \in 0..N : Taken(Absorbing[i])}
<1>0. N \in Nat
  BY UsageAssumption
<1>1. 0 \in P
  <2>1. Absorbing[0] = ledger[Ctl] /\ 0 \in 0..N
    BY <1>0, AbsorbingIs
  <2>2. Taken(ledger[Ctl])
    BY StartTaken
  <2> QED BY <2>1, <2>2
<1>2. ASSUME NEW i \in 1..N, i - 1 \in P PROVE i \in P
  <2>1. i \in 0..N /\ i # 0 /\ Taken(Absorbing[i - 1])
    BY <1>0, <1>2
  <2> DEFINE n == PeerOrder[i]
  <2>2. Absorbing[i] = IF n \in DOMAIN answers THEN Absorb(Absorbing[i - 1], answers[n], n)
                       ELSE Absorbing[i - 1]
    BY <2>1, AbsorbingIs
  <2> HIDE DEF n
  <2>3. Taken(Absorbing[i])
    BY <2>1, <2>2, MergeTaken, ReconcileTaken
  <2> QED BY <2>1, <2>3
<1>3. N \in P
  <2> HIDE DEF P
  <2>1. \A i \in 0..N : i \in P
    BY <1>0, <1>1, <1>2, Upto
  <2> QED BY <1>0, <2>1
<1> QED BY <1>3 DEF Absorbed

\* The merged ledger becomes the controller's, and what is pushed.
LEMMA PullsMove ==
  ASSUME IInv, MergePulls
  PROVE  Becomes(Ctl, Absorbed) /\ Taken(Absorbed) /\ ledger'[Ctl] = Absorbed /\ snap' = Absorbed
<1>1. Keep(Ctl, Absorbed) /\ snap' = Absorbed /\ answers' = <<>> /\ late' = late
  BY DEF MergePulls
<1>2. DOMAIN ledger = Nodes /\ Ctl \in Nodes
  BY Ids DEF IInv, RoundOK
<1>3. \A n \in Nodes : ledger'[n] = IF n = Ctl THEN Absorbed ELSE ledger[n]
  BY <1>1, <1>2 DEF Keep
<1>4. Copies' \subseteq Copies \cup {Absorbed}
  <2>1. DOMAIN answers' = {}
    BY <1>1
  <2> QED BY <1>1, <1>3, <2>1 DEF Copies
<1> QED BY <1>1, <1>2, <1>3, <1>4, AbsorbedTaken DEF Becomes

\* A peer takes ledger r in (agent_merge_token_usage); one that joins puts its own component in
\* place of the controller's copy first, and so keeps it.
LEMMA ServeMoves ==
  ASSUME IInv, NEW x \in Peers, NEW r \in Copies, NEW claimed \in BOOLEAN, Serve(x, r, claimed),
         answers' = answers, snap' = snap, late' \subseteq late
  PROVE  \E u :
           /\ Becomes(x, u) /\ IsLedger(u) /\ x \in DOMAIN u.origins
           /\ u.epoch = ledger[x].epoch \/ (u.epoch = r.epoch /\ Higher(r.epoch, ledger[x].epoch))
           /\ ~Higher(r.epoch, u.epoch)
           /\ \A n \in Nodes : n # x \/ ~claimed => Moves(n, x, u)
           /\ \A n \in Nodes : n # x /\ n \in DOMAIN u.origins =>
                \E k \in Copies : n \in DOMAIN k.origins /\ u.origins[n].rev = k.origins[n].rev
           /\ claimed => u.origins[x].rev = ledger[x].origins[x].rev /\ KeepsOwn(x, ledger[x], u)
           /\ ~claimed => \A mode \in Modes : \A m, v :
                Mode(mode, m, v) /\ Line(mode, m, v, x, ledger[x], Copies) => KeepsOwn(x, ledger[x], u)
<1> DEFINE l == ledger[x]
           p == IF claimed THEN Preserved(x, l, r) ELSE r
           u == Merge(x, l, p)
<1>1. Keep(x, u)
  BY DEF Serve
<1>2. /\ x \in Nodes /\ Ledgers(Copies) /\ l \in Copies /\ IsLedger(l) /\ x \in DOMAIN l.origins
      /\ \A n \in Nodes : ledger[n] \in Copies /\ IsLedger(ledger[n]) /\ n \in DOMAIN ledger[n].origins
      /\ IsLedger(r) /\ DOMAIN ledger = Nodes
  BY CopiesAre, Ids DEF Ledgers, IInv, RoundOK
<1>3. /\ IsLedger(p) /\ p.epoch = r.epoch /\ p.models = r.models
      /\ \A n \in Nodes : n # x => Alike(n, p, r)
      /\ claimed => x \in DOMAIN p.origins /\ p.origins[x].rev = l.origins[x].rev
      /\ ~claimed => p = r
  <2>1. CASE claimed
    <3> DEFINE q == Preserved(x, l, r)
    <3>1. /\ IsLedger(q) /\ q.epoch = r.epoch /\ q.models = r.models
          /\ DOMAIN q.origins = DOMAIN r.origins \cup {x}
          /\ \A o \in DOMAIN r.origins : o # x => q.origins[o] = r.origins[o]
          /\ q.origins[x].rev = l.origins[x].rev
      BY <1>2, PreservedIs
    <3>2. p = q
      BY <2>1
    <3> HIDE DEF p, q
    <3> QED BY <2>1, <3>1, <3>2 DEF Alike
  <2>2. CASE ~claimed
    <3>1. p = r
      BY <2>2
    <3> HIDE DEF p
    <3> QED BY <1>2, <2>2, <3>1 DEF Alike
  <2> QED BY <2>1, <2>2
<1> HIDE DEF p
<1>4. /\ IsLedger(u) /\ x \in DOMAIN u.origins
      /\ \/ /\ Higher(p.epoch, l.epoch) /\ u.epoch = p.epoch /\ u.models = p.models
            /\ \A o \in Nodes : o # x => Alike(o, u, p)
            /\ x \in DOMAIN p.origins => u.origins[x] = p.origins[x]
         \/ Higher(l.epoch, p.epoch) /\ u = l
         \/ \A o \in Nodes : Joins(o, u, l, p)
  BY <1>2, <1>3, MergeParts
<1>5. \A n \in Nodes : ledger'[n] = IF n = x THEN u ELSE ledger[n]
  BY <1>1, <1>2 DEF Keep
<1>6. Becomes(x, u)
  <2>1. Copies' \subseteq Copies \cup {u}
    BY <1>5 DEF Copies
  <2> QED BY <1>5, <2>1 DEF Becomes
<1>7. /\ u.epoch = l.epoch \/ (u.epoch = r.epoch /\ Higher(r.epoch, l.epoch))
      /\ ~Higher(r.epoch, u.epoch)
  <2>1. /\ l.epoch \in Version /\ r.epoch \in Version /\ ~Higher(r.epoch, r.epoch)
        /\ Higher(l.epoch, r.epoch) => ~Higher(r.epoch, l.epoch)
    BY <1>2, LedgerParts, VersionOrder
  <2> HIDE DEF u
  <2> QED BY <1>2, <1>3, <1>4, <2>1 DEF Joins
<1>8. ASSUME NEW n \in Nodes, n # x \/ ~claimed, NEW mode \in Modes, NEW a, NEW b, Mode(mode, a, b),
             Line(mode, a, b, n, ledger[n], Copies)
      PROVE  /\ Line(mode, a, b, n, IF n = x THEN u ELSE ledger[n], Copies \cup {u})
             /\ n = x => KeepsOwn(x, l, u)
  <2> DEFINE S == Copies \cup {p}
  <2>1. Line(mode, a, b, n, ledger[n], S)
    <3>1. CASE claimed
      BY <1>2, <1>3, <1>8, <3>1, AlikeJoins
    <3>2. CASE ~claimed
      <4>1. S = Copies
        BY <1>3, <3>2
      <4> QED BY <1>8, <4>1
    <3> QED BY <3>1, <3>2
  <2>2. Ledgers(S) /\ p \in S /\ l \in S /\ ledger[n] \in S
    BY <1>2, <1>3 DEF Ledgers
  <2> HIDE DEF S, u
  <2>3. /\ Line(mode, a, b, n, IF n = x THEN u ELSE ledger[n], S \cup {u})
        /\ n = x => KeepsOwn(n, l, u)
    BY <1>2, <1>8, <2>1, <2>2, MergeMoves DEF u
  <2>4. Line(mode, a, b, n, IF n = x THEN u ELSE ledger[n], Copies \cup {u})
    BY <2>3, FewerTrail DEF S
  <2> QED BY <2>3, <2>4
<1>9. \A n \in Nodes : n # x \/ ~claimed => Moves(n, x, u)
  BY <1>8 DEF Moves
<1>10. ASSUME NEW n \in Nodes, n # x, n \in DOMAIN u.origins
       PROVE  \E k \in Copies : n \in DOMAIN k.origins /\ u.origins[n].rev = k.origins[n].rev
  <2> HIDE DEF u
  <2>1. \/ n \in DOMAIN p.origins /\ u.origins[n] = p.origins[n]
        \/ n \in DOMAIN l.origins /\ u.origins[n] = l.origins[n]
    BY <1>4, <1>10 DEF Alike, Joins
  <2>2. n \in DOMAIN p.origins => n \in DOMAIN r.origins /\ p.origins[n] = r.origins[n]
    BY <1>3, <1>10 DEF Alike
  <2> QED BY <1>2, <2>1, <2>2
<1>11. ASSUME claimed PROVE u.origins[x].rev = l.origins[x].rev /\ KeepsOwn(x, l, u)
  <2>1. x \in DOMAIN p.origins /\ p.origins[x].rev = l.origins[x].rev /\ l.origins[x].rev \in Nat
    BY <1>2, <1>3, <1>11, LedgerParts, ComponentParts
  <2> HIDE DEF u
  <2>2. CASE /\ Higher(p.epoch, l.epoch) /\ u.epoch = p.epoch /\ u.models = p.models
             /\ \A o \in Nodes : o # x => Alike(o, u, p)
             /\ x \in DOMAIN p.origins => u.origins[x] = p.origins[x]
    <3>1. p.epoch # l.epoch
      BY <1>2, <1>3, <2>2, LedgerParts, VersionOrder
    <3> QED BY <2>1, <2>2, <3>1 DEF KeepsOwn
  <2>3. CASE Higher(l.epoch, p.epoch) /\ u = l
    BY <2>3 DEF KeepsOwn
  <2>4. CASE \A o \in Nodes : Joins(o, u, l, p)
    <3>1. u.origins[x] = l.origins[x]
      BY <1>2, <1>4, <2>1, <2>4 DEF Joins, Newer
    <3> QED BY <3>1 DEF KeepsOwn
  <2> QED BY <1>4, <2>2, <2>3, <2>4
<1>12. ~claimed => \A mode \in Modes : \A m, v :
         Mode(mode, m, v) /\ Line(mode, m, v, x, ledger[x], Copies) => KeepsOwn(x, ledger[x], u)
  BY <1>2, <1>8
<1> HIDE DEF u
<1> QED BY <1>4, <1>6, <1>7, <1>9, <1>10, <1>11, <1>12

(***************************************************************************)
(* Nobody loses what it served.                                            *)
(***************************************************************************)

\* A fault, or none, leaves the other events alone.
LEMMA FaultCounts ==
  ASSUME IInv, spent' = spent \/ spent' = [spent EXCEPT !.faults = @ + 1]
  PROVE  /\ spent'.erases = spent.erases /\ spent'.resets = spent.resets
         /\ spent'.lost = spent.lost /\ spent'.torn = spent.torn
<1>1. spent \in SpentType
  BY DEF IInv, HistoryOK
<1> QED BY <1>1 DEF SpentType

\* A merge after which some saves raised: their peers are not pushed to, the rounds since do not
\* count as undisturbed, and a first sync left out is one to be repeated.
LEMMA PullsSpend ==
  ASSUME IInv, MergePulls
  PROVE  /\ spent'.erases = spent.erases /\ spent'.resets = spent.resets /\ spent'.lost = spent.lost
         /\ asked' \subseteq DOMAIN answers /\ claims' = asked' \ reconciled
         /\ (calm' = calm /\ asked' = DOMAIN answers) \/ calm' = 0
         /\ spent.torn => spent'.torn
         /\ spent'.torn \/ DOMAIN answers \ reconciled \subseteq asked'
<1>1. PICK raised \in SUBSET Changing :
        LET dropped == {PeerOrder[i] : i \in raised} IN
        /\ asked' = DOMAIN answers \ dropped
        /\ claims' = DOMAIN answers \ (reconciled \cup dropped)
        /\ \/ raised = {} /\ spent' = spent /\ calm' = calm
           \/ /\ spent' = [spent EXCEPT !.faults = @ + 1, !.torn = @ \/ ~(dropped \subseteq reconciled)]
              /\ calm' = 0
  BY DEF MergePulls
<1> DEFINE dropped == {PeerOrder[i] : i \in raised}
           b == spent.torn \/ ~(dropped \subseteq reconciled)
<1>2. /\ asked' = DOMAIN answers \ dropped /\ claims' = DOMAIN answers \ (reconciled \cup dropped)
      /\ \/ dropped = {} /\ spent' = spent /\ calm' = calm
         \/ spent' = [spent EXCEPT !.faults = @ + 1, !.torn = b] /\ calm' = 0
  BY <1>1
<1>3. (spent.torn => b) /\ (b \/ dropped \subseteq reconciled)
  OBVIOUS
<1>4. spent \in SpentType
  BY DEF IInv, HistoryOK
<1> HIDE DEF dropped, b
<1>5. CASE dropped = {} /\ spent' = spent /\ calm' = calm
  BY <1>2, <1>5
<1>6. CASE spent' = [spent EXCEPT !.faults = @ + 1, !.torn = b] /\ calm' = 0
  <2>1. spent'.erases = spent.erases /\ spent'.resets = spent.resets
    BY <1>4, <1>6 DEF SpentType
  <2>2. spent'.lost = spent.lost
    BY <1>4, <1>6 DEF SpentType
  <2>3. spent'.torn = b
    BY <1>4, <1>6 DEF SpentType
  <2> QED BY <1>2, <1>3, <1>6, <2>1, <2>2, <2>3
<1> QED BY <1>2, <1>5, <1>6

\* A step that leaves the ledgers alone and brings up no other.
LEMMA QuietMoves ==
  ASSUME IInv, \A n \in Nodes : ledger'[n] = ledger[n], Copies' \subseteq Copies
  PROVE  \E x \in Nodes : /\ Becomes(x, ledger[x])
                          /\ \A n \in Nodes : Moves(n, x, ledger[x])
<1>1. Ctl \in Nodes /\ ledger[Ctl] \in Copies
  BY Ids, CopiesAre
<1>2. Copies \cup {ledger[Ctl]} = Copies
  BY <1>1
<1>3. Becomes(Ctl, ledger[Ctl])
  BY <1>1, <1>2 DEF Becomes
<1>4. \A n \in Nodes : Moves(n, Ctl, ledger[Ctl])
  BY <1>1, <1>2 DEF Moves
<1> QED BY <1>1, <1>3, <1>4

\* Of a node in the cluster from the start: as long as no record was lost and no more than
\* one model was erased, its copies trail its own ledger.
OldStands ==
  ~spent.lost /\ spent.erases <= 1 =>
    \E mode \in {"equal", "erased"}, m \in Models \cup {Never}, v \in Version :
      /\ Mode(mode, m, v) /\ (spent.erases = 0 => mode = "equal")
      /\ \A n \in Joined \cup {Ctl} : Line(mode, m, v, n, ledger[n], Copies)

\* A step that counts no erase and moves no standing keeps that.
LEMMA OldBecomes ==
  ASSUME IInv, OldStands, NEW x, NEW u, Becomes(x, u), \A n \in Joined \cup {Ctl} : Moves(n, x, u),
         spent'.erases = spent.erases, spent.lost => spent'.lost
  PROVE  OldStands'
<1> SUFFICES ASSUME ~spent'.lost, spent'.erases <= 1
             PROVE  \E mode \in {"equal", "erased"}, m \in Models \cup {Never}, v \in Version :
                      /\ Mode(mode, m, v) /\ (spent'.erases = 0 => mode = "equal")
                      /\ \A n \in Joined \cup {Ctl} : Line(mode, m, v, n, ledger'[n], Copies')
  BY DEF OldStands
<1>1. PICK mode \in {"equal", "erased"}, m \in Models \cup {Never}, v \in Version :
        /\ Mode(mode, m, v) /\ (spent.erases = 0 => mode = "equal")
        /\ \A n \in Joined \cup {Ctl} : Line(mode, m, v, n, ledger[n], Copies)
  BY DEF OldStands
<1>2. ASSUME NEW n \in Joined \cup {Ctl} PROVE Line(mode, m, v, n, ledger'[n], Copies')
  <2>1. n \in Nodes /\ mode \in Modes
    BY Ids DEF Modes
  <2>2. ~spent.rewound
    BY NotRewound
  <2> QED BY <1>1, <2>1, <2>2, LineBecomes
<1> QED BY <1>1, <1>2

\* The first erase; after a second one nothing is claimed.
LEMMA OldErases ==
  ASSUME IInv, OldStands, NEW x \in Nodes, NEW a \in Models, Erase(x, a)
  PROVE  OldStands'
<1>1. spent.erases \in Nat /\ spent'.erases = spent.erases + 1 /\ spent'.lost = spent.lost
  BY DEF Erase, IInv, HistoryOK, SpentType
<1> SUFFICES ASSUME ~spent.lost, spent.erases = 0
             PROVE  \E v \in Version :
                      \A n \in Joined \cup {Ctl} : Line("erased", a, v, n, ledger'[n], Copies')
  BY <1>1 DEF OldStands, Mode
<1>2. PICK m, v : \A n \in Joined \cup {Ctl} : Line("equal", m, v, n, ledger[n], Copies)
  BY DEF OldStands
<1>3. PICK u, w : Becomes(x, u) /\ IsLedger(u) /\ w \in Version /\ Erased(u, ledger[x], a, w)
  BY EraseMoves
<1>4. ASSUME NEW n \in Joined \cup {Ctl} PROVE Line("erased", a, w, n, ledger'[n], Copies')
  <2>1. /\ n \in Nodes /\ Ledgers(Copies) /\ ledger[n] \in Copies /\ n \in DOMAIN ledger[n].origins
        /\ ledger[x] \in Copies
    BY Ids, CopiesAre
  <2>2. Line("erased", a, w, n, IF n = x THEN u ELSE ledger[n], Copies \cup {u})
    BY <1>2, <1>3, <2>1, EraseJoins, OwnErased
  <2> QED BY <1>3, <2>1, <2>2, FewerTrail DEF Becomes
<1> QED BY <1>3, <1>4

\* The controller's epoch leads.
CtlLeads == \A k \in Copies : ~Higher(k.epoch, ledger[Ctl].epoch)

\* A peer that joined later: the pushes to it, and its standing.  Until its first sync is
\* confirmed, nobody has a newer copy of its component; from then on its copies trail.
PushesTo(n) ==
  /\ phase = "push" /\ n \in asked \cup confirmed => n \in claims \cup reconciled
  /\ n \in claims \cap confirmed => ledger[n].epoch = ledger[Ctl].epoch
  /\ \A p \in late : p.to = n =>
       IF p.claimed THEN n \in reconciled => ~Higher(p.ledger.epoch, ledger[n].epoch)
       ELSE n \in reconciled

Standing(n) ==
  IF n \in reconciled THEN Line("plain", Never, Never, n, ledger[n], Copies)
  ELSE \A k \in Copies : n \in DOMAIN k.origins => k.origins[n].rev <= ledger[n].origins[n].rev

RoundFollows ==
  /\ phase = "push" => snap.epoch = ledger[Ctl].epoch
  /\ claims \cap reconciled = {}
  /\ phase # "push" => claims = {} /\ confirmed = {}

Undisturbed == ~spent.lost /\ spent.erases = 0 /\ spent.resets = 0

NewStands ==
  Undisturbed => CtlLeads /\ RoundFollows /\ \A n \in Peers \ Joined : PushesTo(n) /\ Standing(n)

\* Without resets a node's epoch changes only to one it was pushed, which is not above the
\* controller's.
LEMMA LeadsOn ==
  ASSUME IInv, CtlLeads, NEW x \in Nodes, NEW u, Becomes(x, u), IsLedger(u),
         u.epoch = ledger[x].epoch \/ Higher(u.epoch, ledger[x].epoch),
         x # Ctl => ~Higher(u.epoch, ledger[Ctl].epoch)
  PROVE  CtlLeads'
<1>1. /\ Ctl \in Nodes /\ ledger[Ctl].epoch \in Version /\ u.epoch \in Version
      /\ \A k \in Copies : k.epoch \in Version
  BY Ids, CopiesAre, LedgerParts DEF Ledgers
<1>2. ledger'[Ctl] = IF Ctl = x THEN u ELSE ledger[Ctl]
  BY <1>1 DEF Becomes
<1>3. ASSUME NEW k \in Copies PROVE ~Higher(k.epoch, ledger'[Ctl].epoch)
  <2>1. ~Higher(k.epoch, ledger[Ctl].epoch)
    BY DEF CtlLeads
  <2>2. Higher(u.epoch, ledger[Ctl].epoch) => ~Higher(k.epoch, u.epoch)
    BY <1>1, <2>1, VersionOrder
  <2> QED BY <1>2, <2>1, <2>2
<1>4. ~Higher(u.epoch, ledger'[Ctl].epoch)
  BY <1>1, <1>2, VersionOrder
<1> QED BY <1>3, <1>4 DEF CtlLeads, Becomes

\* A step that touches the peer's component as the protocol means it to keeps its standing.
LEMMA StandingStays ==
  ASSUME IInv, ~spent.rewound, NEW n \in Peers, Standing(n), reconciled' = reconciled,
         NEW x \in Nodes, NEW u, Becomes(x, u), IsLedger(u), x \in DOMAIN u.origins,
         n \in reconciled =>
           \/ Moves(n, x, u)
           \/ n = x /\ u.epoch = ledger[x].epoch /\ u.origins[x].rev = ledger[x].origins[x].rev,
         n \notin reconciled =>
           /\ n = x => ledger[x].origins[x].rev <= u.origins[x].rev
           /\ n # x /\ n \in DOMAIN u.origins =>
                \E k \in Copies : n \in DOMAIN k.origins /\ u.origins[n].rev <= k.origins[n].rev
  PROVE  Standing(n)'
<1>1. /\ n \in Nodes /\ Ledgers(Copies) /\ ledger[n] \in Copies /\ n \in DOMAIN ledger[n].origins
      /\ ledger[x] \in Copies /\ x \in DOMAIN ledger[x].origins
  BY Ids, CopiesAre
<1>2. ledger'[n] = (IF n = x THEN u ELSE ledger[n]) /\ Copies' \subseteq Copies \cup {u}
  BY <1>1 DEF Becomes
<1>3. CASE n \in reconciled
  <2>0. Line("plain", Never, Never, n, ledger[n], Copies)
    BY <1>3 DEF Standing
  <2>1. CASE Moves(n, x, u)
    <3>1. Line("plain", Never, Never, n, IF n = x THEN u ELSE ledger[n], Copies \cup {u})
      BY <2>0, <2>1 DEF Moves, Modes, Mode
    <3> QED BY <1>2, <1>3, <3>1, FewerTrail DEF Standing
  <2>2. CASE n = x /\ u.epoch = ledger[x].epoch /\ u.origins[x].rev = ledger[x].origins[x].rev
    <3>1. ASSUME NEW j \in Copies, j.epoch = u.epoch PROVE Trails("plain", Never, Never, n, u, j)
      <4>1. Trails("plain", Never, Never, n, ledger[n], j)
        BY <1>1, <2>0, <2>2, <3>1 DEF Line, AllTrail
      <4> QED BY <2>2, <4>1 DEF Trails
    <3>2. AllTrail("plain", Never, Never, n, u, Copies \cup {u})
      BY <1>1, <2>0, <2>2, <3>1, OwnMoves DEF Modes, Mode
    <3>3. Line("plain", Never, Never, n, u, Copies \cup {u})
      BY <3>2 DEF Line, SameVersions, Carried
    <3> QED BY <1>2, <1>3, <2>2, <3>3, FewerTrail DEF Standing
  <2> QED BY <1>3, <2>1, <2>2
<1>4. CASE n \notin reconciled
  <2>1. /\ \A k \in Copies \cup {u} : \A o \in DOMAIN k.origins : k.origins[o].rev \in Nat
        /\ \A k \in Copies : n \in DOMAIN k.origins => k.origins[n].rev <= ledger[n].origins[n].rev
    BY <1>1, <1>4, LedgerParts, ComponentParts DEF Ledgers, Standing
  <2>2. ledger'[n].origins[n].rev \in Nat /\ ledger[n].origins[n].rev <= ledger'[n].origins[n].rev
    BY <1>1, <1>2, <1>4, <2>1
  <2>3. ASSUME NEW k \in Copies \cup {u}, n \in DOMAIN k.origins
        PROVE  k.origins[n].rev <= ledger'[n].origins[n].rev
    <3>1. CASE k \in Copies
      BY <1>1, <2>1, <2>2, <2>3, <3>1
    <3>2. CASE k = u /\ n = x
      BY <1>2, <2>2, <3>2
    <3>3. CASE k = u /\ n # x
      <4>1. PICK j \in Copies : n \in DOMAIN j.origins /\ u.origins[n].rev <= j.origins[n].rev
        BY <1>4, <2>3, <3>3
      <4>2. j.origins[n].rev <= ledger[n].origins[n].rev
        BY <2>1, <4>1
      <4>3. j.origins[n].rev \in Nat /\ u.origins[n].rev \in Nat /\ ledger[n].origins[n].rev \in Nat
        BY <1>1, <2>1, <2>3, <3>3, <4>1
      <4> QED BY <2>2, <3>3, <4>1, <4>2, <4>3
    <3> QED BY <2>3, <3>1, <3>2, <3>3
  <2> QED BY <1>2, <1>4, <2>3 DEF Standing
<1> QED BY <1>3, <1>4

\* What a node loses of its own is put down to the erases, the resets and the lost records.
Excused(n) ==
  \/ IF n \in Joined \cup {Ctl} THEN spent'.erases > 1 ELSE spent'.erases + spent'.resets > 0
  \/ spent'.lost

AllKeep == \A n \in Nodes : Excused(n) \/ KeepsOwn(n, ledger[n], ledger'[n])

\* A ledger that stays as it is keeps what it counts.
LEMMA KeepsItself ==
  ASSUME NEW n, NEW l
  PROVE  KeepsOwn(n, l, l)
BY DEF KeepsOwn

\* A step that leaves the ledgers alone and pulls, pushes or gives up only copies of those there are.
LEMMA CopiesShrink ==
  ASSUME IInv, \A n \in Nodes : ledger'[n] = ledger[n], snap' \in Copies,
         \A x \in DOMAIN answers' : answers'[x] \in Copies, \A p \in late' : p.ledger \in Copies
  PROVE  Copies' \subseteq Copies
<1>1. \A x \in Nodes : ledger'[x] \in Copies
  BY CopiesAre
<1>2. Fresh({})' = Fresh({}) /\ Fresh({}) \in Copies
  BY CopiesAre
<1> QED BY <1>1, <1>2 DEF Copies

\* Steps that leave the ledgers alone.
LEMMA QuietKeeps ==
  ASSUME IInv, OldStands, \A n \in Nodes : ledger'[n] = ledger[n], Copies' \subseteq Copies,
         spent'.erases = spent.erases, spent.lost => spent'.lost
  PROVE  /\ OldStands' /\ AllKeep
         /\ CtlLeads => CtlLeads'
         /\ \A n \in Peers : Standing(n) /\ (n \in reconciled <=> n \in reconciled') => Standing(n)'
<1>1. OldStands'
  <2>1. PICK x \in Nodes : Becomes(x, ledger[x]) /\ \A n \in Nodes : Moves(n, x, ledger[x])
    BY QuietMoves
  <2>2. \A n \in Joined \cup {Ctl} : n \in Nodes
    BY Ids
  <2> QED BY <2>1, <2>2, OldBecomes
<1>2. AllKeep
  BY KeepsItself DEF AllKeep
<1>3. CtlLeads => CtlLeads'
  BY Ids DEF CtlLeads
<1>4. ASSUME NEW n \in Peers, Standing(n), n \in reconciled <=> n \in reconciled' PROVE Standing(n)'
  BY <1>4, Ids, FewerTrail DEF Standing
<1> QED BY <1>1, <1>2, <1>3, <1>4

\* The controller opens a round (sync_token_usage_once).
LEMMA StartRoundKeeps ==
  ASSUME IInv, OldStands, NewStands, StartRound
  PROVE  OldStands' /\ NewStands' /\ AllKeep
<1>1. /\ ledger' = ledger /\ answers' = answers /\ snap' = snap /\ late' = late /\ spent' = spent
      /\ reconciled' = reconciled /\ claims' = claims /\ confirmed' = confirmed
      /\ phase # "push" /\ phase' # "push"
  BY DEF StartRound
<1>2. Copies' \subseteq Copies
  BY <1>1, CopiesAre, CopiesShrink
<1>3. /\ OldStands' /\ AllKeep
      /\ CtlLeads => CtlLeads'
      /\ \A n \in Peers : Standing(n) /\ (n \in reconciled <=> n \in reconciled') => Standing(n)'
  BY <1>1, <1>2, QuietKeeps
<1>4. NewStands'
  BY <1>1, <1>3 DEF NewStands, Undisturbed, RoundFollows, PushesTo
<1> QED BY <1>3, <1>4

\* A peer answers with a copy of its ledger.
LEMMA AnswerPullKeeps ==
  ASSUME IInv, OldStands, NewStands, NEW n \in Peers, AnswerPull(n)
  PROVE  OldStands' /\ NewStands' /\ AllKeep
<1>1. /\ ledger' = ledger /\ answers' = Put(answers, n, ledger[n]) /\ snap' = snap /\ late' = late /\ spent' = spent
      /\ reconciled' = reconciled /\ claims' = claims /\ confirmed' = confirmed
      /\ phase # "push" /\ phase' = phase
  BY DEF AnswerPull
<1>2. Copies' \subseteq Copies
  <2>1. \A x \in DOMAIN answers' : answers'[x] \in Copies
    <3>1. n \in Nodes /\ ledger[n] \in Copies
      BY Ids, CopiesAre
    <3> QED BY <1>1, <3>1, CopiesAre DEF Put
  <2> QED BY <1>1, <2>1, CopiesAre, CopiesShrink
<1>3. /\ OldStands' /\ AllKeep
      /\ CtlLeads => CtlLeads'
      /\ \A o \in Peers : Standing(o) /\ (o \in reconciled <=> o \in reconciled') => Standing(o)'
  BY <1>1, <1>2, QuietKeeps
<1>4. NewStands'
  BY <1>1, <1>3 DEF NewStands, Undisturbed, RoundFollows, PushesTo
<1> QED BY <1>3, <1>4

\* A peer that does not answer is left out of the round.
LEMMA FailPullKeeps ==
  ASSUME IInv, OldStands, NewStands, NEW n \in Peers, FailPull(n)
  PROVE  OldStands' /\ NewStands' /\ AllKeep
<1>1. /\ ledger' = ledger /\ answers' = answers /\ snap' = snap /\ late' = late
      /\ spent' = [spent EXCEPT !.faults = @ + 1]
      /\ reconciled' = reconciled /\ claims' = claims /\ confirmed' = confirmed
      /\ phase # "push" /\ phase' = phase
  BY DEF FailPull
<1>2. Copies' \subseteq Copies
  BY <1>1, CopiesAre, CopiesShrink
<1>0. spent'.erases = spent.erases /\ spent'.resets = spent.resets /\ spent'.lost = spent.lost
  BY <1>1 DEF IInv, HistoryOK, SpentType
<1>3. /\ OldStands' /\ AllKeep
      /\ CtlLeads => CtlLeads'
      /\ \A o \in Peers : Standing(o) /\ (o \in reconciled <=> o \in reconciled') => Standing(o)'
  BY <1>0, <1>1, <1>2, QuietKeeps
<1>4. NewStands'
  BY <1>0, <1>1, <1>3 DEF NewStands, Undisturbed, RoundFollows, PushesTo
<1> QED BY <1>3, <1>4

\* A push that timed out may still arrive: the copy it carries stays among those there are.
LEMMA TimeoutPushKeeps ==
  ASSUME IInv, OldStands, NewStands, NEW n \in Peers, TimeoutPush(n)
  PROVE  OldStands' /\ NewStands' /\ AllKeep
<1> DEFINE p == [to |-> n, ledger |-> snap, claimed |-> n \in claims]
<1>1. /\ ledger' = ledger /\ answers' = answers /\ snap' = snap /\ late' = late \cup {p}
      /\ spent' = [spent EXCEPT !.faults = @ + 1]
      /\ reconciled' = reconciled /\ claims' = claims /\ confirmed' = confirmed
      /\ phase = "push" /\ phase' = phase /\ n \in asked /\ asked' = asked \ {n}
  BY DEF TimeoutPush
<1>2. p.to = n /\ p.ledger = snap /\ (p.claimed <=> n \in claims)
  OBVIOUS
<1> HIDE DEF p
<1>3. Copies' \subseteq Copies
  BY <1>1, <1>2, CopiesAre, CopiesShrink
<1>0. spent'.erases = spent.erases /\ spent'.resets = spent.resets /\ spent'.lost = spent.lost
  BY <1>1 DEF IInv, HistoryOK, SpentType
<1>4. /\ OldStands' /\ AllKeep
      /\ CtlLeads => CtlLeads'
      /\ \A o \in Peers : Standing(o) /\ (o \in reconciled <=> o \in reconciled') => Standing(o)'
  BY <1>0, <1>1, <1>3, QuietKeeps
<1>5. NewStands'
  <2> SUFFICES ASSUME Undisturbed, CtlLeads, RoundFollows, \A o \in Peers \ Joined : PushesTo(o) /\ Standing(o)
               PROVE  RoundFollows' /\ \A o \in Peers \ Joined : PushesTo(o)'
    BY <1>0, <1>1, <1>4 DEF NewStands, Undisturbed
  <2>1. RoundFollows'
    BY <1>1 DEF RoundFollows
  <2>2. ASSUME NEW o \in Peers \ Joined PROVE PushesTo(o)'
    <3>1. PushesTo(o)
      OBVIOUS
    <3>2. p.to = o => IF p.claimed THEN o \notin reconciled ELSE o \in reconciled
      BY <1>1, <1>2, <3>1 DEF PushesTo, RoundFollows
    <3> QED BY <1>1, <3>1, <3>2 DEF PushesTo
  <2> QED BY <2>1, <2>2
<1> QED BY <1>4, <1>5

\* A peer confirmed under its first sync is at the controller's epoch with its own
\* component the newest there is: from now on its copies trail (usage_reconciled is set).
LEMMA EndRoundKeeps ==
  ASSUME IInv, OldStands, NewStands, EndRound
  PROVE  OldStands' /\ NewStands' /\ AllKeep
<1>1. /\ ledger' = ledger /\ answers' = answers /\ snap' = Fresh({}) /\ late' = late
      /\ spent' = [spent EXCEPT !.torn = @ \/ ~(claims \subseteq confirmed)]
      /\ reconciled' = reconciled \cup (claims \cap confirmed) /\ claims' = {} /\ confirmed' = {}
      /\ phase = "push" /\ phase' = "idle"
  BY DEF EndRound
<1>2. Copies' \subseteq Copies
  BY <1>1, CopiesAre, CopiesShrink
<1>0. spent'.erases = spent.erases /\ spent'.resets = spent.resets /\ spent'.lost = spent.lost
  BY <1>1 DEF IInv, HistoryOK, SpentType
<1>3. /\ OldStands' /\ AllKeep
      /\ CtlLeads => CtlLeads'
      /\ \A o \in Peers : Standing(o) /\ (o \in reconciled <=> o \in reconciled') => Standing(o)'
  BY <1>0, <1>1, <1>2, QuietKeeps
<1>4. NewStands'
  <2> SUFFICES ASSUME Undisturbed, CtlLeads, RoundFollows, \A o \in Peers \ Joined : PushesTo(o) /\ Standing(o)
               PROVE  RoundFollows' /\ \A o \in Peers \ Joined : PushesTo(o)' /\ Standing(o)'
    BY <1>0, <1>1, <1>3 DEF NewStands, Undisturbed
  <2>1. RoundFollows'
    BY <1>1 DEF RoundFollows
  <2>2. ASSUME NEW o \in Peers \ Joined PROVE PushesTo(o)' /\ Standing(o)'
    <3>1. PushesTo(o) /\ Standing(o)
      OBVIOUS
    <3>2. CASE o \in reconciled \/ o \notin claims \cap confirmed
      <4>1. Standing(o)'
        BY <1>1, <1>3, <3>1, <3>2
      <4> QED BY <1>1, <3>1, <3>2, <4>1 DEF PushesTo
    <3>3. CASE o \notin reconciled /\ o \in claims \cap confirmed
      <4>1. /\ ledger[o].epoch = ledger[Ctl].epoch
            /\ \A k \in Copies : ~Higher(k.epoch, ledger[o].epoch)
        BY <3>1, <3>3 DEF PushesTo, CtlLeads
      <4>2. \A p \in late : p.to = o => p.claimed /\ ~Higher(p.ledger.epoch, ledger[o].epoch)
        BY <3>1, <3>3, <4>1, CopiesAre DEF PushesTo
      <4>3. PushesTo(o)'
        BY <1>1, <4>2 DEF PushesTo
      <4>4. Line("plain", Never, Never, o, ledger[o], Copies)
        <5>1. /\ ledger[o] \in Copies /\ o \in DOMAIN ledger[o].origins
              /\ \A k \in Copies : \A x \in DOMAIN k.origins : k.origins[x].rev \in Nat
          BY Ids, CopiesAre, LedgerParts, ComponentParts DEF Ledgers
        <5>2. \A k \in Copies : o \in DOMAIN k.origins => k.origins[o].rev <= ledger[o].origins[o].rev
          BY <3>1, <3>3 DEF Standing
        <5>3. \A k, j \in Copies : k.epoch = j.epoch /\ (k = ledger[o] \/ Higher(k.epoch, ledger[o].epoch))
                                     => Trails("plain", Never, Never, o, k, j)
          <6>1. \A j \in Copies : Trails("plain", Never, Never, o, ledger[o], j)
            BY <5>1, <5>2 DEF Trails
          <6> QED BY <4>1, <6>1
        <5> QED BY <5>3 DEF Line, AllTrail, SameVersions, Carried
      <4>5. Standing(o)'
        BY <1>1, <1>2, <3>3, <4>4, FewerTrail DEF Standing
      <4> QED BY <4>3, <4>5
    <3> QED BY <3>2, <3>3
  <2> QED BY <2>1, <2>2
<1> QED BY <1>3, <1>4

\* What a restart counts.
LEMMA RestartSpends ==
  ASSUME IInv, NEW n \in Nodes, Restart(n)
  PROVE  /\ spent'.erases = spent.erases /\ spent'.resets = spent.resets
         /\ spent'.lost = (spent.lost \/ disk[n] # ledger[n])
         /\ spent'.torn = (spent.torn \/ (n = Ctl /\ claims # {}))
<1> DEFINE a == spent.lost \/ disk[n] # ledger[n]
           b == spent.torn \/ (n = Ctl /\ claims # {})
           c == spent.rewound \/ disk[n].epoch # ledger[n].epoch
<1>1. spent' = [spent EXCEPT !.faults = @ + 1, !.lost = a, !.rewound = c, !.torn = b]
  BY DEF Restart
<1>2. spent \in SpentType
  BY DEF IInv, HistoryOK
<1> HIDE DEF a, b, c
<1>3. spent'.erases = spent.erases /\ spent'.resets = spent.resets
  BY <1>1, <1>2 DEF SpentType
<1>4. spent'.lost = a
  BY <1>1, <1>2 DEF SpentType
<1>5. spent'.torn = b
  BY <1>1, <1>2 DEF SpentType
<1> QED BY <1>3, <1>4, <1>5 DEF a, b

\* A node that starts again from the ledger it saved; the controller gives up its round.
LEMMA RestartKeeps ==
  ASSUME IInv, OldStands, NewStands, NEW n \in Nodes, Restart(n)
  PROVE  OldStands' /\ NewStands' /\ AllKeep
<1>0. /\ spent'.erases = spent.erases /\ spent'.resets = spent.resets
      /\ spent'.lost = (spent.lost \/ disk[n] # ledger[n])
  BY RestartSpends
<1>1. CASE spent.lost \/ disk[n] # ledger[n]
  BY <1>0, <1>1 DEF OldStands, NewStands, Undisturbed, AllKeep, Excused
<1>2. CASE ~spent.lost /\ disk[n] = ledger[n]
  <2>0. \A o \in Nodes : ledger'[o] = ledger[o]
    BY <1>2 DEF Restart, IInv, RoundOK
  <2>1. /\ reconciled' = reconciled /\ late' = late
        /\ \/ /\ phase' = "idle" /\ answers' = <<>> /\ snap' = Fresh({}) /\ claims' = {} /\ confirmed' = {}
           \/ /\ phase' = phase /\ answers' = answers /\ snap' = snap
              /\ claims' = claims /\ confirmed' = confirmed /\ asked' = asked
    BY DEF Restart, round
  <2>2. Copies' \subseteq Copies
    <3>1. snap' \in Copies /\ \A x \in DOMAIN answers' : answers'[x] \in Copies
      BY <2>1, CopiesAre
    <3> QED BY <2>0, <2>1, <3>1, CopiesAre, CopiesShrink
  <2>3. /\ OldStands' /\ AllKeep
        /\ CtlLeads => CtlLeads'
        /\ \A o \in Peers : Standing(o) /\ (o \in reconciled <=> o \in reconciled') => Standing(o)'
    BY <1>0, <2>0, <2>2, QuietKeeps
  <2>4. NewStands'
    BY <1>0, <2>0, <2>1, Ids, <2>3 DEF NewStands, Undisturbed, RoundFollows, PushesTo
  <2> QED BY <2>3, <2>4
<1> QED BY <1>1, <1>2

\* A reset (reset_token_stats) starts an epoch of its own; nothing is claimed of what it drops.
LEMMA ResetKeeps ==
  ASSUME IInv, OldStands, NewStands, NEW x \in Nodes, Reset(x)
  PROVE  OldStands' /\ NewStands' /\ AllKeep
<1>0. spent'.erases = spent.erases /\ spent'.resets > 0 /\ spent'.lost = spent.lost
  <2> DEFINE e == <<ledger[x].epoch[1] + 1, x>>
  <2>1. spent' = [spent EXCEPT !.resets = @ + 1, !.epochs = @ \cup {e}]
    BY DEF Reset
  <2>2. spent \in SpentType
    BY DEF IInv, HistoryOK
  <2> HIDE DEF e
  <2> QED BY <2>1, <2>2 DEF SpentType
<1>1. PICK u : Becomes(x, u) /\ (\A n \in Nodes : Moves(n, x, u)) /\ u.epoch # ledger[x].epoch
  BY ResetMoves
<1>2. OldStands'
  BY <1>0, <1>1, Ids, OldBecomes
<1>3. NewStands'
  BY <1>0 DEF NewStands, Undisturbed
<1>4. AllKeep
  <2>1. ASSUME NEW n \in Nodes PROVE KeepsOwn(n, ledger[n], ledger'[n])
    <3>1. ledger'[n] = IF n = x THEN u ELSE ledger[n]
      BY <1>1 DEF Becomes
    <3> QED BY <1>1, <3>1 DEF KeepsOwn
  <2> QED BY <2>1 DEF AllKeep
<1> QED BY <1>2, <1>3, <1>4

\* The first erase of a model (erase_usage_model) leaves the other models' counts where they were.
LEMMA EraseKeeps ==
  ASSUME IInv, OldStands, NewStands, NEW x \in Nodes, NEW a \in Models, Erase(x, a)
  PROVE  OldStands' /\ NewStands' /\ AllKeep
<1>0. spent'.erases > 0
  BY DEF Erase, IInv, HistoryOK, SpentType
<1>1. OldStands' /\ NewStands'
  BY <1>0, OldErases DEF NewStands, Undisturbed
<1>2. PICK u, v : Becomes(x, u) /\ IsLedger(u) /\ v \in Version /\ Erased(u, ledger[x], a, v)
  BY EraseMoves
<1>3. /\ IsLedger(ledger[x]) /\ x \in DOMAIN ledger[x].origins /\ ledger[x].models[a] \in Version
  BY CopiesAre, LedgerParts
<1>4. u.models[a] # ledger[x].models[a]
  BY <1>2, <1>3, VersionOrder DEF Erased
<1>5. KeepsOwn(x, ledger[x], u)
  <2> SUFFICES ASSUME NEW y \in Models, u.models[y] = ledger[x].models[y],
                      ledger[x].origins[x].stamp[y] = ledger[x].models[y]
               PROVE  /\ u.origins[x].stamp[y] = ledger[x].models[y]
                      /\ ledger[x].origins[x].total[y] \subseteq u.origins[x].total[y]
    BY DEF KeepsOwn
  <2>1. y \in Models \ {a}
    BY <1>4
  <2> QED BY <1>2, <1>3, <2>1 DEF Erased
<1>6. AllKeep
  <2>1. ASSUME NEW n \in Nodes PROVE KeepsOwn(n, ledger[n], ledger'[n])
    <3>1. ledger'[n] = IF n = x THEN u ELSE ledger[n]
      BY <1>2 DEF Becomes
    <3> QED BY <1>5, <3>1, KeepsItself
  <2> QED BY <2>1 DEF AllKeep
<1> QED BY <1>1, <1>6

\* A request recorded (_record_tokens) raises the node's own revision above every copy of it.
LEMMA RecordKeeps ==
  ASSUME IInv, OldStands, NewStands, NEW x \in Nodes, NEW m \in Models, Record(x, m)
  PROVE  OldStands' /\ NewStands' /\ AllKeep
<1>0. spent'.erases = spent.erases /\ spent'.resets = spent.resets /\ spent'.lost = spent.lost
  BY DEF Record, IInv, HistoryOK, SpentType
<1>1. PICK u :
        /\ Becomes(x, u) /\ IsLedger(u) /\ u.epoch = ledger[x].epoch /\ u.models = ledger[x].models
        /\ \A n \in Nodes : Moves(n, x, u)
        /\ \A n \in Nodes : n # x /\ n \in DOMAIN u.origins =>
             n \in DOMAIN ledger[x].origins /\ u.origins[n].rev = ledger[x].origins[n].rev
        /\ x \in DOMAIN u.origins /\ u.origins[x].rev = ledger[x].origins[x].rev + 1
        /\ KeepsOwn(x, ledger[x], u)
  BY RecordMoves
<1>2. OldStands'
  BY <1>0, <1>1, Ids, OldBecomes
<1>3. AllKeep
  <2>1. ASSUME NEW n \in Nodes PROVE KeepsOwn(n, ledger[n], ledger'[n])
    <3>1. ledger'[n] = IF n = x THEN u ELSE ledger[n]
      BY <1>1 DEF Becomes
    <3> QED BY <1>1, <3>1, KeepsItself
  <2> QED BY <2>1 DEF AllKeep
<1>4. NewStands'
  <2> SUFFICES ASSUME Undisturbed, CtlLeads, RoundFollows, \A o \in Peers \ Joined : PushesTo(o) /\ Standing(o)
               PROVE  CtlLeads' /\ RoundFollows' /\ \A o \in Peers \ Joined : PushesTo(o)' /\ Standing(o)'
    BY <1>0 DEF NewStands, Undisturbed
  <2>0. ~spent.rewound
    BY NotRewound DEF Undisturbed
  <2>1. /\ snap' = snap /\ late' = late /\ reconciled' = reconciled /\ claims' = claims
        /\ confirmed' = confirmed /\ phase' = phase /\ asked' = asked
    BY DEF Record, round
  <2>2. \A n \in Nodes : ledger'[n].epoch = ledger[n].epoch
    BY <1>1 DEF Becomes
  <2>3. /\ ledger[x] \in Copies /\ x \in DOMAIN ledger[x].origins
        /\ \A o \in DOMAIN ledger[x].origins : ledger[x].origins[o].rev \in Nat
        /\ Ctl \in Nodes /\ \A o \in Peers : o \in Nodes
    BY Ids, CopiesAre, LedgerParts, ComponentParts
  <2>4. CtlLeads'
    BY <1>1, <2>2, <2>3, LeadsOn DEF CtlLeads
  <2>5. RoundFollows'
    BY <2>1, <2>2, <2>3 DEF RoundFollows
  <2>6. ASSUME NEW o \in Peers \ Joined PROVE PushesTo(o)' /\ Standing(o)'
    <3>1. PushesTo(o)'
      <4>1. PushesTo(o) /\ ledger'[o].epoch = ledger[o].epoch /\ ledger'[Ctl].epoch = ledger[Ctl].epoch
        BY <2>2, <2>3
      <4> QED BY <2>1, <4>1 DEF PushesTo
    <3>2. /\ Standing(o) /\ o \in Nodes
          /\ o # x /\ o \in DOMAIN u.origins =>
               \E k \in Copies : o \in DOMAIN k.origins /\ u.origins[o].rev <= k.origins[o].rev
      BY <1>1, <2>3
    <3>3. Standing(o)'
      BY <1>1, <2>0, <2>1, <2>3, <3>2, StandingStays
    <3> QED BY <3>1, <3>3
  <2> QED BY <2>4, <2>5, <2>6
<1> QED BY <1>2, <1>3, <1>4

\* The controller takes all the answers in at once and pushes the result.
LEMMA MergePullsKeeps ==
  ASSUME IInv, OldStands, NewStands, MergePulls
  PROVE  OldStands' /\ NewStands' /\ AllKeep
<1> DEFINE u == Absorbed
<1>0. /\ spent'.erases = spent.erases /\ spent'.resets = spent.resets /\ spent'.lost = spent.lost
      /\ reconciled' = reconciled /\ late' = late /\ confirmed' = confirmed
      /\ phase = "pull" /\ phase' = "push" /\ claims' = asked' \ reconciled
  BY PullsSpend DEF MergePulls
<1>1. Becomes(Ctl, u) /\ Taken(u) /\ ledger'[Ctl] = u /\ snap' = u
  BY PullsMove
<1> HIDE DEF u
<1>2. Ctl \in Nodes /\ \A n \in Peers : n \in Nodes /\ n # Ctl
  BY Ids
<1>3. \A n \in Nodes : Moves(n, Ctl, u)
  BY <1>1 DEF Taken
<1>4. OldStands'
  BY <1>0, <1>1, <1>3, Ids, OldBecomes
<1>5. \A n \in Nodes : n # Ctl => ledger'[n] = ledger[n]
  BY <1>1 DEF Becomes
<1>6. AllKeep
  <2>1. Excused(Ctl) \/ KeepsOwn(Ctl, ledger[Ctl], u)
    <3> SUFFICES ASSUME ~Excused(Ctl) PROVE KeepsOwn(Ctl, ledger[Ctl], u)
      OBVIOUS
    <3>1. spent.erases \in Nat /\ ~(spent.erases > 1) /\ ~spent.lost
      BY <1>0 DEF Excused, IInv, HistoryOK, SpentType
    <3>2. PICK mode, m, v :
             mode \in {"equal", "erased"} /\ Mode(mode, m, v) /\ Line(mode, m, v, Ctl, ledger[Ctl], Copies)
      BY <3>1 DEF OldStands
    <3> QED BY <1>1, <3>1, <3>2, NotRewound DEF Taken, Modes
  <2>2. ASSUME NEW n \in Nodes PROVE Excused(n) \/ KeepsOwn(n, ledger[n], ledger'[n])
    BY <1>1, <1>5, <2>1, KeepsItself
  <2> QED BY <2>2 DEF AllKeep
<1>7. NewStands'
  <2> SUFFICES ASSUME Undisturbed, CtlLeads, RoundFollows, \A o \in Peers \ Joined : PushesTo(o) /\ Standing(o)
               PROVE  CtlLeads' /\ RoundFollows' /\ \A o \in Peers \ Joined : PushesTo(o)' /\ Standing(o)'
    BY <1>0 DEF NewStands, Undisturbed
  <2>1. IsLedger(u) /\ Ctl \in DOMAIN u.origins /\ (u.epoch = ledger[Ctl].epoch \/ Higher(u.epoch, ledger[Ctl].epoch))
    BY <1>1 DEF Taken, Rising, Advances
  <2>2. CtlLeads'
    BY <1>1, <1>2, <2>1, LeadsOn
  <2>3. confirmed' = {}
    BY <1>0 DEF RoundFollows
  <2>4. RoundFollows'
    BY <1>0, <1>1 DEF RoundFollows
  <2>5. ASSUME NEW o \in Peers \ Joined PROVE PushesTo(o)' /\ Standing(o)'
    <3>1. PushesTo(o) /\ ledger'[o] = ledger[o]
      BY <1>2, <1>5
    <3>2. PushesTo(o)'
      BY <1>0, <2>3, <3>1 DEF PushesTo
    <3>3. /\ Moves(o, Ctl, u) /\ o # Ctl /\ Standing(o)
          /\ o \in DOMAIN u.origins => \E k \in Copies : o \in DOMAIN k.origins /\ u.origins[o].rev <= k.origins[o].rev
      BY <1>1, <1>2, <1>3 DEF Taken
    <3>4. Standing(o)'
      BY <1>0, <1>1, <1>2, <2>1, <3>3, NotRewound, StandingStays DEF Undisturbed
    <3> QED BY <3>2, <3>4
  <2> QED BY <2>2, <2>4, <2>5
<1> QED BY <1>4, <1>6, <1>7

\* A push is taken in, in its round or late.
LEMMA ServeStands ==
  ASSUME IInv, OldStands, NewStands, NEW x \in Peers, NEW r \in Copies, NEW claimed \in BOOLEAN,
         Serve(x, r, claimed), answers' = answers, snap' = snap, late' \subseteq late, reconciled' = reconciled,
         claimed => x \notin Joined,
         spent'.erases = spent.erases, spent'.resets = spent.resets, spent'.lost = spent.lost,
         Undisturbed /\ x \notin Joined =>
           IF claimed THEN x \in reconciled => ~Higher(r.epoch, ledger[x].epoch) ELSE x \in reconciled
  PROVE  /\ OldStands' /\ AllKeep
         /\ \A n \in Nodes : n # x => ledger'[n] = ledger[n]
         /\ ledger'[x].epoch = ledger[x].epoch
              \/ (ledger'[x].epoch = r.epoch /\ Higher(r.epoch, ledger[x].epoch))
         /\ ~Higher(r.epoch, ledger'[x].epoch)
         /\ Undisturbed => CtlLeads' /\ \A n \in Peers \ Joined : Standing(n)'
<1>1. PICK u :
        /\ Becomes(x, u) /\ IsLedger(u) /\ x \in DOMAIN u.origins
        /\ u.epoch = ledger[x].epoch \/ (u.epoch = r.epoch /\ Higher(r.epoch, ledger[x].epoch))
        /\ ~Higher(r.epoch, u.epoch)
        /\ \A n \in Nodes : n # x \/ ~claimed => Moves(n, x, u)
        /\ \A n \in Nodes : n # x /\ n \in DOMAIN u.origins =>
             \E k \in Copies : n \in DOMAIN k.origins /\ u.origins[n].rev = k.origins[n].rev
        /\ claimed => u.origins[x].rev = ledger[x].origins[x].rev /\ KeepsOwn(x, ledger[x], u)
        /\ ~claimed => \A mode \in Modes : \A m, v :
             Mode(mode, m, v) /\ Line(mode, m, v, x, ledger[x], Copies) => KeepsOwn(x, ledger[x], u)
  BY ServeMoves
<1>2. /\ x \in Nodes /\ x # Ctl /\ Ctl \in Nodes /\ Ctl \notin Joined
      /\ \A n \in Joined : n \in Nodes
  BY Ids
<1>3. ledger'[x] = u /\ \A n \in Nodes : n # x => ledger'[n] = ledger[n]
  BY <1>1, <1>2 DEF Becomes
<1>4. OldStands'
  <2>1. \A n \in Joined \cup {Ctl} : Moves(n, x, u)
    BY <1>1, <1>2
  <2> QED BY <1>1, <2>1, OldBecomes
<1>5. AllKeep
  <2>1. Excused(x) \/ KeepsOwn(x, ledger[x], u)
    <3> SUFFICES ASSUME ~Excused(x), ~claimed PROVE KeepsOwn(x, ledger[x], u)
      BY <1>1
    <3>1. spent.erases \in Nat /\ spent.resets \in Nat /\ ~spent.lost
      BY DEF Excused, IInv, HistoryOK, SpentType
    <3>2. CASE x \in Joined
      <4>1. ~(spent.erases > 1)
        BY <3>2 DEF Excused
      <4>2. PICK mode, m, v :
               mode \in {"equal", "erased"} /\ Mode(mode, m, v) /\ Line(mode, m, v, x, ledger[x], Copies)
        BY <3>1, <3>2, <4>1 DEF OldStands
      <4> QED BY <1>1, <4>2 DEF Modes
    <3>3. CASE x \notin Joined
      <4>1. ~(spent.erases + spent.resets > 0)
        BY <1>2, <3>3 DEF Excused
      <4>2. Undisturbed
        BY <3>1, <4>1 DEF Undisturbed
      <4>3. Line("plain", Never, Never, x, ledger[x], Copies)
        BY <3>3, <4>2 DEF NewStands, Standing
      <4> QED BY <1>1, <4>3 DEF Modes, Mode
    <3> QED BY <3>2, <3>3
  <2>2. ASSUME NEW n \in Nodes PROVE Excused(n) \/ KeepsOwn(n, ledger[n], ledger'[n])
    BY <1>3, <2>1, KeepsItself
  <2> QED BY <2>2 DEF AllKeep
<1>6. ASSUME Undisturbed PROVE CtlLeads' /\ \A n \in Peers \ Joined : Standing(n)'
  <2>1. CtlLeads /\ RoundFollows /\ \A o \in Peers \ Joined : PushesTo(o) /\ Standing(o)
    BY <1>6 DEF NewStands
  <2>2. CtlLeads'
    <3>1. ~Higher(u.epoch, ledger[Ctl].epoch)
      BY <1>1, <1>2, <2>1, CopiesAre DEF CtlLeads
    <3> QED BY <1>1, <1>2, <2>1, <3>1, LeadsOn
  <2>3. ASSUME NEW n \in Peers \ Joined PROVE Standing(n)'
    <3>0. /\ n \in Nodes /\ IsLedger(u) /\ \A o \in DOMAIN u.origins : u.origins[o].rev \in Nat
          /\ x \in DOMAIN ledger[x].origins /\ ledger[x].origins[x].rev \in Nat
      BY <1>1, <1>2, Ids, CopiesAre, LedgerParts, ComponentParts
    <3>1. n \in reconciled =>
            \/ Moves(n, x, u)
            \/ n = x /\ u.epoch = ledger[x].epoch /\ u.origins[x].rev = ledger[x].origins[x].rev
      BY <1>1, <1>6, <3>0
    <3>2. n \notin reconciled =>
            /\ n = x => ledger[x].origins[x].rev <= u.origins[x].rev
            /\ n # x /\ n \in DOMAIN u.origins =>
                 \E k \in Copies : n \in DOMAIN k.origins /\ u.origins[n].rev <= k.origins[n].rev
      BY <1>1, <1>6, <3>0
    <3> QED BY <1>1, <1>2, <1>6, <2>1, <3>1, <3>2, NotRewound, StandingStays DEF Undisturbed
  <2> QED BY <2>2, <2>3
<1> QED BY <1>1, <1>3, <1>4, <1>5, <1>6

\* A push of this round reaches its peer, which merges or reconciles and confirms.
LEMMA ServePushKeeps ==
  ASSUME IInv, OldStands, NewStands, NEW x \in Peers, ServePush(x)
  PROVE  OldStands' /\ NewStands' /\ AllKeep
<1>0. spent'.erases = spent.erases /\ spent'.resets = spent.resets /\ spent'.lost = spent.lost
  BY FaultCounts DEF ServePush
<1>1. /\ phase = "push" /\ phase' = phase /\ x \in asked /\ asked' = asked \ {x}
      /\ Serve(x, snap, x \in claims)
      /\ confirmed' \subseteq confirmed \cup {x}
      /\ reconciled' = reconciled /\ answers' = answers /\ snap' = snap /\ claims' = claims /\ late' = late
  BY DEF ServePush
<1>2. PICK c \in BOOLEAN : c <=> x \in claims
  OBVIOUS
<1>3. snap \in Copies /\ Serve(x, snap, c) /\ (c => x \notin Joined)
  BY <1>1, <1>2, CopiesAre DEF Serve, IInv, RoundOK
<1>4. Undisturbed /\ x \notin Joined => IF c THEN x \notin reconciled ELSE x \in reconciled
  BY <1>1, <1>2 DEF NewStands, RoundFollows, PushesTo
<1>5. /\ OldStands' /\ AllKeep
      /\ \A n \in Nodes : n # x => ledger'[n] = ledger[n]
      /\ ledger'[x].epoch = ledger[x].epoch
           \/ (ledger'[x].epoch = snap.epoch /\ Higher(snap.epoch, ledger[x].epoch))
      /\ ~Higher(snap.epoch, ledger'[x].epoch)
      /\ Undisturbed => CtlLeads' /\ \A n \in Peers \ Joined : Standing(n)'
  BY <1>0, <1>1, <1>3, <1>4, ServeStands
<1>6. NewStands'
  <2> SUFFICES ASSUME Undisturbed, CtlLeads, RoundFollows, \A o \in Peers \ Joined : PushesTo(o) /\ Standing(o)
               PROVE  RoundFollows' /\ \A o \in Peers \ Joined : PushesTo(o)'
    BY <1>0, <1>5 DEF NewStands, Undisturbed
  <2>1. x # Ctl /\ Ctl \in Nodes /\ ledger'[Ctl] = ledger[Ctl] /\ snap.epoch = ledger[Ctl].epoch
    BY <1>1, <1>5, Ids DEF RoundFollows
  <2>2. RoundFollows'
    BY <1>1, <2>1 DEF RoundFollows
  <2>3. /\ \A n \in Nodes : ledger[n] \in Copies /\ ledger[n].epoch \in Version
        /\ \A p \in late : p.ledger.epoch \in Version
    BY CopiesAre, LedgerParts DEF Ledgers
  <2>4. ledger'[x].epoch = ledger[Ctl].epoch
    <3>1. ~Higher(ledger[x].epoch, ledger[Ctl].epoch) /\ x \in Nodes
      BY <2>3, Ids DEF CtlLeads
    <3>2. ledger'[x].epoch \in Version
      BY <1>5, <2>1, <2>3, <3>1
    <3> QED BY <1>5, <2>1, <2>3, <3>1, <3>2, VersionOrder
  <2>5. ASSUME NEW o \in Peers \ Joined PROVE PushesTo(o)'
    <3>1. PushesTo(o) /\ o \in Nodes
      BY Ids
    <3>2. CASE o # x
      BY <1>1, <1>5, <2>1, <3>1, <3>2 DEF PushesTo
    <3>3. CASE o = x
      <4>1. \A p \in late : p.to = o /\ p.claimed /\ o \in reconciled => ~Higher(p.ledger.epoch, ledger'[o].epoch)
        BY <1>5, <2>1, <2>3, <2>4, <3>3, CopiesAre DEF CtlLeads
      <4> QED BY <1>1, <2>1, <2>4, <3>1, <3>3, <4>1 DEF PushesTo
    <3> QED BY <3>2, <3>3
  <2> QED BY <2>2, <2>5
<1> QED BY <1>5, <1>6

\* A push of an earlier round, given up by the controller, is served after all: it brings the peer
\* nothing newer of itself than it has.
LEMMA ServeLateKeeps ==
  ASSUME IInv, OldStands, NewStands, NEW p \in late, ServeLate(p)
  PROVE  OldStands' /\ NewStands' /\ AllKeep
<1> DEFINE x == p.to
           r == p.ledger
<1>0. spent'.erases = spent.erases /\ spent'.resets = spent.resets /\ spent'.lost = spent.lost
  BY FaultCounts DEF ServeLate
<1>1. /\ Serve(x, r, p.claimed) /\ late' = late \ {p} /\ reconciled' = reconciled
      /\ phase' = phase /\ asked' = asked /\ answers' = answers /\ snap' = snap
      /\ claims' = claims /\ confirmed' = confirmed
  BY DEF ServeLate, round
<1>2. /\ r \in Copies /\ x \in Peers /\ p.claimed \in BOOLEAN /\ (p.claimed => x \notin Joined)
  BY CopiesAre DEF IInv, PushesOK
<1>3. Undisturbed /\ x \notin Joined =>
        IF p.claimed THEN x \in reconciled => ~Higher(r.epoch, ledger[x].epoch) ELSE x \in reconciled
  BY <1>2 DEF NewStands, PushesTo
<1> HIDE DEF x, r
<1>4. /\ OldStands' /\ AllKeep
      /\ \A n \in Nodes : n # x => ledger'[n] = ledger[n]
      /\ ledger'[x].epoch = ledger[x].epoch
           \/ (ledger'[x].epoch = r.epoch /\ Higher(r.epoch, ledger[x].epoch))
      /\ ~Higher(r.epoch, ledger'[x].epoch)
      /\ Undisturbed => CtlLeads' /\ \A n \in Peers \ Joined : Standing(n)'
  BY <1>0, <1>1, <1>2, <1>3, ServeStands
<1>5. NewStands'
  <2> SUFFICES ASSUME Undisturbed, CtlLeads, RoundFollows, \A o \in Peers \ Joined : PushesTo(o) /\ Standing(o)
               PROVE  RoundFollows' /\ \A o \in Peers \ Joined : PushesTo(o)'
    BY <1>0, <1>1, <1>4 DEF NewStands, Undisturbed
  <2>1. x # Ctl /\ Ctl \in Nodes /\ x \in Nodes /\ ledger'[Ctl] = ledger[Ctl]
    BY <1>2, <1>4, Ids
  <2>2. RoundFollows'
    BY <1>1, <2>1 DEF RoundFollows
  <2>3. /\ \A n \in Nodes : ledger[n] \in Copies /\ ledger[n].epoch \in Version
        /\ \A q \in late : q.ledger.epoch \in Version
        /\ r.epoch \in Version /\ ~Higher(r.epoch, ledger[Ctl].epoch)
    BY <1>2, CopiesAre, LedgerParts DEF Ledgers, CtlLeads
  <2>4. ASSUME NEW o \in Peers \ Joined PROVE PushesTo(o)'
    <3>1. PushesTo(o) /\ o \in Nodes
      BY Ids
    <3>2. CASE o # x
      BY <1>1, <1>4, <2>1, <3>1, <3>2 DEF PushesTo
    <3>3. CASE o = x
      <4>1. ledger[o].epoch = ledger[Ctl].epoch => ledger'[o].epoch = ledger[o].epoch
        BY <1>4, <2>3, <3>3
      <4>2. ASSUME NEW q \in late, ~Higher(q.ledger.epoch, ledger[o].epoch)
            PROVE  ~Higher(q.ledger.epoch, ledger'[o].epoch)
        <5>1. CASE ledger'[x].epoch = ledger[x].epoch
          BY <3>3, <4>2, <5>1
        <5>2. CASE ledger'[x].epoch = r.epoch /\ Higher(r.epoch, ledger[x].epoch)
          <6>1. /\ r.epoch \in Version /\ q.ledger.epoch \in Version /\ ledger[x].epoch \in Version
                /\ ~Higher(q.ledger.epoch, ledger[x].epoch)
            BY <2>1, <2>3, <3>3, <4>2
          <6>2. Higher(r.epoch, q.ledger.epoch)
            BY <5>2, <6>1, VersionOrder
          <6>3. ~Higher(q.ledger.epoch, r.epoch)
            BY <6>1, <6>2, VersionOrder
          <6> QED BY <3>3, <5>2, <6>3
        <5> QED BY <1>4, <5>1, <5>2
      <4> QED BY <1>1, <2>1, <3>1, <4>1, <4>2 DEF PushesTo
    <3> QED BY <3>2, <3>3
  <2> QED BY <2>2, <2>4
<1> QED BY <1>4, <1>5

\* At the start all the ledgers are empty and none is ahead of another.
LEMMA StandsFromTheStart ==
  ASSUME Init
  PROVE  OldStands /\ NewStands
<1>1. /\ ledger = [n \in Nodes |-> Fresh(Members(n))] /\ reconciled = Joined
      /\ phase = "idle" /\ answers = <<>> /\ snap = Fresh({})
      /\ claims = {} /\ confirmed = {} /\ late = {}
      /\ spent.erases = 0
  BY DEF Init
<1>2. \A n \in Nodes : Members(n) \in SUBSET Nodes /\ n \in Members(n)
  BY Ids DEF Members
<1>3. \A k \in Copies :
        /\ k.epoch = Never
        /\ \A x \in Models : k.models[x] = Never
        /\ \A o \in DOMAIN k.origins : k.origins[o] = Empty
  <2>1. \A M \in SUBSET Nodes :
          /\ Fresh(M).epoch = Never
          /\ \A x \in Models : Fresh(M).models[x] = Never
          /\ \A o \in DOMAIN Fresh(M).origins : Fresh(M).origins[o] = Empty
    BY DEF Fresh
  <2>2. \A k \in Copies : \E M \in SUBSET Nodes : k = Fresh(M)
    BY <1>1, <1>2 DEF Copies
  <2> QED BY <2>1, <2>2
<1>4. \A n \in Nodes : ledger[n] \in Copies /\ n \in DOMAIN ledger[n].origins
  BY <1>1, <1>2, FreshIs DEF Copies
<1>5. Never \in Version /\ ~Higher(Never, Never) /\ Empty.rev = 0
  BY VersionOrder DEF Empty
<1>6. \A n \in Nodes : Line("equal", Never, Never, n, ledger[n], Copies)
  <2> SUFFICES ASSUME NEW n \in Nodes PROVE Line("equal", Never, Never, n, ledger[n], Copies)
    OBVIOUS
  <2>1. AllTrail("equal", Never, Never, n, ledger[n], Copies)
    <3> SUFFICES ASSUME NEW k \in Copies, NEW j \in Copies, k = ledger[n] \/ Higher(k.epoch, ledger[n].epoch)
                 PROVE  Trails("equal", Never, Never, n, k, j)
      BY DEF AllTrail
    <3>1. k = ledger[n]
      BY <1>3, <1>4, <1>5
    <3> QED BY <1>3, <1>4, <3>1 DEF Trails
  <2>2. SameVersions("equal", Never, Never, Copies) /\ Carried("equal", Never, Never, n, ledger[n], Copies)
    BY <1>3 DEF SameVersions, Carried
  <2> QED BY <2>1, <2>2 DEF Line
<1>7. OldStands
  <2>1. \A n \in Joined \cup {Ctl} : n \in Nodes
    BY Ids
  <2> QED BY <1>1, <1>5, <1>6, <2>1 DEF OldStands, Mode
<1>8. NewStands
  <2>1. CtlLeads
    BY <1>3, <1>4, <1>5, Ids DEF CtlLeads
  <2>2. RoundFollows
    BY <1>1 DEF RoundFollows
  <2>3. ASSUME NEW n \in Peers \ Joined PROVE PushesTo(n) /\ Standing(n)
    <3>1. n \in Nodes /\ n \notin reconciled
      BY <1>1, Ids
    <3>2. PushesTo(n)
      BY <1>1 DEF PushesTo
    <3>3. \A k \in Copies : n \in DOMAIN k.origins => k.origins[n] = Empty /\ ledger[n].origins[n] = Empty
      BY <1>3, <1>4, <3>1
    <3>4. Standing(n)
      BY <1>5, <3>1, <3>3 DEF Standing
    <3> QED BY <3>2, <3>4
  <2> QED BY <2>1, <2>2, <2>3 DEF NewStands
<1> QED BY <1>7, <1>8

\* Every step, in any interleaving of rounds, late pushes, restarts and joins, keeps both standings
\* and takes from no node what it served.
LEMMA EveryStepKeeps ==
  ASSUME IInv, OldStands, NewStands, [Next]_vars
  PROVE  OldStands' /\ NewStands' /\ AllKeep
<1>1. CASE UNCHANGED vars
  <2>1. /\ ledger' = ledger /\ answers' = answers /\ snap' = snap /\ late' = late /\ spent' = spent
        /\ reconciled' = reconciled /\ claims' = claims /\ confirmed' = confirmed
        /\ phase' = phase /\ asked' = asked
    BY <1>1 DEF vars
  <2>2. Copies' \subseteq Copies
    BY <2>1, CopiesAre, CopiesShrink
  <2>3. /\ OldStands' /\ AllKeep
        /\ CtlLeads => CtlLeads'
        /\ \A n \in Peers : Standing(n) /\ (n \in reconciled <=> n \in reconciled') => Standing(n)'
    BY <2>1, <2>2, QuietKeeps
  <2>4. NewStands'
    BY <2>1, <2>3 DEF NewStands, Undisturbed, RoundFollows, PushesTo
  <2> QED BY <2>3, <2>4
<1>2. ASSUME NEW n \in Nodes, NEW m \in Models, Record(n, m) \/ Erase(n, m)
      PROVE  OldStands' /\ NewStands' /\ AllKeep
  BY <1>2, RecordKeeps, EraseKeeps
<1>3. ASSUME NEW n \in Nodes, Reset(n) \/ Restart(n) PROVE OldStands' /\ NewStands' /\ AllKeep
  BY <1>3, ResetKeeps, RestartKeeps
<1>4. CASE StartRound \/ MergePulls \/ EndRound
  BY <1>4, StartRoundKeeps, MergePullsKeeps, EndRoundKeeps
<1>5. ASSUME NEW n \in Peers, AnswerPull(n) \/ FailPull(n) PROVE OldStands' /\ NewStands' /\ AllKeep
  BY <1>5, AnswerPullKeeps, FailPullKeeps
<1>6. ASSUME NEW n \in Peers, ServePush(n) \/ TimeoutPush(n) PROVE OldStands' /\ NewStands' /\ AllKeep
  BY <1>6, ServePushKeeps, TimeoutPushKeeps
<1>7. ASSUME NEW p \in late, ServeLate(p) PROVE OldStands' /\ NewStands' /\ AllKeep
  BY <1>7, ServeLateKeeps
<1> QED BY <1>1, <1>2, <1>3, <1>4, <1>5, <1>6, <1>7 DEF Next

OwnKeptStep ==
  \A n \in Nodes, m \in Models :
    \/ <<n, m>> \in stale
    \/ Excused(n)
    \/ ledger'[n].epoch # ledger[n].epoch
    \/ ledger'[n].models[m] # ledger[n].models[m]
    \/ {r \in totals[n][m] : log[r].node = n} \subseteq totals'[n][m]

\* A node's own requests are counted in its own component, before the step and after it.
LEMMA KeptIsShown ==
  ASSUME IInv, IInv', AllKeep
  PROVE  OwnKeptStep
<1> SUFFICES ASSUME NEW n \in Nodes, NEW m \in Models, <<n, m>> \notin stale, ~Excused(n),
                    ledger'[n].epoch = ledger[n].epoch, ledger'[n].models[m] = ledger[n].models[m],
                    NEW r \in totals[n][m], log[r].node = n
             PROVE  r \in totals'[n][m]
  BY DEF OwnKeptStep
<1>1. /\ totals[n][m] = Counted(ledger[n], m) /\ Honest(ledger[n], log, Resets)
      /\ Counted(ledger'[n], m) \subseteq totals'[n][m] /\ n \in DOMAIN ledger'[n].origins
  BY DEF IInv, LedgersOK, Good, ShowsRight
<1>2. r \in Counted(ledger[n], m)
  BY <1>1
<1>3. PICK o \in DOMAIN ledger[n].origins :
        ledger[n].origins[o].stamp[m] = ledger[n].models[m] /\ r \in ledger[n].origins[o].total[m]
  BY <1>2 DEF Counted
<1>4. o = n
  BY <1>1, <1>3 DEF Honest, Told
<1>5. ledger'[n].origins[n].stamp[m] = ledger'[n].models[m] /\ r \in ledger'[n].origins[n].total[m]
  BY <1>3, <1>4 DEF AllKeep, KeepsOwn
<1>6. r \in Counted(ledger'[n], m)
  BY <1>1, <1>5 DEF Counted
<1> QED BY <1>1, <1>6

\* A sync never makes a node forget requests it served itself (merge_token_usage_sync,
\* reconcile_token_usage_sync, the origin a joining peer preserves), however rounds, late
\* pushes, restarts and joins interleave: they go with an erase of their model or with
\* the adoption of a newer epoch.
THEOREM OwnUsageIsKept == Spec => OwnUsageKept
<1>1. Init => OldStands /\ NewStands
  BY StandsFromTheStart
<1>2. IInv /\ IInv' /\ OldStands /\ NewStands /\ [Next]_vars => OldStands' /\ NewStands' /\ [OwnKeptStep]_vars
  BY EveryStepKeeps, KeptIsShown
<1>3. [OwnKeptStep]_vars =>
        [\A n \in Nodes, m \in Models :
           \/ <<n, m>> \in stale
           \/ IF n \in Joined \cup {Ctl} THEN spent'.erases > 1 ELSE spent'.erases + spent'.resets > 0
           \/ spent'.lost
           \/ ledger'[n].epoch # ledger[n].epoch
           \/ ledger'[n].models[m] # ledger[n].models[m]
           \/ {r \in totals[n][m] : log[r].node = n} \subseteq totals'[n][m]]_vars
  BY DEF OwnKeptStep, Excused
<1> QED BY <1>1, <1>2, <1>3, InductiveInvariant, PTL DEF Spec, OwnUsageKept

(***************************************************************************)
(* Contents.  As long as nothing was erased, a component's versions follow *)
(* from what it holds, so two copies that hold the same are the same under *)
(* the same ledger; that is what two undisturbed rounds compare.           *)
(***************************************************************************)

\* All a component holds is shown by a ledger with these versions of the models: the totals
\* are part of the hourly history, and what is there carries the ledger's version.
Shown(c, vs) ==
  \A m \in Models : /\ c.total[m] \subseteq c.hourly[m]
                    /\ c.stamp[m] = IF c.hourly[m] = {} THEN Never ELSE vs[m]

\* Every component of the ledger is shown by it.
Clean(l) == \A o \in DOMAIN l.origins : Shown(l.origins[o], l.models)

\* The same revision with the same requests, under whatever versions.
SameCounts(d, c) == d.rev = c.rev /\ d.total = c.total /\ d.hourly = c.hourly

\* Nothing in d is newer than c.
Behind(d, c) == d.rev < c.rev \/ SameCounts(d, c)

\* Under one ledger's versions, the same counts make the same component.
LEMMA ShownEqual ==
  ASSUME NEW c \in Component, NEW d \in Component, NEW vs, NEW ws, SameCounts(d, c), Shown(c, vs), Shown(d, ws),
         \A m \in Models : vs[m] = ws[m]
  PROVE  d = c
<1>1. \A m \in Models : d.stamp[m] = c.stamp[m]
  BY DEF SameCounts, Shown
<1>2. d.stamp \in [Models -> Version] /\ c.stamp \in [Models -> Version]
  BY ComponentParts
<1>3. d.stamp = c.stamp
  BY <1>1, <1>2
<1> QED BY <1>3, ComponentParts DEF SameCounts

\* The empty component shows nothing.
LEMMA EmptyShown ==
  ASSUME NEW vs
  PROVE  Shown(Empty, vs)
BY DEF Shown, Empty, Nothing

\* _visible_usage_component leaves a clean component as it is.
LEMMA ShownVisible ==
  ASSUME NEW l, NEW c \in Component, Shown(c, l.models)
  PROVE  Visible(l, c) = c
<1> DEFINE gone == {m \in Active(c) : c.stamp[m] # l.models[m]}
           t == [m \in Models |-> IF m \in gone THEN {} ELSE c.total[m]]
           h == [m \in Models |-> IF m \in gone THEN {} ELSE c.hourly[m]]
           s == [m \in Models |-> IF m \in gone THEN Never ELSE c.stamp[m]]
<1>1. Visible(l, c) = [c EXCEPT !.total = t, !.hourly = h, !.stamp = s]
  BY DEF Visible
<1>2. gone = {}
  BY DEF Active, Shown
<1> HIDE DEF gone
<1>3. t = c.total /\ h = c.hourly /\ s = c.stamp
  BY <1>2, ComponentParts
<1> HIDE DEF t, h, s
<1>4. c = [rev |-> c.rev, total |-> c.total, hourly |-> c.hourly, stamp |-> c.stamp]
  BY ComponentParts
<1> QED BY <1>1, <1>3, <1>4

\* Stamping a clean component with other versions changes no count.
LEMMA ShownStamped ==
  ASSUME NEW c \in Component, NEW vs, NEW ws \in [Models -> Version], Shown(c, vs)
  PROVE  Shown(Stamped(c, ws), ws) /\ SameCounts(Stamped(c, ws), c)
<1> DEFINE s == [m \in Models |-> IF m \in Active(c) THEN ws[m] ELSE c.stamp[m]]
<1>1. Stamped(c, ws) = [rev |-> c.rev, total |-> c.total, hourly |-> c.hourly, stamp |-> s]
  BY ComponentParts DEF Stamped
<1>2. \A m \in Models : s[m] = IF c.hourly[m] = {} THEN Never ELSE ws[m]
  BY DEF Shown, Active
<1> HIDE DEF s
<1>3. \A m \in Models : c.total[m] \subseteq c.hourly[m]
  BY DEF Shown
<1> QED BY <1>1, <1>2, <1>3 DEF Shown, SameCounts

\* A merge of ledgers that agree on the versions of their common epoch has those versions.
LEMMA MergeVersions ==
  ASSUME NEW x \in Nodes, NEW l, IsLedger(l), x \in DOMAIN l.origins, NEW r, IsLedger(r),
         l.epoch = r.epoch => \A m \in Models : l.models[m] = r.models[m]
  PROVE  LET u == Merge(x, l, r) IN
         \A m \in Models : /\ u.epoch = l.epoch => u.models[m] = l.models[m]
                           /\ u.epoch = r.epoch => u.models[m] = r.models[m]
<1> DEFINE u == Merge(x, l, r)
<1>1. /\ \A y \in Models : l.models[y] \in Version /\ r.models[y] \in Version
      /\ \/ Higher(r.epoch, l.epoch) /\ u.epoch = r.epoch /\ u.models = r.models
         \/ Higher(l.epoch, r.epoch) /\ u = l
         \/ \A o \in Nodes : Joins(o, u, l, r)
  BY MergeParts, LedgerParts
<1> HIDE DEF u
<1>2. l.epoch \in Version /\ r.epoch \in Version
  BY LedgerParts
<1>3. Higher(r.epoch, l.epoch) \/ Higher(l.epoch, r.epoch) => l.epoch # r.epoch
  BY <1>2, VersionOrder
<1>4. ASSUME \A o \in Nodes : Joins(o, u, l, r), NEW m \in Models
      PROVE  u.models[m] = l.models[m] /\ u.models[m] = r.models[m]
  <2>1. r.epoch = l.epoch /\ u.models[m] = Later(l.models[m], r.models[m])
    BY <1>4 DEF Joins
  <2> QED BY <1>1, <2>1, LaterIs
<1> QED BY <1>1, <1>3, <1>4 DEF u

\* Merging keeps ledgers clean.
LEMMA MergeClean ==
  ASSUME NEW x \in Nodes, NEW l, IsLedger(l), x \in DOMAIN l.origins, NEW r, IsLedger(r), Clean(l), Clean(r),
         l.epoch = r.epoch => \A m \in Models : l.models[m] = r.models[m]
  PROVE  Clean(Merge(x, l, r))
<1> DEFINE u == Merge(x, l, r)
<1>1. \A m \in Models : /\ u.epoch = l.epoch => u.models[m] = l.models[m]
                        /\ u.epoch = r.epoch => u.models[m] = r.models[m]
  BY MergeVersions
<1>2. ASSUME NEW o \in DOMAIN u.origins PROVE Shown(u.origins[o], u.models)
  <2>1. \/ o \in DOMAIN r.origins /\ u.epoch = r.epoch /\ u.origins[o] = r.origins[o]
        \/ o \in DOMAIN l.origins /\ u.epoch = l.epoch /\ u.origins[o] = l.origins[o]
        \/ u.origins[o] = Empty
    BY MergeIs
  <2> HIDE DEF u
  <2>2. CASE o \in DOMAIN r.origins /\ u.epoch = r.epoch /\ u.origins[o] = r.origins[o]
    BY <1>1, <2>2 DEF Clean, Shown
  <2>3. CASE o \in DOMAIN l.origins /\ u.epoch = l.epoch /\ u.origins[o] = l.origins[o]
    BY <1>1, <2>3 DEF Clean, Shown
  <2>4. CASE u.origins[o] = Empty
    BY <2>4, EmptyShown
  <2> QED BY <2>1, <2>2, <2>3, <2>4
<1> QED BY <1>2 DEF Clean

\* A joining peer's push is clean, and carries the peer's own counts.
LEMMA PreservedClean ==
  ASSUME NEW n \in Nodes, NEW l, IsLedger(l), n \in DOMAIN l.origins, NEW r, IsLedger(r), Clean(l), Clean(r)
  PROVE  /\ Clean(Preserved(n, l, r))
         /\ SameCounts(Preserved(n, l, r).origins[n], l.origins[n])
<1> DEFINE p == Preserved(n, l, r)
           c == Stamped(l.origins[n], r.models)
<1>1. l.origins[n] \in Component /\ r.models \in [Models -> Version] /\ Shown(l.origins[n], l.models)
  BY LedgerParts DEF Clean
<1>2. Visible(l, l.origins[n]) = l.origins[n]
  BY <1>1, ShownVisible
<1>3. Shown(c, r.models) /\ SameCounts(c, l.origins[n])
  BY <1>1, ShownStamped
<1> HIDE DEF c
<1>4. p.origins = Put(r.origins, n, c)
  BY <1>2, LedgerExcept DEF Preserved, c
<1>5. p.origins[n] = c
  BY <1>4 DEF Put
<1>6. /\ p.models = r.models /\ DOMAIN p.origins = DOMAIN r.origins \cup {n}
      /\ \A o \in DOMAIN r.origins : o # n => p.origins[o] = r.origins[o]
  BY PreservedIs
<1> HIDE DEF p
<1>7. \A o \in DOMAIN p.origins : Shown(p.origins[o], p.models)
  BY <1>3, <1>5, <1>6 DEF Clean
<1> QED BY <1>3, <1>5, <1>7 DEF Clean, p

\* The controller's reconciliation is clean, and every component holds what one of the two did.
LEMMA ReconciledClean ==
  ASSUME NEW l, IsLedger(l), Ctl \in DOMAIN l.origins,
         NEW peer \in Peers, NEW r, IsLedger(r), peer \in DOMAIN r.origins, Clean(l), Clean(r)
  PROVE  LET u == Reconciled(l, r, peer) IN
         /\ Clean(u)
         /\ \A o \in DOMAIN u.origins :
              \/ o \in DOMAIN l.origins /\ SameCounts(u.origins[o], l.origins[o])
              \/ o = peer /\ SameCounts(u.origins[o], r.origins[o])
<1> DEFINE mine == [o \in DOMAIN l.origins |-> Visible(l, l.origins[o])]
           theirs == Visible(r, r.origins[peer])
           all == IF peer \in DOMAIN mine /\ theirs.rev < mine[peer].rev
                  THEN mine ELSE Put(mine, peer, theirs)
           used == UNION {Active(all[o]) : o \in DOMAIN all}
           counters(m) == {l.models[m][1]} \cup {all[o].stamp[m][1] : o \in DOMAIN all}
           versions == [m \in Models |-> IF m \in used THEN <<Largest(counters(m)) + 1, Ctl>>
                                         ELSE l.models[m]]
           top == Largest({l.epoch[1], r.epoch[1]})
           f == [o \in DOMAIN all |-> Stamped(all[o], versions)]
<1>1. Reconciled(l, r, peer) = [epoch |-> <<top + 1, Ctl>>, models |-> versions, origins |-> f]
  BY DEF Reconciled
<1>2. /\ \A o \in DOMAIN l.origins : l.origins[o] \in Component /\ Shown(l.origins[o], l.models)
      /\ r.origins[peer] \in Component /\ Shown(r.origins[peer], r.models)
  BY LedgerParts DEF Clean
<1>3. \A o \in DOMAIN l.origins : mine[o] = l.origins[o]
  BY <1>2, ShownVisible
<1>4. theirs = r.origins[peer]
  BY <1>2, ShownVisible
<1>5. DOMAIN mine = DOMAIN l.origins
  OBVIOUS
<1> HIDE DEF mine, theirs
<1>6. \A o \in DOMAIN all : (o \in DOMAIN l.origins /\ all[o] = l.origins[o])
                            \/ (o = peer /\ all[o] = r.origins[o])
  BY <1>3, <1>4, <1>5 DEF Put
<1>7. IsLedger(Reconciled(l, r, peer))
  BY ReconciledIs
<1> HIDE DEF all
<1>8. DOMAIN f = DOMAIN all /\ \A o \in DOMAIN all : f[o] = Stamped(all[o], versions)
  OBVIOUS
<1> HIDE DEF f, versions, top
<1> DEFINE u == Reconciled(l, r, peer)
<1>9. u.models = versions /\ u.origins = f
  BY <1>1
<1>10. versions \in [Models -> Version]
  BY <1>7, <1>9, LedgerParts
<1> HIDE DEF u
<1>11. ASSUME NEW o \in DOMAIN all
       PROVE  /\ Shown(f[o], versions)
              /\ SameCounts(f[o], all[o])
  <2>1. all[o] \in Component /\ (Shown(all[o], l.models) \/ Shown(all[o], r.models))
    BY <1>2, <1>6
  <2> QED BY <1>8, <1>10, <2>1, ShownStamped
<1>12. Clean(u)
  BY <1>8, <1>9, <1>11 DEF Clean
<1>13. \A o \in DOMAIN u.origins :
         \/ o \in DOMAIN l.origins /\ SameCounts(u.origins[o], l.origins[o])
         \/ o = peer /\ SameCounts(u.origins[o], r.origins[o])
  BY <1>6, <1>8, <1>9, <1>11
<1> QED BY <1>12, <1>13 DEF u

\* Recording a request leaves the ledger clean (_record_tokens).
LEMMA CountingClean ==
  ASSUME NEW l, IsLedger(l), Clean(l), NEW n \in DOMAIN l.origins, NEW m \in Models, NEW r \in Requests
  PROVE  Clean(Counting(l, n, m, r))
<1> DEFINE c == l.origins[n]
           old == IF c.stamp[m] = l.models[m] THEN c ELSE [c EXCEPT !.total[m] = {}, !.hourly[m] = {}]
           c1 == [old EXCEPT !.total[m] = @ \cup {r}, !.hourly[m] = @ \cup {r},
                             !.stamp[m] = l.models[m], !.rev = @ + 1]
           f == [l.origins EXCEPT ![n] = c1]
<1>1. Counting(l, n, m, r) = [l EXCEPT !.origins = f]
  BY DEF Counting
<1>2. c \in Component /\ Shown(c, l.models)
  BY LedgerParts DEF Clean
<1>3. /\ old \in Component
      /\ old.stamp = c.stamp /\ \A x \in Models \ {m} : old.total[x] = c.total[x] /\ old.hourly[x] = c.hourly[x]
      /\ old.total[m] \subseteq old.hourly[m]
  <2> HIDE DEF c
  <2>1. CASE c.stamp[m] = l.models[m]
    BY <1>2, <2>1 DEF Shown
  <2>2. CASE c.stamp[m] # l.models[m]
    <3> DEFINE a == [c.total EXCEPT ![m] = {}]
               b == [c.hourly EXCEPT ![m] = {}]
    <3>1. old = [c EXCEPT !.total = a, !.hourly = b]
      BY <2>2
    <3>2. /\ a \in [Models -> SUBSET Requests] /\ b \in [Models -> SUBSET Requests]
          /\ a[m] = {} /\ \A x \in Models \ {m} : a[x] = c.total[x] /\ b[x] = c.hourly[x]
      BY <1>2, ComponentParts
    <3> HIDE DEF a, b, old
    <3>3. old \in Component /\ old.total = a /\ old.hourly = b /\ old.stamp = c.stamp
      BY <1>2, <3>1, <3>2 DEF Component
    <3> QED BY <3>2, <3>3
  <2> QED BY <2>1, <2>2
<1> HIDE DEF old
<1>4. Shown(c1, l.models)
  <2> DEFINE t == [old.total EXCEPT ![m] = old.total[m] \cup {r}]
             h == [old.hourly EXCEPT ![m] = old.hourly[m] \cup {r}]
             v == [old.stamp EXCEPT ![m] = l.models[m]]
             i == old.rev + 1
  <2>1. c1 = [old EXCEPT !.total = t, !.hourly = h, !.stamp = v, !.rev = i]
    OBVIOUS
  <2>2. /\ t[m] = old.total[m] \cup {r} /\ h[m] = old.hourly[m] \cup {r} /\ v[m] = l.models[m]
        /\ \A x \in Models \ {m} : t[x] = old.total[x] /\ h[x] = old.hourly[x] /\ v[x] = old.stamp[x]
    BY <1>3, ComponentParts
  <2>3. old = [rev |-> old.rev, total |-> old.total, hourly |-> old.hourly, stamp |-> old.stamp]
    BY <1>3, ComponentParts
  <2> HIDE DEF c1, t, h, v, i
  <2>4. c1.total = t /\ c1.hourly = h /\ c1.stamp = v
    BY <2>1, <2>3
  <2>5. \A x \in Models : c1.total[x] \subseteq c1.hourly[x]
    BY <1>2, <1>3, <2>2, <2>4 DEF Shown
  <2>6. h[m] # {}
    BY <2>2
  <2>7. \A x \in Models : c1.stamp[x] = IF c1.hourly[x] = {} THEN Never ELSE l.models[x]
    BY <1>2, <1>3, <2>2, <2>4, <2>6 DEF Shown
  <2> QED BY <2>5, <2>7 DEF Shown
<1> HIDE DEF c1
<1>5. DOMAIN f = DOMAIN l.origins /\ f[n] = c1 /\ \A o \in DOMAIN l.origins : o # n => f[o] = l.origins[o]
  OBVIOUS
<1> HIDE DEF f
<1>6. Counting(l, n, m, r).origins = f /\ Counting(l, n, m, r).models = l.models
  BY <1>1, LedgerExcept
<1>7. \A o \in DOMAIN f : Shown(f[o], l.models)
  BY <1>4, <1>5 DEF Clean
<1> QED BY <1>6, <1>7 DEF Clean

\* Resetting the totals keeps the hourly history, and the ledger clean (_reset_synced_token_usage).
LEMMA ClearedShown ==
  ASSUME NEW c \in Component, NEW vs, Shown(c, vs)
  PROVE  Shown(Cleared(c), vs) /\ Cleared(c).rev = c.rev + 1
<1> DEFINE z == Nothing
           i == c.rev + 1
<1>1. Cleared(c) = [c EXCEPT !.total = z, !.rev = i]
  BY DEF Cleared
<1>2. \A m \in Models : z[m] = {}
  BY DEF Nothing
<1>3. c = [rev |-> c.rev, total |-> c.total, hourly |-> c.hourly, stamp |-> c.stamp]
  BY ComponentParts
<1> HIDE DEF z, i
<1>4. Cleared(c).total = z /\ Cleared(c).hourly = c.hourly /\ Cleared(c).stamp = c.stamp /\ Cleared(c).rev = i
  BY <1>1, <1>3
<1>5. \A m \in Models : Cleared(c).total[m] \subseteq Cleared(c).hourly[m]
  BY <1>2, <1>4
<1>6. Shown(Cleared(c), vs)
  BY <1>4, <1>5 DEF Shown
<1> QED BY <1>4, <1>6 DEF i

\* Behind is reflexive, and what trails the counts trails them under other versions.
LEMMA BehindIs ==
  ASSUME NEW c \in Component
  PROVE  /\ SameCounts(c, c) /\ Behind(c, c)
         /\ \A d : SameCounts(d, c) => SameCounts(c, d) /\ Behind(d, c) /\ Behind(c, d)
         /\ \A d, e : Behind(d, c) /\ SameCounts(e, c) => Behind(d, e)
         /\ \A d, e : Behind(d, c) /\ SameCounts(e, d) => Behind(e, c)
         /\ \A d, e : d \in Component /\ Behind(d, c) /\ e.rev = c.rev + 1 => Behind(d, e)
         /\ \A d, e : d \in Component /\ e \in Component /\ Behind(d, c) /\ Behind(c, e) => Behind(d, e)
<1>1. c.rev \in Nat /\ \A d : d \in Component => d.rev \in Nat
  BY ComponentParts
<1> QED BY <1>1 DEF SameCounts, Behind

(***************************************************************************)
(* What the controller takes in is clean, and holds what was pulled.       *)
(***************************************************************************)

\* Ledger l of the controller, as far as it has come: clean, with components that hold what
\* its own ledger or an answer holds.
Gathered(l) ==
  /\ Clean(l)
  /\ \A n \in Peers : n \in DOMAIN l.origins =>
       \/ n \in DOMAIN ledger[Ctl].origins /\ SameCounts(l.origins[n], ledger[Ctl].origins[n])
       \/ \E y \in DOMAIN answers : n \in DOMAIN answers[y].origins
                                    /\ SameCounts(l.origins[n], answers[y].origins[n])

\* All the copies there are show what they hold.
AllClean == \A k \in Copies : Clean(k)

\* All copies agree on the versions of a common epoch.
Agreed(S) == \A k, j \in S : k.epoch = j.epoch => \A m \in Models : k.models[m] = j.models[m]

\* One pulled ledger taken in.
LEMMA AbsorbGathers ==
  ASSUME IInv, AllClean, NEW l, Taken(l), Gathered(l), NEW p \in DOMAIN answers, Agreed(Copies \cup {l})
  PROVE  Gathered(Absorb(l, answers[p], p))
<1> DEFINE r == answers[p]
           u == Absorb(l, r, p)
<1>1. /\ Ctl \in Nodes /\ r \in Copies /\ IsLedger(r) /\ Clean(r) /\ p \in Peers /\ p \in DOMAIN r.origins
      /\ IsLedger(l) /\ Ctl \in DOMAIN l.origins /\ Clean(l)
  BY CopiesAre, Ids DEF Taken, Rising, Gathered, AllClean, Ledgers, IInv, AnswersOK
<1>2. /\ Clean(u)
      /\ \A n \in Peers : n \in DOMAIN u.origins =>
           \/ n \in DOMAIN l.origins /\ SameCounts(u.origins[n], l.origins[n])
           \/ n \in DOMAIN r.origins /\ SameCounts(u.origins[n], r.origins[n])
  <2>1. CASE p \in reconciled
    <3> DEFINE w == Merge(Ctl, l, r)
    <3>1. u = w
      BY <2>1 DEF Absorb
    <3>2. l.epoch = r.epoch => \A m \in Models : l.models[m] = r.models[m]
      BY <1>1 DEF Agreed
    <3>3. Clean(w)
      BY <1>1, <3>2, MergeClean
    <3>4. \/ \A o \in Nodes : o # Ctl => Alike(o, w, r)
          \/ w = l
          \/ \A o \in Nodes : Joins(o, w, l, r)
      BY <1>1, MergeParts
    <3>5. \A n \in Peers : n \in Nodes /\ n # Ctl
      BY Ids DEF Peers
    <3> HIDE DEF w, r
    <3>6. ASSUME NEW n \in Peers, n \in DOMAIN w.origins
          PROVE  \/ n \in DOMAIN l.origins /\ w.origins[n] = l.origins[n]
                 \/ n \in DOMAIN r.origins /\ w.origins[n] = r.origins[n]
      BY <3>4, <3>5, <3>6 DEF Alike, Joins
    <3> QED BY <3>1, <3>3, <3>6 DEF SameCounts
  <2>2. CASE p \notin reconciled
    <3> DEFINE w == Reconciled(l, r, p)
    <3>1. u = w
      BY <2>2 DEF Absorb
    <3>2. Clean(w) /\ \A o \in DOMAIN w.origins :
              \/ o \in DOMAIN l.origins /\ SameCounts(w.origins[o], l.origins[o])
              \/ o = p /\ SameCounts(w.origins[o], r.origins[o])
      BY <1>1, ReconciledClean
    <3> QED BY <1>1, <3>1, <3>2
  <2> QED BY <2>1, <2>2
<1> HIDE DEF u
<1>3. Clean(u)
  BY <1>2
<1>4. ASSUME NEW n \in Peers, n \in DOMAIN u.origins
      PROVE  \/ n \in DOMAIN ledger[Ctl].origins /\ SameCounts(u.origins[n], ledger[Ctl].origins[n])
             \/ \E y \in DOMAIN answers : n \in DOMAIN answers[y].origins
                                          /\ SameCounts(u.origins[n], answers[y].origins[n])
  BY <1>2, <1>4 DEF Gathered, SameCounts
<1> QED BY <1>3, <1>4 DEF Gathered, u

\* All of them.
LEMMA AbsorbedGathers ==
  ASSUME IInv, ~spent.lost, AllClean, NEW m, NEW v, Line("equal", m, v, Ctl, ledger[Ctl], Copies)
  PROVE  Taken(Absorbed) /\ Gathered(Absorbed) /\ Agreed(Copies \cup {Absorbed})
<1> DEFINE N == Len(PeerOrder)
           P == {i \in 0..N : Taken(Absorbing[i]) /\ Gathered(Absorbing[i])}
<1>1. N \in Nat /\ Ctl \in Nodes /\ ledger[Ctl] \in Copies
  BY UsageAssumption, Ids, CopiesAre
<1>2. \A l : Taken(l) => Agreed(Copies \cup {l})
  <2> SUFFICES ASSUME NEW l, Taken(l) PROVE Agreed(Copies \cup {l})
    OBVIOUS
  <2>1. Line("equal", m, v, Ctl, l, Copies \cup {l})
    BY <1>1, NotRewound DEF Taken, Moves, Modes, Mode
  <2> QED BY <2>1 DEF Line, SameVersions, Agreed
<1>3. 0 \in P
  <2>1. Absorbing[0] = ledger[Ctl] /\ 0 \in 0..N
    BY <1>1, AbsorbingIs
  <2>2. Taken(ledger[Ctl])
    BY StartTaken
  <2>3. Gathered(ledger[Ctl])
    BY <1>1 DEF Gathered, AllClean, SameCounts
  <2> QED BY <2>1, <2>2, <2>3
<1>4. ASSUME NEW i \in 1..N, i - 1 \in P PROVE i \in P
  <2> DEFINE p == PeerOrder[i]
             l == Absorbing[i - 1]
  <2>1. i \in 0..N /\ i # 0 /\ Taken(l) /\ Gathered(l)
    BY <1>1, <1>4
  <2>2. Absorbing[i] = IF p \in DOMAIN answers THEN Absorb(l, answers[p], p) ELSE l
    BY <2>1, AbsorbingIs
  <2> HIDE DEF l, p
  <2>3. ASSUME p \in DOMAIN answers PROVE Taken(Absorb(l, answers[p], p)) /\ Gathered(Absorb(l, answers[p], p))
    BY <1>2, <2>1, <2>3, MergeTaken, ReconcileTaken, AbsorbGathers
  <2> QED BY <2>1, <2>2, <2>3
<1>5. N \in P
  <2> HIDE DEF P
  <2>1. \A i \in 0..N : i \in P
    BY <1>1, <1>3, <1>4, Upto
  <2> QED BY <1>1, <2>1
<1> QED BY <1>2, <1>5 DEF Absorbed

\* A joining peer that takes in a push keeps its counts, and keeps its standing as long as the
\* push has nothing newer of it than it has itself, or is not adopted.
LEMMA ClaimMoves ==
  ASSUME NEW m, NEW v, NEW x \in Nodes, NEW S, Ledgers(S), NEW l \in S, x \in DOMAIN l.origins,
         Line("equal", m, v, x, l, S), NEW r \in S, \A k \in S : Clean(k),
         x \in DOMAIN r.origins => Behind(r.origins[x], l.origins[x]) \/ ~Higher(r.epoch, l.epoch)
  PROVE  LET u == Merge(x, l, Preserved(x, l, r)) IN
         /\ Line("equal", m, v, x, u, S \cup {u})
         /\ SameCounts(u.origins[x], l.origins[x])
<1> DEFINE p == Preserved(x, l, r)
           u == Merge(x, l, p)
<1>1. IsLedger(l) /\ IsLedger(r) /\ Clean(l) /\ Clean(r)
  BY DEF Ledgers
<1>2. /\ IsLedger(p) /\ p.epoch = r.epoch /\ p.models = r.models
      /\ DOMAIN p.origins = DOMAIN r.origins \cup {x}
      /\ \A o \in DOMAIN r.origins : o # x => p.origins[o] = r.origins[o]
      /\ Clean(p) /\ SameCounts(p.origins[x], l.origins[x])
  <2>1. Clean(p) /\ SameCounts(p.origins[x], l.origins[x])
    BY <1>1, PreservedClean
  <2>2. /\ IsLedger(p) /\ p.epoch = r.epoch /\ p.models = r.models
        /\ DOMAIN p.origins = DOMAIN r.origins \cup {x}
        /\ \A o \in DOMAIN r.origins : o # x => p.origins[o] = r.origins[o]
    BY <1>1, PreservedIs
  <2> QED BY <2>1, <2>2
<1>3. Agreed(S)
  BY DEF Line, SameVersions, Agreed
<1>4. /\ IsLedger(u) /\ x \in DOMAIN u.origins
      /\ \/ /\ Higher(p.epoch, l.epoch) /\ u.epoch = p.epoch /\ u.models = p.models
            /\ x \in DOMAIN p.origins => u.origins[x] = p.origins[x]
         \/ Higher(l.epoch, p.epoch) /\ u = l
         \/ \A o \in Nodes : Joins(o, u, l, p)
  BY <1>1, <1>2, MergeParts
<1>5. /\ l.origins[x] \in Component /\ p.origins[x] \in Component
      /\ \A k \in S : x \in DOMAIN k.origins => k.origins[x] \in Component
      /\ l.epoch \in Version /\ r.epoch \in Version
  BY <1>1, <1>2, LedgerParts DEF Ledgers
<1> HIDE DEF p, u
<1>6. CASE Higher(r.epoch, l.epoch) /\ u.epoch = r.epoch /\ u.models = r.models /\ u.origins[x] = p.origins[x]
  <2>1. \A j \in S : j.epoch = u.epoch => Trails("equal", m, v, x, u, j)
    <3> SUFFICES ASSUME NEW j \in S, j.epoch = r.epoch, x \in DOMAIN j.origins
                 PROVE  j.origins[x].rev < u.origins[x].rev \/ j.origins[x] = u.origins[x]
      BY <1>4, <1>6 DEF Trails
    <3>1. Trails("equal", m, v, x, r, j)
      BY <1>6 DEF Line, AllTrail
    <3>2. x \in DOMAIN r.origins /\ (j.origins[x].rev < r.origins[x].rev \/ j.origins[x] = r.origins[x])
      BY <3>1 DEF Trails
    <3>3. Behind(r.origins[x], l.origins[x])
      BY <1>6, <3>2
    <3>4. Behind(r.origins[x], p.origins[x])
      BY <1>2, <1>5, <3>3, BehindIs
    <3>5. CASE SameCounts(r.origins[x], p.origins[x])
      <4>1. Shown(r.origins[x], r.models) /\ Shown(p.origins[x], r.models)
        BY <1>1, <1>2, <3>2 DEF Clean
      <4>2. r.origins[x] = p.origins[x]
        BY <1>5, <3>2, <3>5, <4>1, ShownEqual
      <4> QED BY <1>6, <3>2, <4>2
    <3>6. CASE r.origins[x].rev < p.origins[x].rev
      <4>1. j.origins[x].rev \in Nat /\ r.origins[x].rev \in Nat /\ p.origins[x].rev \in Nat
        BY <1>5, <3>2, ComponentParts
      <4> QED BY <1>6, <3>2, <3>6, <4>1
    <3> QED BY <3>4, <3>5, <3>6 DEF Behind
  <2>2. AllTrail("equal", m, v, x, u, S \cup {u})
    BY <1>4, <1>6, <2>1, OwnMoves DEF Modes, Mode
  <2>3. SameVersions("equal", m, v, S \cup {u})
    BY <1>3, <1>6 DEF SameVersions, Agreed
  <2>4. Carried("equal", m, v, x, u, S \cup {u})
    BY DEF Carried
  <2> QED BY <1>2, <1>6, <2>2, <2>3, <2>4 DEF Line, u, p
<1>7. CASE u = l
  <2>1. S \cup {u} = S
    BY <1>7
  <2> QED BY <1>7, <2>1 DEF SameCounts, u, p
<1>8. CASE \A o \in Nodes : Joins(o, u, l, p)
  <2>1. p.origins[x].rev = l.origins[x].rev /\ l.origins[x].rev \in Nat
    BY <1>2, <1>5, ComponentParts DEF SameCounts
  <2>2. u.origins[x] = l.origins[x] /\ u.epoch = l.epoch /\ r.epoch = l.epoch
    BY <1>2, <1>4, <1>8, <2>1 DEF Joins, Newer
  <2>3. \A y \in Models : u.models[y] = l.models[y]
    <3>1. \A y \in Models : l.models[y] = r.models[y] /\ l.models[y] \in Version
      BY <1>1, <1>3, <2>2, LedgerParts DEF Agreed
    <3>2. \A y \in Models : u.models[y] = Later(l.models[y], r.models[y])
      BY <1>2, <1>8 DEF Joins
    <3> QED BY <3>1, <3>2, LaterIs
  <2>4. Alike(x, u, l)
    BY <1>4, <2>2, <2>3 DEF Alike
  <2>5. \A j \in S : j.epoch = u.epoch => Trails("equal", m, v, x, u, j)
    <3> SUFFICES ASSUME NEW j \in S, j.epoch = l.epoch, x \in DOMAIN j.origins
                 PROVE  j.origins[x].rev < u.origins[x].rev \/ j.origins[x] = u.origins[x]
      BY <1>4, <2>2 DEF Trails
    <3>1. Trails("equal", m, v, x, l, j)
      BY DEF Line, AllTrail
    <3> QED BY <2>2, <3>1 DEF Trails
  <2>6. AllTrail("equal", m, v, x, u, S \cup {u})
    BY <1>4, <2>2, <2>5, OwnMoves DEF Modes, Mode
  <2>7. SameVersions("equal", m, v, S \cup {u})
    BY <1>3, <2>2, <2>3 DEF SameVersions, Agreed
  <2>8. Carried("equal", m, v, x, u, S \cup {u})
    BY DEF Carried
  <2> QED BY <2>2, <2>6, <2>7, <2>8 DEF Line, SameCounts, u, p
<1> QED BY <1>2, <1>4, <1>6, <1>7, <1>8

\* A peer that takes a push in stays clean, and has of every other origin what it had or was pushed.
LEMMA ServeGathers ==
  ASSUME IInv, AllClean, Agreed(Copies), NEW x \in Peers, NEW r \in Copies, NEW claimed \in BOOLEAN,
         Serve(x, r, claimed)
  PROVE  /\ Clean(ledger'[x])
         /\ \A n \in Nodes : n # x /\ n \in DOMAIN ledger'[x].origins =>
              \/ n \in DOMAIN ledger[x].origins /\ ledger'[x].origins[n] = ledger[x].origins[n]
              \/ n \in DOMAIN r.origins /\ ledger'[x].origins[n] = r.origins[n]
         /\ claimed => ledger'[x] = Merge(x, ledger[x], Preserved(x, ledger[x], r))
<1> DEFINE l == ledger[x]
           p == IF claimed THEN Preserved(x, l, r) ELSE r
           u == Merge(x, l, p)
<1>1. /\ x \in Nodes /\ IsLedger(l) /\ IsLedger(r) /\ x \in DOMAIN l.origins /\ Clean(l) /\ Clean(r)
      /\ l \in Copies /\ DOMAIN ledger = Nodes
  BY Ids, CopiesAre DEF AllClean, Ledgers, IInv, RoundOK
<1>2. ledger'[x] = u
  BY <1>1 DEF Serve, Keep
<1>3. /\ IsLedger(p) /\ p.epoch = r.epoch /\ p.models = r.models /\ Clean(p)
      /\ \A o \in DOMAIN p.origins : o # x => o \in DOMAIN r.origins /\ p.origins[o] = r.origins[o]
  <2>1. CASE claimed
    <3> DEFINE w == Preserved(x, l, r)
    <3>1. p = w
      BY <2>1
    <3>2. Clean(w)
      BY <1>1, PreservedClean
    <3>3. /\ IsLedger(w) /\ w.epoch = r.epoch /\ w.models = r.models
          /\ DOMAIN w.origins = DOMAIN r.origins \cup {x}
          /\ \A o \in DOMAIN r.origins : o # x => w.origins[o] = r.origins[o]
      BY <1>1, PreservedIs
    <3> QED BY <3>1, <3>2, <3>3
  <2>2. CASE ~claimed
    BY <1>1, <2>2
  <2> QED BY <2>1, <2>2
<1> HIDE DEF p
<1>4. l.epoch = p.epoch => \A m \in Models : l.models[m] = p.models[m]
  BY <1>1, <1>3 DEF Agreed
<1>5. Clean(u)
  BY <1>1, <1>3, <1>4, MergeClean
<1>6. \/ \A o \in Nodes : o # x => Alike(o, u, p)
      \/ u = l
      \/ \A o \in Nodes : Joins(o, u, l, p)
  BY <1>1, <1>3, MergeParts
<1> HIDE DEF u, l
<1>7. ASSUME NEW n \in Nodes, n # x, n \in DOMAIN u.origins
      PROVE  \/ n \in DOMAIN l.origins /\ u.origins[n] = l.origins[n]
             \/ n \in DOMAIN r.origins /\ u.origins[n] = r.origins[n]
  BY <1>3, <1>6, <1>7 DEF Alike, Joins
<1> QED BY <1>2, <1>5, <1>7 DEF l, u, p

(***************************************************************************)
(* Peers that joined later: equal revisions of their components are equal, *)
(* too, as long as nothing was erased and, once there was a reset, no first *)
(* sync was left unfinished.                                               *)
(***************************************************************************)

\* Who is asked, claimed and confirmed in a round, and what is still under way.
Addressed ==
  /\ phase = "push" => asked \subseteq claims \cup reconciled /\ asked \cap confirmed = {}
  /\ phase # "push" => claims = {} /\ confirmed = {}
  /\ claims \cap reconciled = {}
  /\ \A p \in late : ~p.claimed => p.to \in reconciled

\* No first sync was cut short or left unconfirmed, nor will this round leave one so.
Whole == ~spent.torn /\ (phase = "push" => claims \subseteq asked \cup confirmed)

\* Equal revisions of node n's component have equal contents.
Equal(n) == Line("equal", Never, Never, n, ledger[n], Copies)

\* Nobody has counts of node n that are newer than its own, under any epoch.
Held(n) == \A k \in Copies : n \in DOMAIN k.origins => Behind(k.origins[n], ledger[n].origins[n])

\* Nobody but node n has a component of it, but for the answer it may have given.
Alone(n) ==
  /\ \A x \in Nodes \ {n} : n \notin DOMAIN ledger[x].origins
  /\ \A y \in DOMAIN answers : n \in DOMAIN answers[y].origins =>
       y = n /\ Behind(answers[y].origins[n], ledger[n].origins[n])
  /\ n \notin DOMAIN snap.origins
  /\ \A p \in late : n \notin DOMAIN p.ledger.origins

\* The standing of a peer that joined later.
Joining(n) ==
  /\ spent.resets = 0 \/ Whole => Equal(n)
  /\ spent.resets = 0 /\ n \notin reconciled => Held(n)
  /\ Whole /\ n \notin reconciled \cup claims => Alone(n)
  /\ Whole /\ n \in claims \cap asked /\ n \in DOMAIN snap.origins =>
       Behind(snap.origins[n], ledger[n].origins[n])

\* The standing of equal revisions, unless a save was lost or a model erased.
EqualStands ==
  ~spent.lost /\ spent.erases = 0 =>
    /\ AllClean
    /\ Whole => \A p \in late : ~p.claimed
    /\ \A n \in Peers \ Joined : Joining(n)

\* The old ones' components.
LEMMA OldEqual ==
  ASSUME OldStands, ~spent.lost, spent.erases = 0
  PROVE  \A n \in Joined \cup {Ctl} : Equal(n)
<1>1. PICK mode \in {"equal", "erased"}, m \in Models \cup {Never}, v \in Version :
        /\ Mode(mode, m, v) /\ (spent.erases = 0 => mode = "equal")
        /\ \A n \in Joined \cup {Ctl} : Line(mode, m, v, n, ledger[n], Copies)
  BY DEF OldStands
<1>2. \A n \in Joined \cup {Ctl} : Line("equal", m, v, n, ledger[n], Copies)
  BY <1>1
<1> QED BY <1>2 DEF Equal, Line, AllTrail, Trails, SameVersions, Carried

\* The copies of one epoch have the same versions of the models, as nothing was erased.
LEMMA CopiesAgree ==
  ASSUME OldStands, ~spent.lost, spent.erases = 0
  PROVE  Agreed(Copies)
<1>1. Equal(Ctl)
  BY OldEqual
<1> QED BY <1>1 DEF Equal, Line, SameVersions, Agreed

\* What a step in which node x's ledger becomes u does to each part.
LEMMA EqualBecomes ==
  ASSUME IInv, ~spent.lost, NEW n \in Nodes, Equal(n), NEW x, NEW u, Becomes(x, u), Moves(n, x, u)
  PROVE  Equal(n)'
BY NotRewound, LineBecomes DEF Equal, Modes, Mode

\* A node that comes to a clean ledger leaves all the copies clean.
LEMMA CleanBecomes ==
  ASSUME AllClean, NEW x, NEW u, Becomes(x, u), Clean(u)
  PROVE  AllClean'
BY DEF AllClean, Becomes

\* A node whose ledger changes gives no one newer counts of a peer than the peer has itself.
LEMMA HeldBecomes ==
  ASSUME IInv, NEW n \in Nodes, Held(n), NEW x \in Nodes, NEW u, Becomes(x, u), IsLedger(u),
         n = x => x \in DOMAIN u.origins /\ Behind(ledger[x].origins[x], u.origins[x]),
         n # x /\ n \in DOMAIN u.origins =>
           \E k \in Copies : n \in DOMAIN k.origins /\ SameCounts(u.origins[n], k.origins[n])
  PROVE  Held(n)'
<1>1. /\ \A k \in Copies \cup {u} : n \in DOMAIN k.origins => k.origins[n] \in Component
      /\ n \in DOMAIN ledger[n].origins /\ ledger[n] \in Copies
  BY CopiesAre, LedgerParts DEF Ledgers
<1>2. ledger'[n] = (IF n = x THEN u ELSE ledger[n]) /\ Copies' \subseteq Copies \cup {u}
  BY DEF Becomes
<1>3. ASSUME NEW k \in Copies \cup {u}, n \in DOMAIN k.origins
      PROVE  Behind(k.origins[n], ledger'[n].origins[n])
  <2>1. CASE k \in Copies
    <3>1. Behind(k.origins[n], ledger[n].origins[n])
      BY <1>3, <2>1 DEF Held
    <3>2. CASE n = x
      BY <1>1, <1>2, <1>3, <2>1, <3>1, <3>2, BehindIs
    <3>3. CASE n # x
      BY <1>2, <3>1, <3>3
    <3> QED BY <3>2, <3>3
  <2>2. CASE k = u
    <3>1. CASE n = x
      BY <1>1, <1>2, <1>3, <2>2, <3>1, BehindIs
    <3>2. CASE n # x
      <4>1. PICK j \in Copies : n \in DOMAIN j.origins /\ SameCounts(u.origins[n], j.origins[n])
        BY <1>3, <2>2, <3>2
      <4>2. Behind(j.origins[n], ledger[n].origins[n])
        BY <4>1 DEF Held
      <4> QED BY <1>1, <1>2, <2>2, <3>2, <4>1, <4>2, BehindIs
    <3> QED BY <3>1, <3>2
  <2> QED BY <2>1, <2>2
<1> QED BY <1>2, <1>3 DEF Held

\* A peer nobody else has a component of stays so while the others learn nothing of it.
LEMMA AloneBecomes ==
  ASSUME IInv, NEW n \in Nodes, Alone(n), NEW x \in Nodes, NEW u, Becomes(x, u), IsLedger(u),
         n = x => x \in DOMAIN u.origins /\ Behind(ledger[x].origins[x], u.origins[x]),
         n # x => n \notin DOMAIN u.origins,
         \A y \in DOMAIN answers' : \/ y \in DOMAIN answers /\ answers'[y] = answers[y]
                                    \/ y \in Nodes /\ answers'[y] = ledger'[y],
         n \notin DOMAIN snap'.origins, \A p \in late' : n \notin DOMAIN p.ledger.origins
  PROVE  Alone(n)'
<1>1. /\ \A k \in Copies \cup {u} : n \in DOMAIN k.origins => k.origins[n] \in Component
      /\ n \in DOMAIN ledger[n].origins /\ \A y \in Nodes : ledger[y] \in Copies
      /\ \A y \in DOMAIN answers : answers[y] \in Copies
  BY CopiesAre, LedgerParts DEF Ledgers
<1>2. \A y \in Nodes : ledger'[y] = IF y = x THEN u ELSE ledger[y]
  BY DEF Becomes
<1>3. \A y \in Nodes \ {n} : n \notin DOMAIN ledger'[y].origins
  BY <1>2 DEF Alone
<1>4. ASSUME NEW y \in DOMAIN answers', n \in DOMAIN answers'[y].origins
      PROVE  y = n /\ Behind(answers'[y].origins[n], ledger'[n].origins[n])
  <2>1. CASE y \in DOMAIN answers /\ answers'[y] = answers[y]
    <3>1. y = n /\ Behind(answers[y].origins[n], ledger[n].origins[n])
      BY <1>4, <2>1 DEF Alone
    <3>2. CASE n = x
      BY <1>1, <1>2, <1>4, <2>1, <3>1, <3>2, BehindIs
    <3>3. CASE n # x
      BY <1>2, <2>1, <3>1, <3>3
    <3> QED BY <3>2, <3>3
  <2>2. CASE y \in Nodes /\ answers'[y] = ledger'[y]
    <3>1. y = n
      BY <1>3, <1>4, <2>2
    <3>2. ledger'[n].origins[n] \in Component
      BY <1>1, <1>2, <1>4, <2>2, <3>1
    <3> QED BY <2>2, <3>1, <3>2, BehindIs
  <2> QED BY <1>4, <2>1, <2>2
<1> QED BY <1>3, <1>4 DEF Alone

\* Who is addressed follows from the round alone.
LEMMA AddressedStays ==
  ASSUME IInv, Addressed, [Next]_vars
  PROVE  Addressed'
<1>1. CASE StartRound
  BY <1>1 DEF StartRound, Addressed
<1>2. ASSUME NEW n \in Peers, AnswerPull(n) \/ FailPull(n) PROVE Addressed'
  BY <1>2 DEF AnswerPull, FailPull, Addressed
<1>3. CASE MergePulls
  BY <1>3, PullsSpend DEF MergePulls, Addressed
<1>4. ASSUME NEW n \in Peers, ServePush(n) PROVE Addressed'
  BY <1>4 DEF ServePush, Addressed
<1>5. ASSUME NEW n \in Peers, TimeoutPush(n) PROVE Addressed'
  <2> DEFINE p == [to |-> n, ledger |-> snap, claimed |-> n \in claims]
  <2>1. late' = late \cup {p} /\ n \in asked /\ phase = "push" /\ asked' = asked \ {n}
        /\ UNCHANGED <<phase, claims, confirmed, reconciled>>
    BY <1>5 DEF TimeoutPush
  <2>2. p.to = n /\ (p.claimed <=> n \in claims)
    OBVIOUS
  <2> HIDE DEF p
  <2> QED BY <2>1, <2>2 DEF Addressed
<1>6. ASSUME NEW p \in late, ServeLate(p) PROVE Addressed'
  BY <1>6 DEF ServeLate, Addressed, round
<1>7. CASE EndRound
  BY <1>7 DEF EndRound, Addressed
<1>8. ASSUME NEW n \in Nodes, Restart(n) PROVE Addressed'
  BY <1>8 DEF Restart, Addressed, round
<1>9. ASSUME NEW n \in Nodes, NEW m \in Models, Record(n, m) \/ Erase(n, m) PROVE Addressed'
  <2>1. UNCHANGED <<phase, asked, claims, confirmed, reconciled, late>>
    BY <1>9 DEF Record, Erase, round
  <2> QED BY <2>1 DEF Addressed
<1>10. ASSUME NEW n \in Nodes, Reset(n) PROVE Addressed'
  <2>1. UNCHANGED <<phase, asked, claims, confirmed, reconciled, late>>
    BY <1>10 DEF Reset, round
  <2> QED BY <2>1 DEF Addressed
<1>11. CASE UNCHANGED vars
  BY <1>11 DEF vars, Addressed
<1> QED BY <1>1, <1>2, <1>3, <1>4, <1>5, <1>6, <1>7, <1>8, <1>9, <1>10, <1>11 DEF Next

\* Steps that leave the ledgers alone.
LEMMA QuietEqual ==
  ASSUME IInv, EqualStands, \A n \in Nodes : ledger'[n] = ledger[n], Copies' \subseteq Copies,
         spent'.erases = spent.erases, spent'.resets = spent.resets, spent.lost => spent'.lost,
         reconciled \subseteq reconciled', Whole' => Whole,
         Whole' /\ (\A p \in late : ~p.claimed) => \A p \in late' : ~p.claimed,
         \A n \in Peers \ Joined : Whole' /\ n \notin reconciled' \cup claims' =>
           n \notin reconciled \cup claims /\ (Alone(n) => Alone(n)'),
         \A n \in claims' \cap asked' : n \in DOMAIN snap'.origins => snap' = snap /\ n \in claims \cap asked
  PROVE  EqualStands'
<1> SUFFICES ASSUME ~spent.lost, spent.erases = 0, ~spent'.lost
             PROVE  /\ AllClean'
                    /\ Whole' => \A p \in late' : ~p.claimed
                    /\ \A n \in Peers \ Joined : Joining(n)'
  BY DEF EqualStands
<1>1. AllClean /\ (Whole => \A p \in late : ~p.claimed) /\ \A n \in Peers \ Joined : Joining(n)
  BY DEF EqualStands
<1>2. AllClean'
  BY <1>1 DEF AllClean
<1>3. ASSUME NEW n \in Peers \ Joined PROVE Joining(n)'
  <2>1. n \in Nodes /\ ledger'[n] = ledger[n] /\ Joining(n)
    BY <1>1, Ids
  <2>2. Equal(n) => Equal(n)'
    BY <2>1, FewerTrail DEF Equal
  <2>3. Held(n) => Held(n)'
    BY <2>1 DEF Held
  <2> QED BY <2>1, <2>2, <2>3 DEF Joining
<1> QED BY <1>1, <1>2, <1>3

\* The controller opens a round (sync_token_usage_once).
LEMMA StartRoundEqual ==
  ASSUME IInv, Addressed, EqualStands, StartRound
  PROVE  EqualStands'
<1>1. /\ ledger' = ledger /\ answers' = answers /\ snap' = snap /\ late' = late /\ spent' = spent
      /\ reconciled' = reconciled /\ claims' = claims /\ confirmed' = confirmed
      /\ phase # "push" /\ phase' # "push" /\ claims = {}
  BY DEF StartRound, Addressed
<1>2. Copies' \subseteq Copies
  BY <1>1, CopiesAre, CopiesShrink
<1>3. Whole' => Whole
  BY <1>1 DEF Whole
<1>4. \A n \in Peers \ Joined : Alone(n) => Alone(n)'
  BY <1>1 DEF Alone
<1> QED BY <1>1, <1>2, <1>3, <1>4, QuietEqual

\* A peer answers with a copy of its ledger.
LEMMA AnswerPullEqual ==
  ASSUME IInv, Addressed, EqualStands, NEW x \in Peers, AnswerPull(x)
  PROVE  EqualStands'
<1>1. /\ ledger' = ledger /\ answers' = Put(answers, x, ledger[x]) /\ snap' = snap /\ late' = late /\ spent' = spent
      /\ reconciled' = reconciled /\ claims' = claims /\ confirmed' = confirmed
      /\ phase # "push" /\ phase' # "push" /\ claims = {}
  BY DEF AnswerPull, Addressed
<1>0. /\ x \in Nodes /\ ledger[x] \in Copies /\ Ctl \in Nodes /\ ledger[Ctl] \in Copies /\ IsLedger(ledger[Ctl])
      /\ \A n \in Peers : n \in Nodes /\ n # Ctl
  BY Ids, CopiesAre DEF Peers
<1>2. \A y \in DOMAIN answers' : \/ y \in DOMAIN answers /\ answers'[y] = answers[y]
                                 \/ y = x /\ answers'[y] = ledger[y]
  BY <1>1 DEF Put
<1>3. Copies' \subseteq Copies
  BY <1>0, <1>1, <1>2, CopiesAre, CopiesShrink
<1>4. Whole' => Whole
  BY <1>1 DEF Whole
<1>5. Becomes(Ctl, ledger[Ctl])
  BY <1>0, <1>1, <1>3 DEF Becomes
<1>6. ASSUME NEW n \in Peers \ Joined, Alone(n) PROVE Alone(n)'
  <2>1. n \in Nodes /\ n # Ctl /\ n \notin DOMAIN ledger[Ctl].origins
        /\ n \notin DOMAIN snap.origins /\ \A p \in late : n \notin DOMAIN p.ledger.origins
    BY <1>0, <1>6 DEF Alone
  <2>2. \A y \in DOMAIN answers' : \/ y \in DOMAIN answers /\ answers'[y] = answers[y]
                                   \/ y \in Nodes /\ answers'[y] = ledger'[y]
    BY <1>0, <1>1, <1>2
  <2> QED BY <1>0, <1>1, <1>5, <1>6, <2>1, <2>2, AloneBecomes
<1> QED BY <1>1, <1>3, <1>4, <1>6, QuietEqual

\* A peer that does not answer is left out of the round.
LEMMA FailPullEqual ==
  ASSUME IInv, Addressed, EqualStands, NEW x \in Peers, FailPull(x)
  PROVE  EqualStands'
<1>1. /\ ledger' = ledger /\ answers' = answers /\ snap' = snap /\ late' = late
      /\ spent' = [spent EXCEPT !.faults = @ + 1]
      /\ reconciled' = reconciled /\ claims' = claims /\ confirmed' = confirmed
      /\ phase # "push" /\ phase' # "push" /\ claims = {}
  BY DEF FailPull, Addressed
<1>0. spent'.erases = spent.erases /\ spent'.resets = spent.resets /\ spent'.lost = spent.lost /\ spent'.torn = spent.torn
  BY <1>1 DEF IInv, HistoryOK, SpentType
<1>2. Copies' \subseteq Copies
  BY <1>1, CopiesAre, CopiesShrink
<1>3. Whole' => Whole
  BY <1>0, <1>1 DEF Whole
<1>4. \A n \in Peers \ Joined : Alone(n) => Alone(n)'
  BY <1>1 DEF Alone
<1> QED BY <1>0, <1>1, <1>2, <1>3, <1>4, QuietEqual

\* A push given up by the controller is still under way: a first sync may be cut short.
LEMMA TimeoutPushEqual ==
  ASSUME IInv, Addressed, EqualStands, NEW x \in Peers, TimeoutPush(x)
  PROVE  EqualStands'
<1> DEFINE p == [to |-> x, ledger |-> snap, claimed |-> x \in claims]
<1>1. /\ ledger' = ledger /\ answers' = answers /\ snap' = snap /\ late' = late \cup {p}
      /\ spent' = [spent EXCEPT !.faults = @ + 1]
      /\ reconciled' = reconciled /\ claims' = claims /\ confirmed' = confirmed
      /\ phase = "push" /\ phase' = phase /\ x \in asked /\ asked' = asked \ {x}
  BY DEF TimeoutPush
<1>2. p.ledger = snap /\ (p.claimed <=> x \in claims)
  OBVIOUS
<1> HIDE DEF p
<1>3. Copies' \subseteq Copies
  BY <1>1, <1>2, CopiesAre, CopiesShrink
<1>0. spent'.erases = spent.erases /\ spent'.resets = spent.resets /\ spent'.lost = spent.lost /\ spent'.torn = spent.torn
  BY <1>1 DEF IInv, HistoryOK, SpentType
<1>4. Whole' => x \notin claims /\ Whole
  BY <1>0, <1>1 DEF Whole, Addressed
<1>5. Whole' /\ (\A q \in late : ~q.claimed) => \A q \in late' : ~q.claimed
  BY <1>1, <1>2, <1>4
<1>6. \A n \in Peers \ Joined : Alone(n) => Alone(n)'
  BY <1>1, <1>2 DEF Alone
<1> QED BY <1>0, <1>1, <1>3, <1>4, <1>5, <1>6, QuietEqual

\* The round ends: a first sync it left unconfirmed is torn, and the rest are reconciled.
LEMMA EndRoundEqual ==
  ASSUME IInv, Addressed, EqualStands, EndRound
  PROVE  EqualStands'
<1>1. /\ ledger' = ledger /\ answers' = answers /\ snap' = Fresh({}) /\ late' = late
      /\ spent' = [spent EXCEPT !.torn = @ \/ ~(claims \subseteq confirmed)]
      /\ reconciled' = reconciled \cup (claims \cap confirmed) /\ claims' = {} /\ confirmed' = {}
      /\ phase = "push" /\ phase' = "idle"
  BY DEF EndRound
<1>2. Copies' \subseteq Copies
  BY <1>1, CopiesAre, CopiesShrink
<1>0. /\ spent'.erases = spent.erases /\ spent'.resets = spent.resets /\ spent'.lost = spent.lost
      /\ spent'.torn = (spent.torn \/ ~(claims \subseteq confirmed))
  <2> DEFINE b == spent.torn \/ ~(claims \subseteq confirmed)
  <2>1. spent' = [spent EXCEPT !.torn = b] /\ spent \in SpentType
    BY <1>1 DEF IInv, HistoryOK
  <2> HIDE DEF b
  <2>2. spent'.erases = spent.erases /\ spent'.resets = spent.resets /\ spent'.lost = spent.lost /\ spent'.torn = b
    BY <2>1 DEF SpentType
  <2> QED BY <2>2 DEF b
<1>3. Whole' => Whole /\ claims \subseteq confirmed
  BY <1>0, <1>1 DEF Whole
<1>4. DOMAIN Fresh({}).origins = {}
  BY FreshIs
<1>5. \A n \in Peers \ Joined : Alone(n) => Alone(n)'
  BY <1>1, <1>4 DEF Alone
<1> QED BY <1>0, <1>1, <1>2, <1>3, <1>5, QuietEqual

\* A restart from the saved ledger; the controller's cuts the first syncs of its round short.
LEMMA RestartEqual ==
  ASSUME IInv, Addressed, EqualStands, NEW x \in Nodes, Restart(x)
  PROVE  EqualStands'
<1>0. /\ spent'.erases = spent.erases /\ spent'.resets = spent.resets
      /\ spent'.lost = (spent.lost \/ disk[x] # ledger[x])
      /\ spent'.torn = (spent.torn \/ (x = Ctl /\ claims # {}))
  BY RestartSpends
<1>1. CASE spent.lost \/ disk[x] # ledger[x]
  BY <1>0, <1>1 DEF EqualStands
<1>2. CASE ~spent.lost /\ disk[x] = ledger[x]
  <2>0. \A o \in Nodes : ledger'[o] = ledger[o]
    BY <1>2 DEF Restart, IInv, RoundOK
  <2>1. /\ reconciled' = reconciled /\ late' = late
        /\ \/ /\ x = Ctl /\ phase' = "idle" /\ answers' = <<>> /\ snap' = Fresh({}) /\ claims' = {} /\ confirmed' = {}
           \/ /\ phase' = phase /\ answers' = answers /\ snap' = snap
              /\ claims' = claims /\ confirmed' = confirmed /\ asked' = asked
    BY DEF Restart, round
  <2>2. Copies' \subseteq Copies
    <3>1. snap' \in Copies /\ \A y \in DOMAIN answers' : answers'[y] \in Copies
      BY <2>1, CopiesAre
    <3> QED BY <2>0, <2>1, <3>1, CopiesAre, CopiesShrink
  <2>3. Whole' => Whole /\ (claims' = claims)
    BY <1>0, <2>1 DEF Whole, Addressed
  <2>4. DOMAIN Fresh({}).origins = {}
    BY FreshIs
  <2>5. ASSUME NEW n \in Peers \ Joined, Alone(n) PROVE Alone(n)'
    <3>1. n \in Nodes
      BY Ids
    <3> QED BY <2>0, <2>1, <2>4, <2>5, <3>1 DEF Alone
  <2> QED BY <1>0, <2>0, <2>1, <2>2, <2>3, <2>5, QuietEqual
<1> QED BY <1>1, <1>2

\* A step of a node's own raises the revision of its component.
LEMMA OwnStepEqual ==
  ASSUME IInv, EqualStands, NEW x \in Nodes, NEW u, Becomes(x, u), IsLedger(u),
         AllClean => Clean(u), \A n \in Nodes : Moves(n, x, u),
         DOMAIN u.origins = DOMAIN ledger[x].origins, u.origins[x].rev = ledger[x].origins[x].rev + 1,
         spent'.resets = 0 => /\ spent.resets = 0
                              /\ \A n \in DOMAIN u.origins : n # x => u.origins[n] = ledger[x].origins[n],
         spent'.erases = spent.erases, spent'.lost = spent.lost, spent'.torn = spent.torn,
         UNCHANGED <<reconciled, round, late>>
  PROVE  EqualStands'
<1>1. /\ reconciled' = reconciled /\ late' = late /\ phase' = phase /\ asked' = asked /\ answers' = answers
      /\ snap' = snap /\ claims' = claims /\ confirmed' = confirmed
  BY DEF round
<1>2. Whole' <=> Whole
  BY <1>1 DEF Whole
<1> SUFFICES ASSUME ~spent.lost, spent.erases = 0
             PROVE  AllClean' /\ (Whole => \A p \in late : ~p.claimed) /\ \A n \in Peers \ Joined : Joining(n)'
  BY <1>1, <1>2 DEF EqualStands
<1>3. AllClean /\ (Whole => \A p \in late : ~p.claimed) /\ \A n \in Peers \ Joined : Joining(n)
  BY DEF EqualStands
<1>4. AllClean'
  BY <1>3, CleanBecomes
<1>5. ASSUME NEW n \in Peers \ Joined PROVE Joining(n)'
  <2>1. /\ n \in Nodes /\ n \in DOMAIN ledger[n].origins /\ ledger[n].origins[n] \in Component
        /\ ledger[x] \in Copies /\ x \in DOMAIN ledger[x].origins /\ ledger[x].origins[x] \in Component
        /\ (n \in DOMAIN snap.origins => snap.origins[n] \in Component)
    BY Ids, CopiesAre, LedgerParts DEF Ledgers
  <2>2. /\ Behind(ledger[x].origins[x], u.origins[x]) /\ x \in DOMAIN u.origins
        /\ \A y \in Nodes : ledger'[y] = IF y = x THEN u ELSE ledger[y]
    <3>1. Behind(ledger[x].origins[x], ledger[x].origins[x])
      BY <2>1, BehindIs
    <3> QED BY <2>1, <3>1, BehindIs DEF Becomes
  <2>3. Equal(n) => Equal(n)'
    BY <2>1, EqualBecomes
  <2>4. Held(n) /\ spent'.resets = 0 => Held(n)'
    <3>1. ASSUME spent'.resets = 0, n # x, n \in DOMAIN u.origins
          PROVE  \E k \in Copies : n \in DOMAIN k.origins /\ SameCounts(u.origins[n], k.origins[n])
      BY <2>1, <3>1 DEF SameCounts
    <3> QED BY <2>1, <2>2, <3>1, HeldBecomes
  <2>5. Alone(n) => Alone(n)'
    <3> SUFFICES ASSUME Alone(n) PROVE Alone(n)'
      OBVIOUS
    <3>1. n # x => n \notin DOMAIN u.origins
      BY DEF Alone
    <3>2. n \notin DOMAIN snap'.origins /\ \A p \in late' : n \notin DOMAIN p.ledger.origins
      BY <1>1 DEF Alone
    <3> QED BY <1>1, <2>1, <2>2, <3>1, <3>2, AloneBecomes
  <2>6. n \in DOMAIN snap.origins /\ Behind(snap.origins[n], ledger[n].origins[n])
          => Behind(snap.origins[n], ledger'[n].origins[n])
    BY <2>1, <2>2, BehindIs
  <2>7. Joining(n)
    BY <1>3
  <2> QED BY <1>1, <1>2, <2>3, <2>4, <2>5, <2>6, <2>7 DEF Joining
<1> QED BY <1>3, <1>4, <1>5

\* A request recorded (_record_tokens) gives the node's component a revision no copy has.
LEMMA RecordEqual ==
  ASSUME IInv, EqualStands, NEW x \in Nodes, NEW m \in Models, Record(x, m)
  PROVE  EqualStands'
<1> DEFINE l == ledger[x]
           r == Len(log) + 1
<1>1. PICK u : /\ Becomes(x, u) /\ IsLedger(u) /\ \A n \in Nodes : Moves(n, x, u)
               /\ u.origins[x].rev = ledger[x].origins[x].rev + 1
  BY RecordMoves
<1>2. /\ ledger'[x] = Counting(l, x, m, r) /\ UNCHANGED <<reconciled, round, late>>
      /\ IsLedger(l) /\ x \in DOMAIN l.origins /\ l \in Copies
  BY CopiesAre DEF Record, IInv, RoundOK
<1>3. u = Counting(l, x, m, r)
  BY <1>1, <1>2 DEF Becomes
<1>4. r \in Requests
  <2>1. Len(log) \in Nat /\ Len(log) < MaxRequests /\ MaxRequests \in Nat
    BY Ids DEF Record, IInv, HistoryOK
  <2> QED BY <2>1 DEF Requests
<1>5. CountsOne(u, l, x, m, r)
  BY <1>2, <1>3, <1>4, CountingIs
<1>6. AllClean => Clean(u)
  BY <1>2, <1>3, <1>4, CountingClean DEF AllClean
<1>7. /\ spent'.erases = spent.erases /\ spent'.resets = spent.resets
      /\ spent'.lost = spent.lost /\ spent'.torn = spent.torn
  BY DEF Record, IInv, HistoryOK, SpentType
<1>8. /\ DOMAIN u.origins = DOMAIN l.origins
      /\ \A n \in DOMAIN u.origins : n # x => u.origins[n] = l.origins[n]
  BY <1>5 DEF CountsOne
<1> QED BY <1>1, <1>2, <1>6, <1>7, <1>8, OwnStepEqual

\* A reset (reset_token_stats) starts an epoch no copy has.
LEMMA ResetEqual ==
  ASSUME IInv, IInv', EqualStands, NEW x \in Nodes, Reset(x)
  PROVE  EqualStands'
<1> DEFINE l == ledger[x]
           e == <<l.epoch[1] + 1, x>>
           f == [o \in DOMAIN l.origins |-> Cleared(l.origins[o])]
<1>1. PICK u : Becomes(x, u) /\ \A n \in Nodes : Moves(n, x, u)
  BY ResetMoves
<1>2. /\ ledger'[x] = [l EXCEPT !.epoch = e, !.origins = f] /\ UNCHANGED <<reconciled, round, late>>
      /\ IsLedger(l) /\ x \in DOMAIN l.origins /\ l \in Copies /\ IsLedger(ledger'[x])
  BY CopiesAre DEF Reset, IInv, RoundOK, LedgersOK, Good
<1>3. u = ledger'[x] /\ u = [epoch |-> e, models |-> l.models, origins |-> f]
  <2>1. u = ledger'[x]
    BY <1>1 DEF Becomes
  <2> HIDE DEF e, f
  <2>2. [l EXCEPT !.epoch = e, !.origins = f] = [epoch |-> e, models |-> l.models, origins |-> f]
    BY <1>2, EpochExcept
  <2> QED BY <1>2, <2>1, <2>2
<1>4. DOMAIN f = DOMAIN l.origins /\ \A o \in DOMAIN l.origins : f[o] = Cleared(l.origins[o])
  OBVIOUS
<1>5. \A o \in DOMAIN l.origins : l.origins[o] \in Component
  BY <1>2, LedgerParts
<1>6. /\ spent'.erases = spent.erases /\ spent'.resets > 0
      /\ spent'.lost = spent.lost /\ spent'.torn = spent.torn
  <2>1. spent' = [spent EXCEPT !.resets = @ + 1, !.epochs = @ \cup {e}] /\ spent \in SpentType
    BY DEF Reset, IInv, HistoryOK
  <2> HIDE DEF e
  <2> QED BY <2>1 DEF SpentType
<1> HIDE DEF e, f
<1>7. ASSUME NEW o \in DOMAIN l.origins, Shown(l.origins[o], l.models) PROVE Shown(f[o], l.models)
  BY <1>4, <1>5, <1>7, ClearedShown
<1>8. AllClean => Clean(u)
  BY <1>2, <1>3, <1>4, <1>7 DEF AllClean, Clean
<1>9. u.origins[x].rev = l.origins[x].rev + 1
  <2>1. Cleared(l.origins[x]).rev = l.origins[x].rev + 1
    <3> DEFINE z == Nothing
               i == l.origins[x].rev + 1
               c == l.origins[x]
    <3>1. Cleared(c) = [c EXCEPT !.total = z, !.rev = i]
      BY DEF Cleared
    <3>2. c = [rev |-> c.rev, total |-> c.total, hourly |-> c.hourly, stamp |-> c.stamp]
      BY <1>2, <1>5, ComponentParts
    <3> HIDE DEF z, i, c
    <3>3. Cleared(c).rev = i
      BY <3>1, <3>2
    <3> QED BY <3>3 DEF i, c
  <2> QED BY <1>2, <1>3, <1>4, <2>1
<1>10. DOMAIN u.origins = DOMAIN l.origins
  BY <1>3, <1>4
<1>11. IsLedger(u) /\ ~(spent'.resets = 0)
  BY <1>2, <1>3, <1>6
<1> QED BY <1>1, <1>2, <1>6, <1>8, <1>9, <1>10, <1>11, OwnStepEqual

\* Nothing is claimed after an erase (erase_usage_model).
LEMMA EraseEqual ==
  ASSUME IInv, NEW x \in Nodes, NEW m \in Models, Erase(x, m)
  PROVE  EqualStands'
<1>1. spent.erases \in Nat /\ spent'.erases = spent.erases + 1
  BY DEF Erase, IInv, HistoryOK, SpentType
<1> QED BY <1>1 DEF EqualStands

\* The controller takes the pulled ledgers in, and pushes the union.
LEMMA MergePullsEqual ==
  ASSUME IInv, OldStands, Addressed, EqualStands, MergePulls
  PROVE  EqualStands'
<1> SUFFICES ASSUME ~spent.lost, spent.erases = 0
             PROVE  AllClean' /\ (Whole' => \A p \in late' : ~p.claimed) /\ \A n \in Peers \ Joined : Joining(n)'
  BY PullsSpend DEF EqualStands
<1> DEFINE u == Absorbed
<1>0. /\ spent'.resets = spent.resets
      /\ spent.torn => spent'.torn
      /\ claims' = asked' \ reconciled /\ asked' \subseteq DOMAIN answers
      /\ spent'.torn \/ DOMAIN answers \ reconciled \subseteq asked'
  BY PullsSpend
<1>1. /\ phase # "push" /\ phase' = "push" /\ claims' \subseteq DOMAIN answers \ reconciled
      /\ answers' = <<>> /\ UNCHANGED <<reconciled, confirmed, late, log>>
      /\ claims = {}
  BY <1>0 DEF MergePulls, Addressed
<1>2. AllClean /\ (Whole => \A p \in late : ~p.claimed) /\ \A n \in Peers \ Joined : Joining(n)
  BY DEF EqualStands
<1>3. Becomes(Ctl, u) /\ ledger'[Ctl] = u /\ snap' = u /\ Ctl \in Nodes
  BY PullsMove, Ids
<1>4. Line("equal", Never, Never, Ctl, ledger[Ctl], Copies)
  BY OldEqual DEF Equal
<1>5. Taken(u) /\ Gathered(u) /\ IsLedger(u)
  BY <1>2, <1>4, AbsorbedGathers DEF Taken, Rising
<1> HIDE DEF u
<1>6. AllClean'
  BY <1>2, <1>3, <1>5, CleanBecomes DEF Gathered
<1>7. Whole' => Whole /\ claims' = DOMAIN answers \ reconciled
  BY <1>0, <1>1 DEF Whole
<1>8. ASSUME NEW n \in Peers \ Joined PROVE Joining(n)'
  <2>1. /\ n \in Nodes /\ n # Ctl /\ n \in DOMAIN ledger[n].origins /\ ledger[n].origins[n] \in Component
        /\ \A k \in Copies : n \in DOMAIN k.origins => k.origins[n] \in Component
        /\ ledger[Ctl] \in Copies /\ \A y \in DOMAIN answers : answers[y] \in Copies
    BY Ids, CopiesAre, LedgerParts DEF Ledgers, Peers
  <2>2. ledger'[n] = ledger[n]
    BY <1>3, <2>1 DEF Becomes
  <2>3. Equal(n) => Equal(n)'
    BY <1>3, <1>5, <2>1, EqualBecomes DEF Taken
  <2>4. n \in DOMAIN u.origins =>
          \/ n \in DOMAIN ledger[Ctl].origins /\ SameCounts(u.origins[n], ledger[Ctl].origins[n])
          \/ \E y \in DOMAIN answers : n \in DOMAIN answers[y].origins
                                       /\ SameCounts(u.origins[n], answers[y].origins[n])
    BY <1>5 DEF Gathered
  <2>5. Held(n) => Held(n)'
    BY <1>3, <1>5, <2>1, <2>4, HeldBecomes
  <2>6. Alone(n) /\ n \in DOMAIN u.origins =>
          n \in DOMAIN answers /\ Behind(u.origins[n], ledger[n].origins[n])
    <3> SUFFICES ASSUME Alone(n), n \in DOMAIN u.origins
                 PROVE  n \in DOMAIN answers /\ Behind(u.origins[n], ledger[n].origins[n])
      OBVIOUS
    <3>1. n \notin DOMAIN ledger[Ctl].origins
      BY <1>3, <2>1 DEF Alone
    <3>2. PICK y \in DOMAIN answers : n \in DOMAIN answers[y].origins
                                      /\ SameCounts(u.origins[n], answers[y].origins[n])
      BY <2>4, <3>1
    <3>3. y = n /\ Behind(answers[y].origins[n], ledger[n].origins[n])
      BY <3>2 DEF Alone
    <3> QED BY <2>1, <3>2, <3>3, BehindIs
  <2>7. Alone(n) /\ n \notin DOMAIN answers => Alone(n)'
    <3> SUFFICES ASSUME Alone(n), n \notin DOMAIN answers PROVE Alone(n)'
      OBVIOUS
    <3>1. n \notin DOMAIN u.origins /\ \A p \in late' : n \notin DOMAIN p.ledger.origins
      BY <1>1, <2>6 DEF Alone
    <3>2. DOMAIN answers' = {}
      BY <1>1
    <3> QED BY <1>3, <1>5, <2>1, <3>1, <3>2, AloneBecomes
  <2>8. Joining(n)
    BY <1>2
  <2>9. n \in claims' \cap asked' \/ n \notin reconciled' \cup claims' => n \notin reconciled \cup claims
    BY <1>1
  <2>10. Whole' /\ n \notin reconciled' \cup claims' => n \notin DOMAIN answers
    BY <1>1, <1>7
  <2>11. Whole' /\ n \in claims' \cap asked' /\ n \in DOMAIN snap'.origins =>
           Behind(snap'.origins[n], ledger'[n].origins[n])
    BY <1>3, <1>7, <2>2, <2>6, <2>8, <2>9 DEF Joining
  <2>12. Whole' /\ n \notin reconciled' \cup claims' => Alone(n)'
    BY <1>7, <2>7, <2>8, <2>9, <2>10 DEF Joining
  <2> QED BY <1>0, <1>1, <1>7, <2>3, <2>5, <2>8, <2>11, <2>12 DEF Joining
<1> QED BY <1>1, <1>2, <1>6, <1>7, <1>8

\* A peer takes a push in, in this round or late.
LEMMA ServeEqual ==
  ASSUME IInv, OldStands, Addressed, EqualStands, NEW x \in Peers, NEW r \in Copies, NEW claimed \in BOOLEAN,
         Serve(x, r, claimed), r = snap \/ \E p \in late : r = p.ledger,
         answers' = answers, snap' = snap, late' \subseteq late, reconciled' = reconciled, claims' = claims,
         asked' \subseteq asked,
         spent'.erases = spent.erases, spent'.resets = spent.resets, spent'.lost = spent.lost,
         Whole' => Whole,
         ~claimed => x \in reconciled,
         claimed /\ ~spent.lost /\ spent.erases = 0 =>
           /\ spent.resets = 0 /\ x \in reconciled => ~Higher(r.epoch, ledger[x].epoch)
           /\ Whole' => x \in claims \cap asked /\ x \notin asked' /\ r = snap
  PROVE  EqualStands'
<1> SUFFICES ASSUME ~spent.lost, spent.erases = 0
             PROVE  AllClean' /\ (Whole' => \A p \in late' : ~p.claimed) /\ \A n \in Peers \ Joined : Joining(n)'
  BY DEF EqualStands
<1>1. AllClean /\ (Whole => \A p \in late : ~p.claimed) /\ \A n \in Peers \ Joined : Joining(n)
  BY DEF EqualStands
<1>2. Agreed(Copies)
  BY CopiesAgree
<1>3. PICK u : Becomes(x, u) /\ IsLedger(u) /\ x \in DOMAIN u.origins
               /\ \A n \in Nodes : n # x \/ ~claimed => Moves(n, x, u)
  BY ServeMoves
<1>4. /\ x \in Nodes /\ ledger[x] \in Copies /\ Ledgers(Copies) /\ x \in DOMAIN ledger[x].origins
      /\ ledger[x].origins[x] \in Component /\ u = ledger'[x]
      /\ \A n \in Nodes : ledger'[n] = IF n = x THEN u ELSE ledger[n]
  BY <1>3, Ids, CopiesAre, LedgerParts DEF Becomes
<1>5. /\ Clean(u)
      /\ \A n \in Nodes : n # x /\ n \in DOMAIN u.origins =>
           \/ n \in DOMAIN ledger[x].origins /\ u.origins[n] = ledger[x].origins[n]
           \/ n \in DOMAIN r.origins /\ u.origins[n] = r.origins[n]
      /\ claimed => u = Merge(x, ledger[x], Preserved(x, ledger[x], r))
  BY <1>1, <1>2, <1>4, ServeGathers
<1>6. AllClean'
  BY <1>1, <1>3, <1>5, CleanBecomes
<1>7. ASSUME x \in Peers \ Joined PROVE Joining(x)'
  <2>1. Joining(x)
    BY <1>1, <1>7
  <2>2. ASSUME spent.resets = 0 \/ Whole', claimed PROVE Equal(x)' /\ SameCounts(u.origins[x], ledger[x].origins[x])
    <3>1. Equal(x) /\ (x \in DOMAIN r.origins => Behind(r.origins[x], ledger[x].origins[x])
                                                   \/ ~Higher(r.epoch, ledger[x].epoch))
      BY <2>1, <2>2 DEF Joining, Held
    <3> DEFINE w == Merge(x, ledger[x], Preserved(x, ledger[x], r))
    <3>2. Line("equal", Never, Never, x, ledger[x], Copies) /\ \A k \in Copies : Clean(k)
      BY <1>1, <3>1 DEF Equal, AllClean
    <3>3. /\ Line("equal", Never, Never, x, w, Copies \cup {w})
          /\ SameCounts(w.origins[x], ledger[x].origins[x])
      BY <1>4, <3>1, <3>2, ClaimMoves
    <3>4. u = w
      BY <1>5, <2>2
    <3> HIDE DEF w
    <3>5. Line("equal", Never, Never, x, u, Copies')
      BY <1>3, <3>3, <3>4, FewerTrail DEF Becomes
    <3> QED BY <1>4, <3>3, <3>4, <3>5 DEF Equal
  <2>3. spent'.resets = 0 \/ Whole' => Equal(x)'
    <3>1. ASSUME ~claimed, Equal(x) PROVE Equal(x)'
      BY <1>3, <1>4, <3>1, EqualBecomes
    <3> QED BY <2>1, <2>2, <3>1 DEF Joining
  <2>4. ASSUME spent'.resets = 0, x \notin reconciled' PROVE Held(x)'
    <3>1. claimed /\ Held(x)
      BY <2>1, <2>4 DEF Joining
    <3>2. Behind(ledger[x].origins[x], u.origins[x])
      BY <1>4, <2>2, <2>4, <3>1, BehindIs
    <3> QED BY <1>3, <1>4, <3>1, <3>2, HeldBecomes
  <2>5. Whole' => x \in reconciled' \/ (x \in claims' /\ x \notin asked')
    OBVIOUS
  <2>6. x \in claims' => x \notin reconciled'
    BY DEF Addressed
  <2> QED BY <2>3, <2>4, <2>5, <2>6 DEF Joining
<1>8. ASSUME NEW n \in Peers \ Joined, n # x PROVE Joining(n)'
  <2>1. Joining(n) /\ n \in Nodes /\ ledger'[n] = ledger[n]
    BY <1>1, <1>4, <1>8, Ids
  <2>2. Equal(n) => Equal(n)'
    BY <1>3, <1>8, <2>1, EqualBecomes
  <2>3. Held(n) => Held(n)'
    <3>1. ASSUME n \in DOMAIN u.origins
          PROVE  \E k \in Copies : n \in DOMAIN k.origins /\ SameCounts(u.origins[n], k.origins[n])
      BY <1>4, <1>5, <1>8, <2>1, <3>1 DEF SameCounts
    <3> QED BY <1>3, <1>4, <1>8, <2>1, <3>1, HeldBecomes
  <2>4. Alone(n) => Alone(n)'
    <3> SUFFICES ASSUME Alone(n) PROVE Alone(n)'
      OBVIOUS
    <3>1. n \notin DOMAIN r.origins /\ n \notin DOMAIN ledger[x].origins
          /\ n \notin DOMAIN snap'.origins /\ \A p \in late' : n \notin DOMAIN p.ledger.origins
      BY <1>4, <1>8 DEF Alone
    <3>2. n \notin DOMAIN u.origins
      BY <1>5, <1>8, <2>1, <3>1
    <3> QED BY <1>3, <1>4, <1>8, <2>1, <3>1, <3>2, AloneBecomes
  <2> QED BY <2>1, <2>2, <2>3, <2>4 DEF Joining
<1> QED BY <1>1, <1>6, <1>7, <1>8

\* A push of this round reaches its peer.
LEMMA ServePushEqual ==
  ASSUME IInv, OldStands, Addressed, EqualStands, NEW x \in Peers, ServePush(x)
  PROVE  EqualStands'
<1>0. /\ spent'.erases = spent.erases /\ spent'.resets = spent.resets /\ spent'.lost = spent.lost
      /\ spent'.torn = spent.torn
  BY FaultCounts DEF ServePush
<1>1. /\ phase = "push" /\ phase' = phase /\ x \in asked /\ asked' = asked \ {x}
      /\ Serve(x, snap, x \in claims)
      /\ confirmed' \subseteq confirmed \cup {x}
      /\ reconciled' = reconciled /\ answers' = answers /\ snap' = snap /\ claims' = claims /\ late' = late
  BY DEF ServePush
<1>2. PICK c \in BOOLEAN : c <=> x \in claims
  OBVIOUS
<1>3. snap \in Copies /\ Serve(x, snap, c)
  BY <1>1, <1>2, CopiesAre DEF Serve
<1>4. Whole' => Whole
  BY <1>0, <1>1 DEF Whole
<1>5. /\ ~c => x \in reconciled
      /\ c => x \notin reconciled /\ x \in claims \cap asked /\ x \notin asked'
  BY <1>1, <1>2 DEF Addressed
<1> QED BY <1>0, <1>1, <1>3, <1>4, <1>5, ServeEqual

\* A push the controller gave up is served after all.
LEMMA ServeLateEqual ==
  ASSUME IInv, OldStands, NewStands, Addressed, EqualStands, NEW p \in late, ServeLate(p)
  PROVE  EqualStands'
<1> DEFINE x == p.to
           r == p.ledger
<1>0. /\ spent'.erases = spent.erases /\ spent'.resets = spent.resets /\ spent'.lost = spent.lost
      /\ spent'.torn = spent.torn
  BY FaultCounts DEF ServeLate
<1>1. /\ Serve(x, r, p.claimed) /\ late' = late \ {p} /\ reconciled' = reconciled
      /\ phase' = phase /\ asked' = asked /\ answers' = answers /\ snap' = snap
      /\ claims' = claims /\ confirmed' = confirmed
  BY DEF ServeLate, round
<1>2. /\ r \in Copies /\ x \in Peers /\ p.claimed \in BOOLEAN /\ (p.claimed => x \notin Joined)
  BY CopiesAre DEF IInv, PushesOK
<1>3. Whole' <=> Whole
  BY <1>0, <1>1 DEF Whole
<1>4. ~p.claimed => x \in reconciled
  BY DEF Addressed
<1>5. p.claimed /\ ~spent.lost /\ spent.erases = 0 =>
        /\ spent.resets = 0 /\ x \in reconciled => ~Higher(r.epoch, ledger[x].epoch)
        /\ ~Whole
  BY <1>2 DEF NewStands, Undisturbed, PushesTo, EqualStands
<1>6. r = snap \/ \E q \in late : r = q.ledger
  OBVIOUS
<1> HIDE DEF x, r
<1> QED BY <1>0, <1>1, <1>2, <1>3, <1>4, <1>5, <1>6, ServeEqual

\* At the start every component is empty, and a peer that has yet to join is known to itself only.
LEMMA EqualAtFirst ==
  ASSUME Init
  PROVE  Addressed /\ EqualStands
<1>1. /\ \A n \in Nodes : ledger[n] = Fresh(Members(n))
      /\ phase = "idle" /\ claims = {} /\ confirmed = {} /\ late = {} /\ answers = <<>> /\ snap = Fresh({})
      /\ reconciled = Joined
  BY DEF Init
<1>2. Addressed
  BY <1>1 DEF Addressed
<1>3. /\ \A n \in Nodes : Members(n) \in SUBSET Nodes
      /\ \A n \in Nodes : \A y \in Peers \ Joined : y \in Members(n) <=> y = n
  BY Ids DEF Members
<1>4. \A k \in Copies : /\ k.epoch = Never /\ k.models = [m \in Models |-> Never]
                        /\ \A o \in DOMAIN k.origins : k.origins[o] = Empty
                        /\ \A y \in Peers \ Joined : y \in DOMAIN k.origins => k = ledger[y]
  <2>1. ASSUME NEW k \in Copies PROVE k = Fresh({}) \/ \E n \in Nodes : k = Fresh(Members(n)) /\ k = ledger[n]
    BY <1>1 DEF Copies
  <2>2. \A S \in SUBSET Nodes : /\ Fresh(S).epoch = Never /\ Fresh(S).models = [m \in Models |-> Never]
                                /\ DOMAIN Fresh(S).origins = S
                                /\ \A o \in S : Fresh(S).origins[o] = Empty
    BY FreshIs DEF Fresh
  <2>3. \A y \in Peers \ Joined : y \in Nodes
    BY Ids
  <2> QED BY <1>1, <1>3, <2>1, <2>2, <2>3
<1>5. AllClean
  BY <1>4, EmptyShown DEF AllClean, Clean
<1>6. ASSUME NEW n \in Peers \ Joined PROVE Equal(n) /\ Held(n) /\ Alone(n)
  <2>1. /\ n \in Nodes /\ DOMAIN ledger[n].origins = Members(n) /\ n \in Members(n)
        /\ \A y \in Nodes : ledger[y] \in Copies /\ DOMAIN ledger[y].origins = Members(y)
        /\ DOMAIN Fresh({}).origins = {}
    BY <1>1, <1>3, FreshIs, Ids DEF Copies
  <2>2. Empty \in Component /\ ~Higher(Never, Never)
    BY EmptyIs, VersionOrder
  <2>3. Equal(n)
    <3>1. AllTrail("equal", Never, Never, n, ledger[n], Copies)
      BY <1>4, <2>1, <2>2 DEF AllTrail, Trails
    <3>2. SameVersions("equal", Never, Never, Copies)
      BY <1>4 DEF SameVersions
    <3> QED BY <3>1, <3>2 DEF Equal, Line, Carried
  <2>4. Held(n)
    BY <1>4, <2>1, <2>2, BehindIs DEF Held
  <2>5. Alone(n)
    BY <1>1, <1>3, <2>1 DEF Alone
  <2> QED BY <2>3, <2>4, <2>5
<1> QED BY <1>1, <1>2, <1>5, <1>6 DEF EqualStands, Joining

\* Every step keeps what makes equal revisions equal.
LEMMA EqualStep ==
  ASSUME IInv, IInv', OldStands, NewStands, Addressed, EqualStands, [Next]_vars
  PROVE  EqualStands'
<1>1. CASE UNCHANGED vars
  <2>1. /\ ledger' = ledger /\ answers' = answers /\ snap' = snap /\ late' = late /\ spent' = spent
        /\ reconciled' = reconciled /\ claims' = claims /\ confirmed' = confirmed
        /\ phase' = phase /\ asked' = asked
    BY <1>1 DEF vars
  <2>2. Copies' \subseteq Copies
    BY <2>1, CopiesAre, CopiesShrink
  <2>3. Whole' => Whole
    BY <2>1 DEF Whole
  <2>4. \A n \in Peers \ Joined : Alone(n) => Alone(n)'
    BY <2>1 DEF Alone
  <2> QED BY <2>1, <2>2, <2>3, <2>4, QuietEqual
<1>2. ASSUME NEW n \in Nodes, NEW m \in Models, Record(n, m) \/ Erase(n, m) PROVE EqualStands'
  BY <1>2, RecordEqual, EraseEqual
<1>3. ASSUME NEW n \in Nodes, Reset(n) \/ Restart(n) PROVE EqualStands'
  BY <1>3, ResetEqual, RestartEqual
<1>4. CASE StartRound \/ MergePulls \/ EndRound
  BY <1>4, StartRoundEqual, MergePullsEqual, EndRoundEqual
<1>5. ASSUME NEW n \in Peers, AnswerPull(n) \/ FailPull(n) PROVE EqualStands'
  BY <1>5, AnswerPullEqual, FailPullEqual
<1>6. ASSUME NEW n \in Peers, ServePush(n) \/ TimeoutPush(n) PROVE EqualStands'
  BY <1>6, ServePushEqual, TimeoutPushEqual
<1>7. ASSUME NEW p \in late, ServeLate(p) PROVE EqualStands'
  BY <1>7, ServeLateEqual
<1> QED BY <1>1, <1>2, <1>3, <1>4, <1>5, <1>6, <1>7 DEF Next

(***************************************************************************)
(* Two undisturbed rounds.  The first brings every peer to the epoch and   *)
(* the versions of the controller's union and reconciles it; the second    *)
(* merges ledgers of one epoch only, each origin's own component among     *)
(* them, and hands everyone the same components.                           *)
(***************************************************************************)

\* Two ledgers of one epoch, with the same versions of the models.
Same(l, k) == l.epoch = k.epoch /\ l.models = k.models

\* Peer n's answer has been taken into ledger l: l is not behind it, and of a later epoch if n joins.
Outruns(n, l) ==
  Advances(answers[n], l) /\ (n \notin reconciled => Higher(l.epoch, answers[n].epoch))

\* The round under way, when nothing has happened since a whole one ended: every peer is still to
\* be pulled or as it answered; every peer is still to be pushed to, and behind the union, or has
\* come to its epoch and versions.
Settles ==
  calm >= 1 =>
    /\ phase = "pull" => \A n \in Peers : n \in asked \/ (n \in DOMAIN answers /\ answers[n] = ledger[n])
    /\ phase = "push" =>
         /\ snap = ledger[Ctl]
         /\ \A n \in Peers : n \in claims \cup reconciled /\ n \in asked \cup confirmed
         /\ \A n \in asked : /\ Advances(ledger[n], snap)
                             /\ n \in claims => Higher(snap.epoch, ledger[n].epoch)
         /\ \A n \in confirmed : Same(ledger[n], snap)

\* After one undisturbed round the peers are reconciled and all the nodes under the controller's
\* epoch and versions.
Settled ==
  calm >= 2 => reconciled = Peers /\ \A n \in Nodes : Same(ledger[n], ledger[Ctl])

\* Both, and the count of undisturbed rounds.
SettlesDown == calm \in 0..3 /\ Settles /\ Settled

\* One pulled ledger taken in is outrun, and no other is caught up by it.
LEMMA AbsorbOutruns ==
  ASSUME IInv, NEW l, Taken(l), NEW p \in DOMAIN answers
  PROVE  LET u == Absorb(l, answers[p], p) IN
         /\ Outruns(p, u)
         /\ \A n \in DOMAIN answers : Outruns(n, l) => Outruns(n, u)
<1> DEFINE r == answers[p]
           u == Absorb(l, r, p)
<1>1. /\ Ctl \in Nodes /\ p \in Peers /\ p \in DOMAIN r.origins
      /\ \A n \in DOMAIN answers : IsLedger(answers[n])
      /\ IsLedger(l) /\ Ctl \in DOMAIN l.origins
  BY Ids DEF IInv, AnswersOK, Good, Taken, Rising
<1>2. IsLedger(u) /\ Advances(l, u) /\ Outruns(p, u)
  <2>1. CASE p \in reconciled
    <3>1. u = Merge(Ctl, l, r)
      BY <2>1 DEF Absorb
    <3>2. IsLedger(Merge(Ctl, l, r)) /\ Advances(l, Merge(Ctl, l, r)) /\ Advances(r, Merge(Ctl, l, r))
      BY <1>1, MergeAdvances, MergeParts
    <3> QED BY <2>1, <3>1, <3>2 DEF Outruns
  <2>2. CASE p \notin reconciled
    <3>1. u = Reconciled(l, r, p)
      BY <2>2 DEF Absorb
    <3>2. LET w == Reconciled(l, r, p) IN
          IsLedger(w) /\ Higher(w.epoch, l.epoch) /\ Higher(w.epoch, r.epoch)
      BY <1>1, ReconciledIs
    <3> QED BY <3>1, <3>2 DEF Outruns, Advances
  <2> QED BY <2>1, <2>2
<1> HIDE DEF u
<1>3. ASSUME NEW n \in DOMAIN answers, Outruns(n, l) PROVE Outruns(n, u)
  <2> DEFINE a == answers[n]
  <2>1. IsLedger(a) /\ Advances(a, l) /\ (n \notin reconciled => Higher(l.epoch, a.epoch))
    BY <1>1, <1>3 DEF Outruns
  <2> HIDE DEF a
  <2>2. Advances(a, u)
    BY <1>1, <1>2, <2>1, AdvancesFurther
  <2>3. a.epoch \in Version /\ l.epoch \in Version /\ u.epoch \in Version
    BY <1>1, <1>2, <2>1, LedgerParts
  <2>4. ASSUME Higher(l.epoch, a.epoch) PROVE Higher(u.epoch, a.epoch)
    <3>1. u.epoch = l.epoch \/ Higher(u.epoch, l.epoch)
      BY <1>2 DEF Advances
    <3>2. ~Higher(a.epoch, l.epoch)
      BY <2>3, <2>4, VersionOrder
    <3> QED BY <2>3, <2>4, <3>1, <3>2, VersionOrder
  <2> QED BY <2>1, <2>2, <2>4 DEF Outruns, a
<1> QED BY <1>2, <1>3 DEF u

\* All of them.
LEMMA AbsorbedOutruns ==
  ASSUME IInv
  PROVE  \A n \in DOMAIN answers : Outruns(n, Absorbed)
<1> DEFINE N == Len(PeerOrder)
           P == {i \in 0..N : /\ Taken(Absorbing[i])
                              /\ \A j \in 1..i : PeerOrder[j] \in DOMAIN answers
                                                 => Outruns(PeerOrder[j], Absorbing[i])}
<1>1. N \in Nat /\ \A n \in DOMAIN answers : \E j \in 1..N : PeerOrder[j] = n
  BY UsageAssumption DEF IInv, AnswersOK
<1>2. 0 \in P
  BY <1>1, AbsorbingIs, StartTaken
<1>3. ASSUME NEW i \in 1..N, i - 1 \in P PROVE i \in P
  <2> DEFINE p == PeerOrder[i]
             l == Absorbing[i - 1]
  <2>1. /\ i \in 0..N /\ i # 0 /\ Taken(l)
        /\ \A j \in 1..(i - 1) : PeerOrder[j] \in DOMAIN answers => Outruns(PeerOrder[j], l)
    BY <1>1, <1>3
  <2>2. Absorbing[i] = IF p \in DOMAIN answers THEN Absorb(l, answers[p], p) ELSE l
    BY <2>1, AbsorbingIs
  <2>3. \A j \in 1..i : j \in 1..(i - 1) \/ j = i
    BY <1>1
  <2> HIDE DEF l
  <2>4. CASE p \in DOMAIN answers
    <3> DEFINE u == Absorb(l, answers[p], p)
    <3>1. Taken(u)
      BY <2>1, <2>4, MergeTaken, ReconcileTaken
    <3>2. Outruns(p, u) /\ \A n \in DOMAIN answers : Outruns(n, l) => Outruns(n, u)
      BY <2>1, <2>4, AbsorbOutruns
    <3>3. Absorbing[i] = u
      BY <2>2, <2>4
    <3> HIDE DEF u
    <3> QED BY <2>1, <2>3, <3>1, <3>2, <3>3
  <2>5. CASE p \notin DOMAIN answers
    BY <2>1, <2>2, <2>3, <2>5
  <2> QED BY <2>4, <2>5
<1>4. N \in P
  <2> HIDE DEF P
  <2>1. \A i \in 0..N : i \in P
    BY <1>1, <1>2, <1>3, Upto
  <2> QED BY <1>1, <2>1
<1> QED BY <1>1, <1>4 DEF Absorbed

\* Merging two ledgers of one epoch and the same versions gives one of the same.
LEMMA MergeSame ==
  ASSUME NEW x \in Nodes, NEW l, IsLedger(l), x \in DOMAIN l.origins, NEW r, IsLedger(r), Same(l, r)
  PROVE  LET u == Merge(x, l, r) IN
         IsLedger(u) /\ x \in DOMAIN u.origins /\ Same(u, l) /\ \A o \in Nodes : Joins(o, u, l, r)
<1> DEFINE u == Merge(x, l, r)
<1>1. /\ l.epoch \in Version /\ l.models \in [Models -> Version] /\ l.epoch = r.epoch /\ l.models = r.models
  BY LedgerParts DEF Same
<1>2. ~Higher(l.epoch, r.epoch) /\ ~Higher(r.epoch, l.epoch)
  BY <1>1, VersionOrder
<1>3. IsLedger(u) /\ x \in DOMAIN u.origins /\ \A o \in Nodes : Joins(o, u, l, r)
  BY <1>2, MergeParts
<1> HIDE DEF u
<1>4. u.epoch = l.epoch /\ \A m \in Models : u.models[m] = Later(l.models[m], r.models[m])
  BY <1>3 DEF Joins
<1>5. \A m \in Models : u.models[m] = l.models[m]
  BY <1>1, <1>4 DEF Later
<1>6. u.models \in [Models -> Version]
  BY <1>3, LedgerParts
<1>7. u.models = l.models
  BY <1>1, <1>5, <1>6
<1> QED BY <1>3, <1>4, <1>7 DEF Same, u

\* A peer that takes in a push which is not behind it comes to its epoch and versions.
LEMMA ServeSame ==
  ASSUME IInv, NEW n \in Peers, NEW r, IsLedger(r), NEW claimed \in BOOLEAN, Serve(n, r, claimed),
         Advances(ledger[n], r), claimed => Higher(r.epoch, ledger[n].epoch)
  PROVE  Same(ledger'[n], r) /\ \A k \in Nodes : k # n => ledger'[k] = ledger[k]
<1> DEFINE l == ledger[n]
           s == IF claimed THEN Preserved(n, l, r) ELSE r
           u == Merge(n, l, s)
<1>1. n \in Nodes /\ IsLedger(l) /\ n \in DOMAIN l.origins
  BY Ids DEF IInv, LedgersOK, Good
<1>2. IsLedger(s) /\ s.epoch = r.epoch /\ s.models = r.models
  BY <1>1, PreservedIs
<1>3. DOMAIN ledger = Nodes
  BY DEF IInv, RoundOK
<1>4. ledger' = [ledger EXCEPT ![n] = u]
  BY DEF Serve, Keep
<1> HIDE DEF s
<1>5. /\ IsLedger(u)
      /\ \/ Higher(s.epoch, l.epoch) /\ u.epoch = s.epoch /\ u.models = s.models
         \/ Higher(l.epoch, s.epoch)
         \/ Joins(n, u, l, s)
  BY <1>1, <1>2, MergeParts
<1> HIDE DEF u
<1>6. l.epoch \in Version /\ r.epoch \in Version /\ u.models \in [Models -> Version] /\ r.models \in [Models -> Version]
  BY <1>1, <1>5, LedgerParts
<1>7. ~Higher(l.epoch, r.epoch)
  BY <1>6, VersionOrder DEF Advances
<1>8. CASE Joins(n, u, l, s)
  <2>1. u.epoch = r.epoch /\ l.epoch = r.epoch /\ \A m \in Models : u.models[m] = Later(l.models[m], r.models[m])
    BY <1>2, <1>8 DEF Joins
  <2>2. \A m \in Models : r.models[m] = l.models[m] \/ Higher(r.models[m], l.models[m])
    BY <1>6, <2>1, VersionOrder DEF Advances
  <2>3. \A m \in Models : u.models[m] = r.models[m]
    BY <2>1, <2>2 DEF Later
  <2>4. u.models = r.models
    BY <1>6, <2>3
  <2> QED BY <1>1, <1>3, <1>4, <2>1, <2>4 DEF Same
<1> QED BY <1>1, <1>2, <1>3, <1>4, <1>5, <1>7, <1>8 DEF Same

\* With every answer at the controller's epoch and versions, so is the union.
LEMMA AbsorbedSame ==
  ASSUME IInv, \A n \in DOMAIN answers : n \in reconciled /\ Same(answers[n], ledger[Ctl])
  PROVE  Same(Absorbed, ledger[Ctl])
<1> DEFINE N == Len(PeerOrder)
           P == {i \in 0..N : LET l == Absorbing[i] IN
                              IsLedger(l) /\ Ctl \in DOMAIN l.origins /\ Same(l, ledger[Ctl])}
<1>0. N \in Nat
  BY UsageAssumption
<1>1. /\ N \in Nat /\ Ctl \in Nodes /\ \A n \in DOMAIN answers : IsLedger(answers[n])
      /\ IsLedger(ledger[Ctl]) /\ Ctl \in DOMAIN ledger[Ctl].origins
  <2> HIDE DEF N
  <2> QED BY <1>0, Ids DEF IInv, AnswersOK, LedgersOK, Good
<1>2. 0 \in P
  BY <1>1, AbsorbingIs DEF Same
<1>3. ASSUME NEW i \in 1..N, i - 1 \in P PROVE i \in P
  <2> DEFINE p == PeerOrder[i]
             l == Absorbing[i - 1]
  <2>1. i \in 0..N /\ i # 0 /\ IsLedger(l) /\ Ctl \in DOMAIN l.origins /\ Same(l, ledger[Ctl])
    BY <1>1, <1>3
  <2>2. Absorbing[i] = IF p \in DOMAIN answers THEN Absorb(l, answers[p], p) ELSE l
    BY <2>1, AbsorbingIs
  <2> HIDE DEF l, p
  <2>3. CASE p \in DOMAIN answers
    <3> DEFINE r == answers[p]
               u == Merge(Ctl, l, r)
    <3>1. Absorbing[i] = u
      BY <2>2, <2>3 DEF Absorb
    <3>2. IsLedger(r) /\ Same(l, r)
      BY <1>1, <2>1, <2>3 DEF Same
    <3> HIDE DEF r
    <3>3. IsLedger(u) /\ Ctl \in DOMAIN u.origins /\ Same(u, l)
      BY <1>1, <2>1, <3>2, MergeSame
    <3> HIDE DEF u
    <3> QED BY <2>1, <3>1, <3>3 DEF Same
  <2>4. CASE p \notin DOMAIN answers
    BY <2>1, <2>2, <2>4
  <2> QED BY <2>3, <2>4
<1>4. N \in P
  <2> HIDE DEF P
  <2>1. \A i \in 0..N : i \in P
    BY <1>1, <1>2, <1>3, Upto
  <2> QED BY <1>1, <2>1
<1> QED BY <1>4 DEF Absorbed

\* The merge of a quiet round (sync_token_usage_once): every peer answered with the ledger it has.
LEMMA MergePullsSettles ==
  ASSUME IInv, Addressed, SettlesDown, MergePulls
  PROVE  SettlesDown'
<1>0. CASE calm' = 0
  BY <1>0 DEF SettlesDown, Settles, Settled
<1> SUFFICES ASSUME calm' # 0 PROVE SettlesDown'
  BY <1>0
<1>1. /\ phase = "pull" /\ asked = {} /\ phase' = "push" /\ asked' = DOMAIN answers
      /\ claims' = DOMAIN answers \ reconciled /\ reconciled' = reconciled /\ confirmed' = confirmed /\ calm' = calm
  BY PullsSpend DEF MergePulls
<1>2. Becomes(Ctl, Absorbed) /\ ledger'[Ctl] = Absorbed /\ snap' = Absorbed
  BY PullsMove
<1>3. /\ \A n \in Peers : n \in Nodes /\ n # Ctl /\ ledger'[n] = ledger[n]
      /\ \A n \in Nodes : n = Ctl \/ n \in Peers
  BY <1>2, Ids DEF Becomes, Peers
<1>4. confirmed' = {} /\ \A n \in DOMAIN answers : n \in Peers
  BY <1>1 DEF Addressed, IInv, AnswersOK
<1>5. ASSUME calm >= 1
      PROVE  /\ \A n \in Peers : n \in DOMAIN answers /\ answers[n] = ledger[n]
             /\ \A n \in Peers : Outruns(n, Absorbed)
  BY <1>1, <1>5, AbsorbedOutruns DEF SettlesDown, Settles
<1>6. Settles'
  BY <1>1, <1>2, <1>3, <1>4, <1>5 DEF Settles, Outruns
<1>7. ASSUME calm >= 2 PROVE reconciled' = Peers /\ \A n \in Nodes : Same(ledger'[n], ledger'[Ctl])
  <2>1. calm >= 1 /\ reconciled = Peers /\ \A n \in Nodes : Same(ledger[n], ledger[Ctl])
    BY <1>7 DEF SettlesDown, Settled
  <2>2. Same(Absorbed, ledger[Ctl])
    BY <1>3, <1>4, <1>5, <2>1, AbsorbedSame
  <2> QED BY <1>1, <1>2, <1>3, <2>1, <2>2 DEF Same
<1> QED BY <1>1, <1>6, <1>7 DEF SettlesDown, Settled

\* A peer takes the push in and says so.
LEMMA ServePushSettles ==
  ASSUME IInv, Addressed, SettlesDown, NEW n \in Peers, ServePush(n)
  PROVE  SettlesDown'
<1>1. /\ phase = "push" /\ n \in asked /\ asked' = asked \ {n} /\ phase' = phase
      /\ snap' = snap /\ claims' = claims /\ reconciled' = reconciled
      /\ calm' = 0 \/ (calm' = calm /\ confirmed' = confirmed \cup {n})
      /\ Serve(n, snap, n \in claims)
  BY DEF ServePush
<1>2. CASE calm' = 0
  BY <1>2 DEF SettlesDown, Settles, Settled
<1>3. CASE calm = 0 /\ calm' = calm
  BY <1>3 DEF SettlesDown, Settles, Settled
<1>4. CASE calm # 0 /\ calm' = calm /\ confirmed' = confirmed \cup {n}
  <2>0. calm >= 1 /\ calm \in 0..3
    BY <1>4 DEF SettlesDown
  <2>1. /\ snap = ledger[Ctl]
        /\ \A k \in Peers : k \in claims \cup reconciled /\ k \in asked \cup confirmed
        /\ \A k \in asked : Advances(ledger[k], snap) /\ (k \in claims => Higher(snap.epoch, ledger[k].epoch))
        /\ \A k \in confirmed : Same(ledger[k], snap)
    BY <1>1, <2>0 DEF SettlesDown, Settles
  <2>2. PICK c \in BOOLEAN : c <=> n \in claims
    OBVIOUS
  <2>3. Serve(n, snap, c)
    BY <1>1, <2>2 DEF Serve
  <2>4. IsLedger(snap) /\ Ctl \in Nodes /\ n # Ctl /\ asked \subseteq Nodes /\ confirmed \subseteq Nodes /\ Peers \subseteq Nodes
    BY Ids DEF IInv, PushesOK, Good, Peers, RoundOK
  <2>5. Same(ledger'[n], snap) /\ \A k \in Nodes : k # n => ledger'[k] = ledger[k]
    BY <1>1, <2>1, <2>2, <2>3, <2>4, ServeSame
  <2>6. snap' = ledger'[Ctl] /\ \A k \in confirmed' : Same(ledger'[k], snap')
    BY <1>1, <1>4, <2>1, <2>4, <2>5
  <2>7. \A k \in asked' : Advances(ledger'[k], snap') /\ (k \in claims' => Higher(snap'.epoch, ledger'[k].epoch))
    BY <1>1, <2>1, <2>4, <2>5
  <2>8. Settles'
    BY <1>1, <1>4, <2>1, <2>6, <2>7 DEF Settles
  <2>9. Settled'
    <3>1. ASSUME calm' >= 2, NEW k \in Nodes
          PROVE  reconciled' = Peers /\ Same(ledger'[k], ledger'[Ctl])
      <4>1. reconciled = Peers /\ Same(ledger[k], ledger[Ctl])
        BY <1>4, <3>1 DEF SettlesDown, Settled
      <4>2. ledger'[Ctl] = ledger[Ctl] /\ (k # n => ledger'[k] = ledger[k])
        BY <2>4, <2>5
      <4> QED BY <1>1, <2>1, <2>5, <4>1, <4>2 DEF Same
    <3>2. calm' >= 2 => reconciled' = Peers
      BY <1>1, <1>4 DEF SettlesDown, Settled
    <3> QED BY <3>1, <3>2 DEF Settled
  <2> QED BY <1>4, <2>0, <2>8, <2>9 DEF SettlesDown
<1> QED BY <1>1, <1>2, <1>3, <1>4

\* The end of a quiet round: every peer took the push in, and those that joined are reconciled.
LEMMA EndRoundSettles ==
  ASSUME IInv, SettlesDown, EndRound
  PROVE  SettlesDown'
<1>1. /\ phase = "push" /\ asked = {} /\ phase' = "idle" /\ ledger' = ledger
      /\ reconciled' = reconciled \cup (claims \cap confirmed)
      /\ calm' = IF calm = 3 THEN 3 ELSE calm + 1
      /\ calm \in 0..3
  BY DEF EndRound, SettlesDown
<1>2. Settles' /\ calm' \in 0..3
  BY <1>1 DEF Settles
<1>3. ASSUME calm' >= 2 PROVE reconciled' = Peers /\ \A n \in Nodes : Same(ledger'[n], ledger'[Ctl])
  <2>1. calm >= 1
    BY <1>1, <1>3
  <2>2. /\ snap = ledger[Ctl]
        /\ \A n \in Peers : n \in claims \cup reconciled /\ n \in confirmed
        /\ \A n \in confirmed : Same(ledger[n], snap)
    BY <1>1, <2>1 DEF SettlesDown, Settles
  <2>3. reconciled \subseteq Peers /\ claims \subseteq Peers /\ \A n \in Nodes : n = Ctl \/ n \in Peers
    BY DEF IInv, RoundOK, Peers
  <2> QED BY <1>1, <2>2, <2>3 DEF Same
<1> QED BY <1>2, <1>3 DEF SettlesDown, Settled

\* A round that starts, and a peer that answers with the ledger it has.
LEMMA PullSettles ==
  ASSUME IInv, SettlesDown, StartRound \/ \E n \in Peers : AnswerPull(n)
  PROVE  SettlesDown'
<1>1. /\ ledger' = ledger /\ reconciled' = reconciled /\ calm' = calm
  BY DEF StartRound, AnswerPull
<1>2. Settled' /\ calm' \in 0..3
  BY <1>1 DEF SettlesDown, Settled
<1>3. CASE StartRound
  BY <1>3, <1>2 DEF StartRound, SettlesDown, Settles
<1>4. ASSUME NEW n \in Peers, AnswerPull(n) PROVE SettlesDown'
  <2>1. /\ phase = "pull" /\ phase' = "pull" /\ asked' = asked \ {n} /\ answers' = Put(answers, n, ledger[n])
    BY <1>4 DEF AnswerPull
  <2>2. /\ DOMAIN answers' = DOMAIN answers \cup {n}
        /\ \A k \in DOMAIN answers' : answers'[k] = IF k = n THEN ledger[n] ELSE answers[k]
    BY <2>1 DEF Put
  <2>3. Settles'
    BY <1>1, <2>1, <2>2 DEF SettlesDown, Settles
  <2> QED BY <1>2, <2>3 DEF SettlesDown
<1> QED BY <1>3, <1>4

\* Every step: anything else that happens starts the count of rounds again.
LEMMA SettlesStep ==
  ASSUME IInv, Addressed, SettlesDown, [Next]_vars
  PROVE  SettlesDown'
<1>0. ASSUME calm' = 0 PROVE SettlesDown'
  BY <1>0 DEF SettlesDown, Settles, Settled
<1>1. CASE UNCHANGED vars
  <2>1. /\ ledger' = ledger /\ answers' = answers /\ snap' = snap /\ calm' = calm
        /\ reconciled' = reconciled /\ claims' = claims /\ confirmed' = confirmed
        /\ phase' = phase /\ asked' = asked
    BY <1>1 DEF vars
  <2> QED BY <2>1 DEF SettlesDown, Settles, Settled
<1>2. ASSUME NEW n \in Nodes, NEW m \in Models, Record(n, m) \/ Erase(n, m) PROVE SettlesDown'
  BY <1>0, <1>2 DEF Record, Erase
<1>3. ASSUME NEW n \in Nodes, Reset(n) \/ Restart(n) PROVE SettlesDown'
  BY <1>0, <1>3 DEF Reset, Restart
<1>4. CASE StartRound \/ MergePulls \/ EndRound
  BY <1>4, PullSettles, MergePullsSettles, EndRoundSettles
<1>5. ASSUME NEW n \in Peers, AnswerPull(n) \/ FailPull(n) PROVE SettlesDown'
  BY <1>0, <1>5, PullSettles DEF FailPull
<1>6. ASSUME NEW n \in Peers, ServePush(n) \/ TimeoutPush(n) PROVE SettlesDown'
  BY <1>0, <1>6, ServePushSettles DEF TimeoutPush
<1>7. ASSUME NEW p \in late, ServeLate(p) PROVE SettlesDown'
  BY <1>0, <1>7 DEF ServeLate
<1> QED BY <1>1, <1>2, <1>3, <1>4, <1>5, <1>6, <1>7 DEF Next

\* What lets equal revisions tell of equal components.
Agree == ~spent.lost /\ spent.erases = 0 /\ (spent.resets > 0 => ~spent.torn)

\* Ledger l has of every node the component the node has itself.
Own(l) == DOMAIN l.origins = Nodes /\ \A o \in Nodes : l.origins[o] = ledger[o].origins[o]

\* The second undisturbed round: the union has everyone's own component, and so has who took it in.
Meets ==
  calm >= 2 /\ Agree =>
    /\ phase = "push" => Own(snap) /\ \A n \in confirmed : Own(ledger[n])
    /\ calm = 3 => \A n \in Nodes : Own(ledger[n])

\* With every peer reconciled, no copy of a node's epoch has the node's revision and another component.
LEMMA AllEqual ==
  ASSUME IInv, OldStands, Addressed, EqualStands, SettlesDown, calm >= 2, Agree
  PROVE  \A o \in Nodes : Equal(o)
<1>1. \A o \in Joined \cup {Ctl} : Equal(o)
  BY OldEqual DEF Agree
<1>2. \A o \in Peers \ Joined : spent.resets = 0 \/ Whole => Equal(o)
  BY DEF EqualStands, Joining, Agree
<1>3. claims = {}
  BY DEF SettlesDown, Settled, Addressed, IInv, RoundOK
<1>4. spent.resets = 0 \/ Whole
  <2>1. spent.resets \in Nat
    BY DEF IInv, HistoryOK, SpentType
  <2> QED BY <1>3, <2>1 DEF Whole, Agree
<1> QED BY <1>1, <1>2, <1>4 DEF Peers

\* A copy of the node's epoch has an older component of it, or the node's own.
LEMMA OlderOrOwn ==
  ASSUME NEW o, NEW S, Line("equal", Never, Never, o, ledger[o], S), NEW k \in S, ledger[o] \in S,
         k.epoch = ledger[o].epoch, o \in DOMAIN k.origins
  PROVE  k.origins[o].rev < ledger[o].origins[o].rev \/ k.origins[o] = ledger[o].origins[o]
BY DEF Line, AllTrail, Trails

\* Joining a component with the node's own gives the node's own.
LEMMA JoinsOwn ==
  ASSUME NEW o, NEW c \in Component, NEW u, NEW l, IsLedger(l), NEW r, IsLedger(r), Joins(o, u, l, r),
         \/ o \in DOMAIN l.origins /\ l.origins[o] = c
         \/ o \in DOMAIN r.origins /\ r.origins[o] = c,
         o \in DOMAIN l.origins => l.origins[o].rev < c.rev \/ l.origins[o] = c,
         o \in DOMAIN r.origins => r.origins[o].rev < c.rev \/ r.origins[o] = c
  PROVE  o \in DOMAIN u.origins /\ u.origins[o] = c
<1>1. /\ c.rev \in Nat /\ (o \in DOMAIN l.origins => l.origins[o].rev \in Nat)
      /\ (o \in DOMAIN r.origins => r.origins[o].rev \in Nat)
  BY LedgerParts, ComponentParts
<1>2. o \in DOMAIN u.origins
  BY DEF Joins
<1>3. u.origins[o] = IF o \in DOMAIN r.origins /\ (o \notin DOMAIN l.origins \/ r.origins[o].rev > l.origins[o].rev)
                     THEN r.origins[o] ELSE l.origins[o]
  BY <1>2 DEF Joins, Newer
<1> QED BY <1>1, <1>2, <1>3

\* A union of everyone's ledgers, under one epoch and the same versions, has everyone's own component.
LEMMA AbsorbedOwn ==
  ASSUME IInv, ~spent.lost, \A o \in Nodes : Equal(o),
         \A n \in Peers : /\ n \in DOMAIN answers /\ answers[n] = ledger[n]
                          /\ n \in reconciled /\ Same(ledger[n], ledger[Ctl])
  PROVE  Own(Absorbed)
<1> DEFINE N == Len(PeerOrder)
           Has(l, o) == o \in DOMAIN l.origins /\ l.origins[o] = ledger[o].origins[o]
           P == {i \in 0..N : LET l == Absorbing[i] IN
                              /\ Taken(l) /\ Same(l, ledger[Ctl]) /\ Has(l, Ctl)
                              /\ \A j \in 1..i : Has(l, PeerOrder[j])}
<1>0. N \in Nat /\ (\A j \in 1..N : PeerOrder[j] \in Peers) /\ \A n \in Peers : \E j \in 1..N : PeerOrder[j] = n
  BY UsageAssumption
<1>1. /\ Ctl \in Nodes /\ \A n \in Peers : n \in Nodes /\ n # Ctl
      /\ \A n \in Nodes : n = Ctl \/ n \in Peers
      /\ \A n \in Nodes : /\ ledger[n] \in Copies /\ IsLedger(ledger[n]) /\ n \in DOMAIN ledger[n].origins
                          /\ ledger[n].origins[n] \in Component
      /\ \A n \in Nodes : Same(ledger[n], ledger[Ctl])
  BY Ids, CopiesAre, LedgerParts DEF Peers, Same
<1>2. 0 \in P
  BY <1>0, <1>1, AbsorbingIs, StartTaken DEF Same
<1>3. ASSUME NEW i \in 1..N, i - 1 \in P PROVE i \in P
  <2> DEFINE p == PeerOrder[i]
             l == Absorbing[i - 1]
             r == ledger[p]
             u == Merge(Ctl, l, r)
  <2>1. /\ i \in 0..N /\ i # 0 /\ Taken(l) /\ Same(l, ledger[Ctl]) /\ Has(l, Ctl)
        /\ \A j \in 1..(i - 1) : Has(l, PeerOrder[j])
    BY <1>0, <1>3
  <2>2. /\ p \in Peers /\ p \in DOMAIN answers /\ p \in reconciled /\ answers[p] = r /\ r \in Copies /\ IsLedger(r)
        /\ Has(r, p) /\ Same(r, ledger[Ctl])
    BY <1>0, <1>1
  <2>3. Absorbing[i] = Absorb(l, answers[p], p)
    BY <2>1, <2>2, AbsorbingIs
  <2>4. Absorbing[i] = u
    BY <2>2, <2>3 DEF Absorb
  <2> HIDE DEF l
  <2>5. Taken(u)
    <3>1. Taken(Absorb(l, answers[p], p))
      BY <2>1, <2>2, MergeTaken
    <3> QED BY <2>3, <2>4, <3>1
  <2>6. IsLedger(l) /\ Ctl \in DOMAIN l.origins /\ Same(l, r)
    BY <2>1, <2>2 DEF Taken, Rising, Same
  <2> HIDE DEF r, p
  <2>7. IsLedger(u) /\ Same(u, l) /\ \A o \in Nodes : Joins(o, u, l, r)
    BY <1>1, <2>2, <2>6, MergeSame
  <2> HIDE DEF u
  <2>8. ASSUME NEW o \in Nodes, Has(l, o) \/ o = p PROVE Has(u, o)
    <3> DEFINE c == ledger[o].origins[o]
    <3>1. /\ Line("equal", Never, Never, o, ledger[o], Copies)
          /\ r.epoch = ledger[o].epoch /\ l.epoch = ledger[o].epoch
      BY <1>1, <2>1, <2>2 DEF Equal, Same
    <3>2. o \in DOMAIN r.origins => r.origins[o].rev < c.rev \/ r.origins[o] = c
      BY <1>1, <2>2, <3>1, OlderOrOwn
    <3>3. o \in DOMAIN l.origins => l.origins[o].rev < c.rev \/ l.origins[o] = c
      <4>1. CASE o = Ctl
        BY <2>1, <4>1
      <4>2. CASE o # Ctl
        <5>1. Line("equal", Never, Never, o, ledger[o], Copies \cup {l})
          BY <2>1, <3>1, <4>2, NotRewound DEF Taken, Moves, Modes, Mode
        <5> QED BY <1>1, <3>1, <5>1, OlderOrOwn
      <4> QED BY <4>1, <4>2
    <3>4. (o \in DOMAIN l.origins /\ l.origins[o] = c) \/ (o \in DOMAIN r.origins /\ r.origins[o] = c)
      BY <2>2, <2>8
    <3>5. c \in Component /\ Joins(o, u, l, r)
      BY <1>1, <2>7
    <3>6. Has(u, o) <=> o \in DOMAIN u.origins /\ u.origins[o] = c
      OBVIOUS
    <3> HIDE DEF c, Has
    <3>7. IsLedger(l) /\ IsLedger(r) /\ c \in Component /\ Joins(o, u, l, r)
      BY <2>2, <2>6, <3>5
    <3>8. o \in DOMAIN u.origins /\ u.origins[o] = c
      BY <3>2, <3>3, <3>4, <3>7, JoinsOwn, SMTT(60)
    <3> QED BY <3>6, <3>8
  <2>9. Has(u, Ctl) /\ \A j \in 1..i : Has(u, PeerOrder[j])
    <3>1. \A j \in 1..i : j \in 1..(i - 1) \/ j = i
      BY <1>0
    <3>2. \A j \in 1..i : PeerOrder[j] \in Nodes
      BY <1>0, <1>1
    <3> QED BY <1>1, <2>1, <2>8, <3>1, <3>2 DEF p
  <2>10. Same(u, ledger[Ctl])
    BY <2>1, <2>7 DEF Same
  <2> QED BY <2>1, <2>4, <2>5, <2>9, <2>10
<1>4. N \in P
  <2> HIDE DEF P
  <2>1. \A i \in 0..N : i \in P
    BY <1>0, <1>2, <1>3, Upto
  <2> QED BY <1>0, <2>1
<1>5. Taken(Absorbed) /\ Has(Absorbed, Ctl) /\ \A j \in 1..N : Has(Absorbed, PeerOrder[j])
  BY <1>4 DEF Absorbed
<1>6. \A o \in Nodes : Has(Absorbed, o)
  BY <1>0, <1>1, <1>5
<1>7. DOMAIN Absorbed.origins \subseteq Nodes
  BY <1>5, LedgerParts DEF Taken, Rising
<1> QED BY <1>6, <1>7 DEF Own

\* The second round's merge.
LEMMA MergePullsMeets ==
  ASSUME IInv, OldStands, Addressed, EqualStands, SettlesDown, Meets, MergePulls
  PROVE  Meets'
<1>0. CASE calm' = 0
  BY <1>0 DEF Meets
<1> SUFFICES ASSUME calm' # 0 PROVE Meets'
  BY <1>0
<1>1. /\ phase = "pull" /\ asked = {} /\ confirmed' = confirmed /\ calm' = calm
      /\ spent'.erases = spent.erases /\ spent'.resets = spent.resets /\ spent'.lost = spent.lost
      /\ spent.torn => spent'.torn
  BY PullsSpend DEF MergePulls
<1>2. Becomes(Ctl, Absorbed) /\ ledger'[Ctl] = Absorbed /\ snap' = Absorbed
  BY PullsMove
<1>3. /\ \A n \in Peers : n \in Nodes /\ ledger'[n] = ledger[n]
      /\ \A n \in Nodes : n = Ctl \/ n \in Peers
  BY <1>2, Ids DEF Becomes, Peers
<1>4. confirmed' = {}
  BY <1>1 DEF Addressed
<1>5. SUFFICES ASSUME calm >= 2, Agree
               PROVE  Own(snap)' /\ (calm = 3 => \A n \in Nodes : Own(ledger[n])')
  BY <1>1, <1>4 DEF Meets, Agree
<1>6. \A o \in Nodes : Equal(o)
  BY <1>5, AllEqual
<1>7. \A n \in Peers : /\ n \in DOMAIN answers /\ answers[n] = ledger[n]
                       /\ n \in reconciled /\ Same(ledger[n], ledger[Ctl])
  BY <1>1, <1>3, <1>5 DEF SettlesDown, Settles, Settled
<1>8. Own(Absorbed)
  BY <1>5, <1>6, <1>7, AbsorbedOwn DEF Agree
<1>9. \A o \in Nodes : ledger'[o].origins[o] = ledger[o].origins[o]
  BY <1>2, <1>3, <1>8 DEF Own
<1>10. Own(snap)' /\ Own(ledger[Ctl])'
  BY <1>2, <1>8, <1>9 DEF Own
<1>11. ASSUME calm = 3, NEW n \in Peers PROVE Own(ledger[n])'
  BY <1>3, <1>5, <1>9, <1>11 DEF Meets, Own
<1> QED BY <1>3, <1>10, <1>11

\* A peer takes the second round's union in.
LEMMA ServePushMeets ==
  ASSUME IInv, OldStands, Addressed, EqualStands, SettlesDown, Meets, NEW n \in Peers, ServePush(n)
  PROVE  Meets'
<1>1. /\ phase = "push" /\ n \in asked /\ phase' = phase /\ snap' = snap
      /\ calm' = 0 \/ (calm' = calm /\ spent' = spent /\ confirmed' = confirmed \cup {n})
      /\ Serve(n, snap, n \in claims)
  BY DEF ServePush
<1>2. SUFFICES ASSUME calm' # 0, calm >= 2, Agree
               PROVE  Own(snap)' /\ (\A k \in confirmed' : Own(ledger[k])')
                      /\ (calm = 3 => \A k \in Nodes : Own(ledger[k])')
  BY <1>1 DEF Meets, Agree
<1>3. /\ calm >= 1 /\ Own(snap) /\ (\A k \in confirmed : Own(ledger[k]))
      /\ (calm = 3 => \A k \in Nodes : Own(ledger[k]))
      /\ reconciled = Peers /\ \A k \in Nodes : Same(ledger[k], ledger[Ctl])
  BY <1>1, <1>2 DEF Meets, SettlesDown, Settled
<1>4. /\ snap = ledger[Ctl] /\ n \notin claims /\ n \in Nodes /\ Same(ledger[n], snap)
      /\ confirmed \subseteq Nodes
  <2>1. snap = ledger[Ctl]
    BY <1>1, <1>3 DEF SettlesDown, Settles
  <2> QED BY <1>3, <2>1, Ids DEF Addressed, IInv, RoundOK
<1> DEFINE l == ledger[n]
           u == Merge(n, l, snap)
<1>5. \A k \in Nodes : ledger'[k] = IF k = n THEN u ELSE ledger[k]
  BY <1>1, <1>4 DEF Serve, Keep, IInv, RoundOK
<1>6. /\ IsLedger(l) /\ l \in Copies /\ IsLedger(snap) /\ snap \in Copies /\ n \in DOMAIN l.origins
      /\ \A o \in Nodes : /\ ledger[o] \in Copies /\ ledger[o].origins[o] \in Component
                          /\ l.epoch = ledger[o].epoch /\ snap.epoch = ledger[o].epoch
  BY <1>3, <1>4, CopiesAre, LedgerParts DEF Ledgers, Same
<1>7. /\ IsLedger(u) /\ \A o \in Nodes : Joins(o, u, l, snap)
  BY <1>4, <1>6, MergeSame
<1>8. \A o \in Nodes : Equal(o)
  BY <1>2, AllEqual
<1> HIDE DEF u
<1>9. ASSUME NEW o \in Nodes PROVE o \in DOMAIN u.origins /\ u.origins[o] = ledger[o].origins[o]
  <2> DEFINE c == ledger[o].origins[o]
  <2>1. Line("equal", Never, Never, o, ledger[o], Copies)
    BY <1>8 DEF Equal
  <2>2. /\ o \in DOMAIN l.origins => l.origins[o].rev < c.rev \/ l.origins[o] = c
        /\ o \in DOMAIN snap.origins => snap.origins[o].rev < c.rev \/ snap.origins[o] = c
    BY <1>6, <2>1, OlderOrOwn
  <2>3. o \in DOMAIN snap.origins /\ snap.origins[o] = c
    BY <1>3 DEF Own
  <2>4. c \in Component /\ Joins(o, u, l, snap)
    BY <1>6, <1>7
  <2> HIDE DEF c, l
  <2> QED BY <1>6, <2>2, <2>3, <2>4, JoinsOwn DEF c
<1>10. DOMAIN u.origins = Nodes
  BY <1>7, <1>9, LedgerParts
<1>11. \A o \in Nodes : ledger'[o].origins[o] = ledger[o].origins[o]
  BY <1>5, <1>9
<1>12. Own(ledger[n])'
  BY <1>4, <1>5, <1>9, <1>10, <1>11 DEF Own
<1>13. ASSUME NEW k \in Nodes, k # n, Own(ledger[k]) PROVE Own(ledger[k])'
  BY <1>5, <1>11, <1>13 DEF Own
<1>14. Own(snap)'
  BY <1>1, <1>3, <1>11 DEF Own
<1> QED BY <1>1, <1>2, <1>3, <1>4, <1>12, <1>13, <1>14

\* The end of the second round.
LEMMA EndRoundMeets ==
  ASSUME IInv, SettlesDown, Meets, EndRound
  PROVE  Meets'
<1>1. /\ phase = "push" /\ asked = {} /\ phase' = "idle" /\ ledger' = ledger
      /\ calm' = IF calm = 3 THEN 3 ELSE calm + 1
      /\ calm \in 0..3
      /\ spent'.lost = spent.lost /\ spent'.erases = spent.erases /\ spent'.resets = spent.resets
      /\ spent.torn => spent'.torn
  BY DEF EndRound, SettlesDown, IInv, HistoryOK, SpentType
<1>2. SUFFICES ASSUME calm' = 3, Agree PROVE \A n \in Nodes : Own(ledger[n])'
  BY <1>1 DEF Meets, Agree
<1>3. calm >= 2
  BY <1>1, <1>2
<1>4. Own(snap) /\ \A n \in confirmed : Own(ledger[n])
  BY <1>1, <1>2, <1>3 DEF Meets
<1>5. snap = ledger[Ctl] /\ Peers \subseteq confirmed
  BY <1>1, <1>3 DEF SettlesDown, Settles
<1>6. \A n \in Nodes : Own(ledger[n])
  BY <1>4, <1>5 DEF Peers
<1> QED BY <1>1, <1>6 DEF Own

\* Every step.
LEMMA MeetsStep ==
  ASSUME IInv, OldStands, Addressed, EqualStands, SettlesDown, Meets, [Next]_vars
  PROVE  Meets'
<1>0. ASSUME calm' = 0 PROVE Meets'
  BY <1>0 DEF Meets
<1>1. CASE UNCHANGED vars
  <2>1. /\ ledger' = ledger /\ snap' = snap /\ calm' = calm /\ confirmed' = confirmed
        /\ phase' = phase /\ spent' = spent
    BY <1>1 DEF vars
  <2> QED BY <2>1 DEF Meets, Agree, Own
<1>2. ASSUME NEW n \in Nodes, NEW m \in Models, Record(n, m) \/ Erase(n, m) PROVE Meets'
  BY <1>0, <1>2 DEF Record, Erase
<1>3. ASSUME NEW n \in Nodes, Reset(n) \/ Restart(n) PROVE Meets'
  BY <1>0, <1>3 DEF Reset, Restart
<1>4. ASSUME StartRound \/ \E n \in Peers : AnswerPull(n) PROVE Meets'
  <2>1. /\ ledger' = ledger /\ calm' = calm /\ phase' = "pull" /\ spent' = spent
    BY <1>4 DEF StartRound, AnswerPull
  <2> QED BY <2>1 DEF Meets, Agree, Own
<1>5. CASE MergePulls \/ EndRound
  BY <1>5, MergePullsMeets, EndRoundMeets
<1>6. ASSUME NEW n \in Peers, AnswerPull(n) \/ FailPull(n) PROVE Meets'
  BY <1>0, <1>4, <1>6 DEF FailPull
<1>7. ASSUME NEW n \in Peers, ServePush(n) \/ TimeoutPush(n) PROVE Meets'
  BY <1>0, <1>7, ServePushMeets DEF TimeoutPush
<1>8. ASSUME NEW p \in late, ServeLate(p) PROVE Meets'
  BY <1>0, <1>8 DEF ServeLate
<1> QED BY <1>1, <1>2, <1>3, <1>4, <1>5, <1>6, <1>7, <1>8 DEF Next

\* After two such rounds the ledgers hold the same, and show the same totals.
LEMMA MetConverge ==
  ASSUME IInv, SettlesDown, Meets
  PROVE  TwoRoundsConverge
<1> SUFFICES ASSUME calm = 3, NEW n \in Nodes
             PROVE  /\ ledger[n].epoch = ledger[Ctl].epoch
                    /\ ledger[n].models = ledger[Ctl].models
                    /\ Agree => \A m \in Models : {<<n, m>>, <<Ctl, m>>} \cap stale = {} =>
                                  totals[n][m] = totals[Ctl][m]
  BY DEF TwoRoundsConverge, Agree
<1>1. Same(ledger[n], ledger[Ctl])
  BY DEF SettlesDown, Settled
<1>2. ASSUME Agree, NEW m \in Models, {<<n, m>>, <<Ctl, m>>} \cap stale = {}
      PROVE  totals[n][m] = totals[Ctl][m]
  <2>1. Ctl \in Nodes /\ Own(ledger[n]) /\ Own(ledger[Ctl])
    BY <1>2, Ids DEF Meets
  <2>2. /\ ledger[n].origins \in [DOMAIN ledger[n].origins -> Component]
        /\ ledger[Ctl].origins \in [DOMAIN ledger[Ctl].origins -> Component]
        /\ totals[n][m] = Counted(ledger[n], m) /\ totals[Ctl][m] = Counted(ledger[Ctl], m)
    BY <1>2, <2>1, LedgerParts DEF IInv, LedgersOK, Good, ShowsRight
  <2>3. ledger[n].origins = ledger[Ctl].origins
    BY <2>1, <2>2 DEF Own
  <2>4. Counted(ledger[n], m) = Counted(ledger[Ctl], m)
    BY <1>1, <2>3 DEF Counted, Same
  <2> QED BY <2>2, <2>4
<1> QED BY <1>1, <1>2 DEF Same

\* Two undisturbed rounds of the five-second loop (sync_token_usage_once), whatever resets, erases,
\* joins, failed calls and restarts raced before, bring every node to the controller's epoch and
\* model versions, and - no model erased, no save lost, no first sync repeated after a reset - to
\* exactly the controller's totals.
THEOREM TwoRoundsSettle == Spec => []TwoRoundsConverge
<1> DEFINE Standings == OldStands /\ NewStands /\ Addressed /\ EqualStands /\ SettlesDown /\ Meets
<1>1. Init => Standings
  <2> SUFFICES ASSUME Init PROVE Standings
    OBVIOUS
  <2>1. calm = 0 /\ phase = "idle"
    BY DEF Init
  <2>2. SettlesDown /\ Meets
    BY <2>1 DEF SettlesDown, Settles, Settled, Meets
  <2> QED BY <2>2, StandsFromTheStart, EqualAtFirst
<1>2. IInv /\ IInv' /\ Standings /\ [Next]_vars => Standings'
  BY EveryStepKeeps, AddressedStays, EqualStep, SettlesStep, MeetsStep
<1>3. IInv /\ Standings => TwoRoundsConverge
  BY MetConverge
<1> QED BY <1>1, <1>2, <1>3, InductiveInvariant, PTL DEF Spec
=============================================================================
