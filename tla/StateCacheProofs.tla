-------------------------- MODULE StateCacheProofs --------------------------
(***************************************************************************)
(* The routing snapshot for any callers, collections, intents and bound on *)
(* lifecycle actions.                                                      *)
(***************************************************************************)
EXTENDS StateCache, TLAPS

\* No collection is of a generation yet to come.
NoneAhead == \A k \in Collections : task[k].generation <= generation

\* inflight is what runs and may still be published: the done-callback and the
\* generation counter keep each other's bookkeeping (_ensure_state_refresh).
InflightExact ==
  /\ \A k \in Collections : Live(k) /\ task[k].generation = generation => k \in inflight
  /\ \A k, m \in inflight : k = m

\* A snapshot of an older intent is there because the fields moved after the action
\* that began its generation, so there is a move left to account for the next one.
MovedSince == \A s \in cache : s.of # {intent} => generation < changes

\* The inductive invariant.
IInv ==
  /\ TypeOK
  /\ NoneAhead
  /\ InflightExact
  /\ SnapshotMatchesIntent
  /\ DisownedNeverPublished
  /\ MovedSince

-----------------------------------------------------------------------------
\* The program starts without a snapshot or a collection.
LEMMA InitIInv == Init => IInv
BY ConstantsAssumption
   DEF ConstantsAssumption, Init, IInv, TypeOK, NoneAhead, InflightExact, Live, NoTask,
       SnapshotMatchesIntent, DisownedNeverPublished,
              MovedSince

\* _ensure_state_refresh joins the collection in flight or starts the only one.
LEMMA RefreshingPreserves ==
  ASSUME IInv, NEW k \in Collections, Refreshing(k),
         UNCHANGED <<intentVars, cache, generation>>,
         caller' \in [Callers -> [state : {"new", "waiting", "answered", "refused"},
                                  on : SUBSET Collections, asked : 0..MaxChanges]]
  PROVE  IInv'
<1> USE ConstantsAssumption DEF ConstantsAssumption, intentVars
<1>1. CASE k \in inflight /\ UNCHANGED <<inflight, task>>
  BY <1>1 DEF IInv, TypeOK, NoneAhead, InflightExact, Live,
              SnapshotMatchesIntent, DisownedNeverPublished,
              MovedSince
<1>2. CASE inflight = {} /\ inflight' = {k} /\ task' = [task EXCEPT ![k] = NewTask]
  <2>1. TypeOK'
    <3>1. NewTask \in [state : {"unused", "created", "collecting", "done"},
                       generation : 0..MaxChanges, before : SUBSET Intents,
                       begun : 0..MaxChanges]
      BY DEF NewTask, IInv, TypeOK
    <3> QED BY <1>2, <3>1 DEF IInv, TypeOK
  <2>2. \A m \in Collections : task'[m] = IF m = k THEN NewTask ELSE task[m]
    BY <1>2 DEF IInv, TypeOK
  <2>3. NoneAhead' /\ InflightExact'
    BY <1>2, <2>2 DEF IInv, TypeOK, NoneAhead, InflightExact, Live, NewTask
  <2> QED BY <2>1, <2>3 DEF IInv, SnapshotMatchesIntent, DisownedNeverPublished,
              MovedSince
<1> QED BY <1>1, <1>2 DEF Refreshing

\* A collection ends, published or not: it leaves inflight, and a snapshot of it is
\* of this generation and of the intent in force.
LEMMA AnswerPreserves ==
  ASSUME IInv, NEW k \in Collections, NEW outcome \in {"answered", "refused"},
         Answer(k, outcome),
         cache' = cache \/ ( /\ task[k].generation = generation
                             /\ task[k].before = {intent}
                             /\ cache' = {Snapshot(k, "fresh")} )
  PROVE  IInv'
<1> USE ConstantsAssumption DEF ConstantsAssumption, intentVars
<1>1. \A m \in Collections :
        /\ task'[m].generation = task[m].generation
        /\ m # k => task'[m] = task[m]
        /\ task'[k].state = "done"
  BY DEF Answer, IInv, TypeOK
<1>2. UNCHANGED <<intentVars, generation>> /\ inflight' = inflight \ {k}
  BY DEF Answer
<1>3. task' \in [Collections -> [state : {"unused", "created", "collecting", "done"},
                                 generation : 0..MaxChanges, before : SUBSET Intents,
                                 begun : 0..MaxChanges]]
  BY DEF Answer, IInv, TypeOK
<1>4. caller' \in [Callers -> [state : {"new", "waiting", "answered", "refused"},
                               on : SUBSET Collections, asked : 0..MaxChanges]]
  BY DEF Answer, IInv, TypeOK
<1>5. /\ cache' \subseteq [of : SUBSET Intents, generation : 0..MaxChanges,
                           age : {"fresh", "stale", "expired"}]
      /\ \A s \in cache' : s \in cache \/ (s.of = {intent} /\ s.generation = generation)
  <2>1. CASE cache' = cache
    BY <2>1 DEF IInv, TypeOK, SnapshotMatchesIntent, DisownedNeverPublished,
              MovedSince
  <2>2. CASE /\ task[k].generation = generation
             /\ task[k].before = {intent}
             /\ cache' = {Snapshot(k, "fresh")}
    BY <2>2 DEF IInv, TypeOK, Snapshot
  <2> QED BY <2>1, <2>2
<1>6. TypeOK'
  BY <1>2, <1>3, <1>4, <1>5 DEF IInv, TypeOK
<1>7. NoneAhead' /\ InflightExact'
  BY <1>1, <1>2 DEF IInv, NoneAhead, InflightExact, Live
<1> QED BY <1>2, <1>5, <1>6, <1>7 DEF IInv, SnapshotMatchesIntent, DisownedNeverPublished,
              MovedSince

\* The fields move: the intent that was in force is now superseded and unsaved.
LEMMA MovePreserves ==
  ASSUME IInv, NEW v \in Intents, Move(v)
  PROVE  IInv'
<1> USE ConstantsAssumption DEF ConstantsAssumption, intentVars
<1>1. /\ intent' = v /\ superseded' = superseded \cup {intent} /\ changes' = changes + 1
      /\ changes < MaxChanges
      /\ UNCHANGED <<saved, cache, generation, inflight, task, caller>>
  BY DEF Move
<1>2. TypeOK'
  BY <1>1 DEF IInv, TypeOK
<1>3. NoneAhead' /\ InflightExact'
  BY <1>1 DEF IInv, NoneAhead, InflightExact, Live
<1>4. SnapshotMatchesIntent' /\ DisownedNeverPublished'
  BY <1>1 DEF IInv, SnapshotMatchesIntent, DisownedNeverPublished
<1>5. MovedSince'
  BY <1>1 DEF IInv, TypeOK, MovedSince
<1> QED BY <1>2, <1>3, <1>4, <1>5 DEF IInv

\* A save drops a snapshot of an older intent and disowns the collection in flight;
\* otherwise the snapshot, if there is one, is of the intent in force.
LEMMA SavePreserves ==
  ASSUME IInv, Save
  PROVE  IInv'
<1> USE ConstantsAssumption DEF ConstantsAssumption, intentVars
<1>1. /\ superseded' = {} /\ saved' = changes
      /\ UNCHANGED <<intent, changes, task, caller>>
  BY DEF Save, Written
<1>2. CASE \E s \in cache : s.of # {intent}
  <2>1. cache' = {} /\ generation' = generation + 1 /\ inflight' = {}
    BY <1>2 DEF Save
  <2>2. generation < changes
    BY <1>2 DEF IInv, MovedSince
  <2>3. TypeOK'
    BY <1>1, <2>1, <2>2 DEF IInv, TypeOK
  <2>4. NoneAhead' /\ InflightExact'
    BY <1>1, <2>1 DEF IInv, TypeOK, NoneAhead, InflightExact, Live
  <2> QED BY <2>1, <2>3, <2>4 DEF IInv, SnapshotMatchesIntent, DisownedNeverPublished,
                                  MovedSince
<1>3. CASE \A s \in cache : s.of = {intent}
  <2>1. UNCHANGED <<cache, generation, inflight>>
    BY <1>3 DEF Save
  <2>2. TypeOK'
    BY <1>1, <2>1 DEF IInv, TypeOK
  <2>3. NoneAhead' /\ InflightExact'
    BY <1>1, <2>1 DEF IInv, NoneAhead, InflightExact, Live
  <2>4. SnapshotMatchesIntent' /\ DisownedNeverPublished' /\ MovedSince'
    BY <1>1, <1>3, <2>1 DEF IInv, SnapshotMatchesIntent, DisownedNeverPublished, MovedSince
  <2> QED BY <2>2, <2>3, <2>4 DEF IInv
<1> QED BY <1>2, <1>3

\* Time only changes the age of the snapshot.
LEMMA AgePreserves ==
  ASSUME IInv, Age
  PROVE  IInv'
<1> USE DEF intentVars
<1>1. PICK s \in cache : \E a \in {"stale", "expired"} : cache' = {[s EXCEPT !.age = a]}
  BY DEF Age
<1>2. \A t \in cache' : /\ t.of = s.of /\ t.generation = s.generation
                        /\ t \in [of : SUBSET Intents, generation : 0..MaxChanges,
                                  age : {"fresh", "stale", "expired"}]
  BY <1>1 DEF IInv, TypeOK
<1>3. UNCHANGED <<intentVars, generation, inflight, task, caller>>
  BY DEF Age
<1>4. TypeOK'
  BY <1>2, <1>3 DEF IInv, TypeOK
<1>5. NoneAhead' /\ InflightExact'
  BY <1>3 DEF IInv, NoneAhead, InflightExact, Live
<1> QED BY <1>2, <1>3, <1>4, <1>5 DEF IInv, SnapshotMatchesIntent, DisownedNeverPublished,
              MovedSince

\* Every step preserves the invariant.
LEMMA StepPreserves ==
  ASSUME IInv, [Next]_vars
  PROVE  IInv'
<1> USE ConstantsAssumption DEF ConstantsAssumption, intentVars
<1>1. ASSUME NEW c \in Callers, AskFresh(c) PROVE IInv'
  BY <1>1 DEF AskFresh, IInv, TypeOK, NoneAhead, InflightExact, Live,
              SnapshotMatchesIntent, DisownedNeverPublished,
              MovedSince
<1>2. ASSUME NEW c \in Callers, AskStale(c) PROVE IInv'
  <2>1. PICK k \in Collections : Refreshing(k)
    BY <1>2 DEF AskStale
  <2>2. caller' \in [Callers -> [state : {"new", "waiting", "answered", "refused"},
                                 on : SUBSET Collections, asked : 0..MaxChanges]]
    BY <1>2 DEF AskStale, IInv, TypeOK
  <2>3. UNCHANGED <<intentVars, cache, generation>>
    BY <1>2 DEF AskStale
  <2> QED BY <2>1, <2>2, <2>3, RefreshingPreserves
<1>3. ASSUME NEW c \in Callers, AskNone(c) PROVE IInv'
  <2>1. PICK k \in Collections :
          /\ Refreshing(k)
          /\ caller' = [caller EXCEPT ![c] = [state |-> "waiting", on |-> {k},
                                              asked |-> saved]]
    BY <1>3 DEF AskNone
  <2>2. caller' \in [Callers -> [state : {"new", "waiting", "answered", "refused"},
                                 on : SUBSET Collections, asked : 0..MaxChanges]]
    BY <2>1 DEF IInv, TypeOK
  <2>3. UNCHANGED <<intentVars, cache, generation>>
    BY <1>3 DEF AskNone
  <2> QED BY <2>1, <2>2, <2>3, RefreshingPreserves
<1>4. ASSUME NEW k \in Collections, Collect(k) PROVE IInv'
  <2>1. \A m \in Collections : /\ task'[m].generation = task[m].generation
                               /\ Live(m)' => Live(m)
    BY <1>4 DEF Collect, Live, IInv, TypeOK
  <2>2. UNCHANGED <<intentVars, cache, generation, inflight, caller>>
    BY <1>4 DEF Collect
  <2>3. TypeOK'
    BY <1>4, <2>2 DEF Collect, IInv, TypeOK
  <2>4. NoneAhead' /\ InflightExact'
    BY <2>1, <2>2 DEF IInv, NoneAhead, InflightExact
  <2> QED BY <2>2, <2>3, <2>4 DEF IInv, SnapshotMatchesIntent, DisownedNeverPublished,
              MovedSince
<1>5. ASSUME NEW k \in Collections, Collected(k) PROVE IInv'
  BY <1>5, AnswerPreserves DEF Collected
<1>6. ASSUME NEW k \in Collections, CollectFails(k) PROVE IInv'
  BY <1>6, AnswerPreserves DEF CollectFails
<1>7. CASE UNCHANGED vars
  BY <1>7 DEF vars, IInv, TypeOK, NoneAhead, InflightExact, Live,
              SnapshotMatchesIntent, DisownedNeverPublished,
              MovedSince
<1> QED
  BY <1>1, <1>2, <1>3, <1>4, <1>5, <1>6, <1>7, AgePreserves, MovePreserves, SavePreserves
     DEF Next, Quiescent

-----------------------------------------------------------------------------
\* The bookkeeping of the snapshot and of the collection in flight always agree.
THEOREM InductiveInvariant == Spec => []IInv
<1>1. Init => IInv
  BY InitIInv
<1>2. IInv /\ [Next]_vars => IInv'
  BY StepPreserves
<1> QED BY <1>1, <1>2, PTL DEF Spec

\* Every variable keeps its type (cached_state and its helpers).
THEOREM TypeCorrect == Spec => []TypeOK
<1>1. IInv => TypeOK
  BY DEF IInv
<1> QED BY <1>1, InductiveInvariant, PTL

\* Once a move of the lifecycle fields is saved, no request is placed by a snapshot of an
\* intent it replaced, although a save without a snapshot neither disowns nor drops and
\* other awaits or a failed write may lie between move and save (_save_deployments).
THEOREM SnapshotIsCurrent == Spec => []SnapshotMatchesIntent
<1>1. IInv => SnapshotMatchesIntent
  BY DEF IInv
<1> QED BY <1>1, InductiveInvariant, PTL

\* A disowned collection is never published, whatever the fingerprint became since
\* (_collect_state compares the generation too).
THEOREM NeverDisowned == Spec => []DisownedNeverPublished
<1>1. IInv => DisownedNeverPublished
  BY DEF IInv
<1> QED BY <1>1, InductiveInvariant, PTL

\* At most one collection that may still be published runs (_ensure_state_refresh).
THEOREM OneCollection == Spec => []SingleFlight
<1>1. IInv => SingleFlight
  BY DEF IInv, InflightExact, SingleFlight
<1> QED BY <1>1, InductiveInvariant, PTL
=============================================================================
