----------------------------- MODULE StateCache -----------------------------
(***************************************************************************)
(* The routing snapshot every proxied request is placed by (manager.py,    *)
(* cached_state and its helpers): a cache with a freshness window, one     *)
(* shared background collection, and invalidation by lifecycle actions.    *)
(***************************************************************************)
EXTENDS Integers, FiniteSets

CONSTANTS
  Callers,       \* calls of cached_state, each made once
  Collections,   \* the _collect_state tasks that may be created
  Intents,       \* values of _state_fingerprint: the durable lifecycle state
  MaxChanges     \* bound on the moves of the lifecycle fields

ASSUME ConstantsAssumption ==
  /\ IsFiniteSet(Callers)
  /\ MaxChanges \in Nat

VARIABLES
  intent,      \* the lifecycle fields of self.deployments
  superseded,  \* the intents replaced in memory since the last completed save
  changes,     \* how often the fields moved
  saved,       \* how many of these moves were saved
  cache,       \* _state_cache: empty, or one snapshot
  generation,  \* _state_generation
  inflight,    \* _state_inflight: empty, or one unfinished collection
  task,        \* the collections
  caller       \* the calls

vars == <<intent, superseded, changes, saved, cache, generation, inflight, task, caller>>

intentVars == <<intent, superseded, changes, saved>>

NoTask == [state |-> "unused", generation |-> 0, before |-> {}, begun |-> 0]
NewTask == [state |-> "created", generation |-> generation, before |-> {}, begun |-> 0]
Live(k) == task[k].state \in {"created", "collecting"}
Waiting(k) == {c \in Callers : caller[c].state = "waiting" /\ k \in caller[c].on}
Snapshot(k, age) == [of |-> task[k].before, generation |-> task[k].generation, age |-> age]

-----------------------------------------------------------------------------
\* MUTANT of Refreshing: every caller starts a collection of its own.
RefreshingAlone(k) ==
  /\ task[k].state = "unused"
  /\ inflight' = {k}
  /\ task' = [task EXCEPT ![k] = NewTask]

\* _ensure_state_refresh: k is the collection in flight, or a new one.
Refreshing(k) ==
  \/ k \in inflight /\ UNCHANGED <<inflight, task>>
  \/ /\ inflight = {}
     /\ task[k].state = "unused"
     /\ inflight' = {k}
     /\ task' = [task EXCEPT ![k] = NewTask]

\* cached_state: a fresh snapshot is handed back, a stale one too but with a
\* refresh behind it; without one the caller waits for the refresh.
AskFresh(c) ==
  /\ caller[c].state = "new"
  /\ \E s \in cache : s.age = "fresh"
  /\ caller' = [caller EXCEPT ![c].state = "answered"]
  /\ UNCHANGED <<intentVars, cache, generation, inflight, task>>

AskStale(c) ==
  /\ caller[c].state = "new"
  /\ \E s \in cache : s.age = "stale"
  /\ \E k \in Collections : Refreshing(k)
  /\ caller' = [caller EXCEPT ![c].state = "answered"]
  /\ UNCHANGED <<intentVars, cache, generation>>

AskNone(c) ==
  /\ caller[c].state = "new"
  /\ \A s \in cache : s.age = "expired"
  /\ \E k \in Collections :
       /\ Refreshing(k)
       /\ caller' = [caller EXCEPT ![c] = [state |-> "waiting", on |-> {k}, asked |-> saved]]
  /\ UNCHANGED <<intentVars, cache, generation>>

\* The first turn of _collect_state: the fingerprint before.
Collect(k) ==
  /\ task[k].state = "created"
  /\ task' = [task EXCEPT ![k] = [task[k] EXCEPT !.state = "collecting",
                                                 !.before = {intent}, !.begun = changes]]
  /\ UNCHANGED <<intentVars, cache, generation, inflight, caller>>

Answer(k, outcome) ==
  /\ task' = [task EXCEPT ![k] = [task[k] EXCEPT !.state = "done"]]
  /\ inflight' = inflight \ {k}
  /\ caller' = [c \in Callers |->
                  IF c \in Waiting(k) THEN [caller[c] EXCEPT !.state = outcome] ELSE caller[c]]
  /\ UNCHANGED <<intentVars, generation>>

\* MUTANT of Collected: an unchanged fingerprint is proof enough.
CollectedUnversioned(k) ==
  /\ task[k].state = "collecting"
  /\ cache' = IF task[k].before = {intent} THEN {Snapshot(k, "fresh")} ELSE cache
  /\ Answer(k, "answered")

\* MUTANT of Collected: a collection that is not published answers nobody.
CollectedSilently(k) ==
  /\ task[k].state = "collecting"
  /\ \/ /\ task[k].generation = generation /\ task[k].before = {intent}
        /\ cache' = {Snapshot(k, "fresh")}
        /\ Answer(k, "answered")
     \/ /\ ~(task[k].generation = generation /\ task[k].before = {intent})
        /\ task' = [task EXCEPT ![k] = [task[k] EXCEPT !.state = "done"]]
        /\ inflight' = inflight \ {k}
        /\ UNCHANGED <<intentVars, cache, generation, caller>>

\* get_state is through: the snapshot is published unless it was disowned or the
\* fingerprint moved; its waiters receive it either way.
Collected(k) ==
  /\ task[k].state = "collecting"
  /\ cache' = IF task[k].generation = generation /\ task[k].before = {intent}
              THEN {Snapshot(k, "fresh")} ELSE cache
  /\ Answer(k, "answered")

CollectFails(k) ==
  /\ task[k].state = "collecting"
  /\ UNCHANGED cache
  /\ Answer(k, "refused")

Age ==
  /\ \E s \in cache :
       \/ s.age = "fresh" /\ cache' = {[s EXCEPT !.age = "stale"]}
       \/ s.age = "stale" /\ cache' = {[s EXCEPT !.age = "expired"]}
  /\ UNCHANGED <<intentVars, generation, inflight, task, caller>>

\* A lifecycle action moves the fields in memory.  Its save follows at once or, as in
\* a launch that rolls back first, after further awaits.
Move(v) ==
  /\ changes < MaxChanges
  /\ v # intent
  /\ intent' = v
  /\ superseded' = superseded \cup {intent}
  /\ changes' = changes + 1
  /\ UNCHANGED <<saved, cache, generation, inflight, task, caller>>

\* The write of the deployments file is through: nothing moved is unsaved.
Written ==
  /\ superseded' = {}
  /\ saved' = changes
  /\ UNCHANGED <<intent, changes, task, caller>>

\* MUTANT of Save: only a collection in flight is disowned.
SaveKeeping ==
  /\ Written
  /\ superseded # {}
  /\ generation' = generation + 1
  /\ inflight' = {}
  /\ UNCHANGED cache

\* MUTANT of Save: the action invalidates once more after its save did.
SaveTwice ==
  /\ Written
  /\ \E s \in cache : s.of # {intent}
  /\ cache' = {} /\ generation' = generation + 2 /\ inflight' = {}

\* _save_deployments, by whichever action: the snapshot is dropped and the collection
\* in flight disowned -- if there is a snapshot to compare with.  A write that raises
\* never gets there and changes nothing.
Save ==
  /\ Written
  /\ IF \E s \in cache : s.of # {intent}
     THEN cache' = {} /\ generation' = generation + 1 /\ inflight' = {}
     ELSE UNCHANGED <<cache, generation, inflight>>

-----------------------------------------------------------------------------
Init ==
  /\ intent \in Intents
  /\ superseded = {}
  /\ changes = 0
  /\ saved = 0
  /\ cache = {}
  /\ generation = 0
  /\ inflight = {}
  /\ task = [k \in Collections |-> NoTask]
  /\ caller = [c \in Callers |-> [state |-> "new", on |-> {}, asked |-> 0]]

\* Every call was made and no collection runs.
Quiescent ==
  /\ \A c \in Callers : caller[c].state # "new"
  /\ \A k \in Collections : ~Live(k)
  /\ UNCHANGED vars

Next ==
  \/ \E c \in Callers : AskFresh(c) \/ AskStale(c) \/ AskNone(c)
  \/ \E k \in Collections : Collect(k) \/ Collected(k) \/ CollectFails(k)
  \/ Age
  \/ \E v \in Intents : Move(v)
  \/ Save
  \/ Quiescent

\* Docker and the nodes answer, or their calls time out.
Fairness ==
  \A k \in Collections : WF_vars(Collect(k)) /\ WF_vars(Collected(k) \/ CollectFails(k))

Spec == Init /\ [][Next]_vars
FairSpec == Spec /\ Fairness

-----------------------------------------------------------------------------
(***************************************************************************)
(* Properties.                                                             *)
(***************************************************************************)
\* Every variable has the type its declaration announces; no generation without a
\* lifecycle action that began it.
TypeOK ==
  /\ intent \in Intents
  /\ superseded \subseteq Intents
  /\ changes \in 0..MaxChanges
  /\ saved \in 0..MaxChanges
  /\ generation \in 0..changes
  /\ cache \subseteq [of : SUBSET Intents, generation : 0..MaxChanges,
                      age : {"fresh", "stale", "expired"}]
  /\ inflight \subseteq Collections
  /\ task \in [Collections -> [state : {"unused", "created", "collecting", "done"},
                               generation : 0..MaxChanges, before : SUBSET Intents,
                               begun : 0..MaxChanges]]
  /\ caller \in [Callers -> [state : {"new", "waiting", "answered", "refused"},
                             on : SUBSET Collections, asked : 0..MaxChanges]]

\* No snapshot survives the save of an intent that replaced the one it carries, nor is
\* one published after it: as soon as a move is saved, placing a request by the snapshot
\* never revives the older intent.  Until then -- a rollback is awaited, or the write
\* raised -- the older one may still be served (_save_deployments, _collect_state).
SnapshotMatchesIntent ==
  \A s \in cache : \E v \in {intent} \cup superseded : s.of = {v}

\* A collection that a lifecycle action disowned is never published, even when a
\* second action restored the fingerprint it began with.
DisownedNeverPublished == \A s \in cache : s.generation = generation

\* Callers share one collection: at most one that may still be published runs.
SingleFlight ==
  \A k, m \in Collections :
    Live(k) /\ Live(m) /\ task[k].generation = generation /\ task[m].generation = generation
      => k = m

\* Whoever waits gets an answer, also from a collection that was disowned.
EveryCallAnswered == \A c \in Callers : caller[c].state = "waiting" ~> caller[c].state # "waiting"

\* A caller is never given a collection that a lifecycle action before its call
\* raced: _save_deployments drops it, says cached_state.
RacedCollectionDropped ==
  \A c \in Callers : \A k \in Collections :
    c \in Waiting(k) /\ task[k].state = "collecting" => caller[c].asked <= task[k].begun
=============================================================================
