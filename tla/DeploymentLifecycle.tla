------------------------ MODULE DeploymentLifecycle ------------------------
(***************************************************************************)
(* The life of a clustered deployment (manager.py): its durable card, the  *)
(* containers of its ranks, launches that run outside the lifecycle lock,  *)
(* and everyone who queues for that lock: the user's Start, Stop and       *)
(* Remove, the health monitor that finishes stops and restarts split       *)
(* generations, the crash retry, and the two tasks that pick up what a     *)
(* restart of the controller interrupted.  One deployment whose ranks are  *)
(* started together; a relaunch after a change of settings is left out.    *)
(***************************************************************************)
EXTENDS Integers, Sequences, FiniteSets

CONSTANTS
  Ranks,       \* the ranks of the deployment, one per node; at least two
  Local,       \* the rank at the controller's own node
  RetryLimit,  \* DEPLOYMENT_CRASH_RETRY_LIMIT
  MaxUser,     \* bound on the user's requests
  MaxCards,    \* bound on the cards ever created
  MaxEvents,   \* bound on failed requests and exits of containers
  MaxCrashes   \* bound on the deaths of the controller

ASSUME ConstantsAssumption ==
  /\ Local \in Ranks /\ IsFiniteSet(Ranks)
  /\ RetryLimit \in Nat /\ MaxUser \in Nat /\ MaxCards \in Nat
  /\ MaxEvents \in Nat /\ MaxCrashes \in Nat

VARIABLES
  card,        \* the record in deployments.json, saved by the step that changes it
  box,         \* the container of each rank of the last launch
  launch,      \* the running create_deployment of each caller: what it knows of each rank
  lockq,       \* the requests that wait for _deployment_action_lock, oldest first
  hold,        \* the request that holds it: its operation and its gather
  failedStop,  \* the ranks with a failed_stop_error
  health,      \* where _cluster_health_tick is
  retry,       \* the crash retry: task, attempts, healthy_seen, the published verdict
  stopper,     \* _resume_interrupted_stops
  resumer,     \* _resume_interrupted_deployments
  raced,       \* history: the launches a request overtook or a restart cut short
  user, events, crashes \* how many of these happened

vars == <<card, box, launch, lockq, hold, failedStop, health, retry, stopper, resumer,
          raced, user, events, crashes>>
monitors == <<health, retry, stopper, resumer>>
counters == <<raced, user, events, crashes>>

Statuses == {"launching", "starting", "stopping", "stopped", "error", "degraded", "recovering"}
BoxStates == {"absent", "creating", "running", "revived", "exited", "stopped"}
Up == {"running", "revived"}
Down == {"exited", "stopped"}

NoCard(id) == [on |-> FALSE, id |-> id, status |-> "stopped", desired |-> "stopped"]
Launchers == {"user", "resumer"}
NoLaunch == [id |-> 0, st |-> [r \in Ranks |-> "idle"]]
LaunchStates == {"idle", "asked", "sent", "ok", "err", "undo", "done"}
Free == [by |-> "none", op |-> "free", id |-> 0, todo |-> {}, ok |-> {}, fail |-> {}]
NoRetry == [task |-> "none", attempts |-> 0, healthy |-> FALSE, seen |-> "none"]

Event == events < MaxEvents /\ events' = events + 1
Same == UNCHANGED events
rest == <<raced, user, crashes>>
Ask(by, op, id) == lockq' = Append(lockq, [by |-> by, op |-> op, id |-> id])
Found(id) == card.on /\ card.id = id

-----------------------------------------------------------------------------
(***************************************************************************)
(* create_deployment, outside the lock unless the resumer calls it.        *)
(***************************************************************************)
Launching(id) == [id |-> id, st |-> [r \in Ranks |-> "asked"]]

\* MUTANT of NewCard: a new record has no desired_state yet.
NewCardUnset(id) == [on |-> TRUE, id |-> id, status |-> "launching", desired |-> "unset"]

NewCard(id) == [on |-> TRUE, id |-> id, status |-> "launching", desired |-> "running"]
Current(by) == launch[by].id = card.id
Unwritten == {launch[by].id : by \in Launchers} \ {0}
Renewed == [NoRetry EXCEPT !.task = IF retry.task = "queued" THEN "queued" ELSE "none"]

\* The user launches; the preflight has passed and the card is saved.
Create ==
  /\ ~card.on /\ launch["user"] = NoLaunch /\ hold.op # "resumeLaunch"
  /\ card.id < MaxCards /\ \A r \in Ranks : box[r] = "absent"
  /\ card' = NewCard(card.id + 1)
  /\ launch' = [launch EXCEPT !["user"] = Launching(card.id + 1)]
  /\ failedStop' = {}
  /\ retry' = Renewed
  /\ UNCHANGED <<box, lockq, hold, health, stopper, resumer, counters>>

\* The agent of r begins: the launch is in its cluster_member_launches.  A launch whose
\* card was replaced fills the nodes with ranks no card names.
BeginMember(by, r) ==
  /\ launch[by].st[r] = "asked"
  /\ \/ /\ box' = IF Current(by) THEN [box EXCEPT ![r] = "creating"] ELSE box
        /\ launch' = [launch EXCEPT ![by].st[r] = "sent"]
        /\ Same
     \/ /\ Event
        /\ launch' = [launch EXCEPT ![by].st[r] = "err"]
        /\ UNCHANGED box
  /\ UNCHANGED <<card, lockq, hold, failedStop, monitors, rest>>

Hears(r, what) ==
  [by \in Launchers |-> IF Current(by) /\ launch[by].st[r] = "sent"
                        THEN [launch[by] EXCEPT !.st[r] = what] ELSE launch[by]]

\* It ends: the container runs, or creation failed; the answer may be lost.
EndMember(r) ==
  /\ box[r] = "creating"
  /\ \/ /\ box' = [box EXCEPT ![r] = "running"]
        /\ \/ launch' = Hears(r, "ok") /\ Same
           \/ launch' = Hears(r, "err") /\ Event
     \/ /\ box' = [box EXCEPT ![r] = "absent"]
        /\ launch' = Hears(r, "err")
        /\ Event
  /\ UNCHANGED <<card, lockq, hold, failedStop, monitors, rest>>

\* A rank that was removed while its agent created it: the container comes up all the
\* same, under no card.
EndStray(by, r) ==
  /\ launch[by].st[r] = "sent" /\ (Current(by) => box[r] # "creating")
  /\ launch' = [launch EXCEPT ![by].st[r] = "ok"]
  /\ UNCHANGED <<card, box, lockq, hold, failedStop, monitors, counters>>

Heard(by) == launch[by] # NoLaunch /\ \A r \in Ranks : launch[by].st[r] \in {"ok", "err"}
Writes(by, status) ==
  card' = IF card.on /\ Current(by) THEN [card EXCEPT !.status = status] ELSE card

\* The launch is over, and with it the resumer's pass.
LaunchOver(by) ==
  /\ launch' = [launch EXCEPT ![by] = NoLaunch]
  /\ hold' = IF by = "resumer" THEN Free ELSE hold
  /\ resumer' = IF by = "resumer" THEN "check" ELSE resumer

\* The end of create_deployment: the status is written whatever the card says by now.
LaunchOk(by) ==
  /\ Heard(by) /\ \A r \in Ranks : launch[by].st[r] = "ok"
  /\ Writes(by, "starting")
  /\ LaunchOver(by)
  /\ UNCHANGED <<box, lockq, failedStop, health, retry, stopper, counters>>

\* With an error the members that answered are removed again, as far as they can be.
LaunchFails(by) ==
  /\ Heard(by) /\ \E r \in Ranks : launch[by].st[r] = "err"
  /\ Writes(by, "error")
  /\ launch' = [launch EXCEPT ![by].st =
                  [r \in Ranks |-> IF @[r] = "ok" THEN "undo" ELSE "done"]]
  /\ UNCHANGED <<box, lockq, hold, failedStop, monitors, counters>>

Undo(by, r) ==
  /\ launch[by].st[r] = "undo"
  /\ launch' = [launch EXCEPT ![by].st[r] = "done"]
  /\ \/ box' = (IF Current(by) THEN [box EXCEPT ![r] = "absent"] ELSE box) /\ Same
     \/ Event /\ UNCHANGED box
  /\ UNCHANGED <<card, lockq, hold, failedStop, monitors, rest>>

\* The resumer gives up, or defers the new card when a node was unreachable.
LaunchUndone(by) ==
  /\ launch[by] # NoLaunch /\ \A r \in Ranks : launch[by].st[r] = "done"
  /\ LaunchOver(by)
  /\ \/ UNCHANGED card
     \/ by = "resumer" /\ Writes(by, "recovering")
  /\ UNCHANGED <<box, lockq, failedStop, health, retry, stopper, counters>>

-----------------------------------------------------------------------------
(***************************************************************************)
(* The requests to the ranks (_member_action) of the lock's holder.        *)
(***************************************************************************)
Stops == {"stop", "reconcile", "recoverStop"}
Starts == {"start", "recoverStart"}
Removes == {"remove", "resumeRemove"}

\* A container that is being created cannot be stopped yet, and one that is absent
\* cannot be started; recovery takes a remote agent's 404 for a failure.
Accepts(op, r) ==
  CASE op \in {"stop", "reconcile"} -> box[r] # "creating"
    [] op = "recoverStop" -> box[r] # "creating" /\ (box[r] = "absent" => r = Local)
    [] op \in Starts -> box[r] \notin {"absent", "creating"}
    [] op \in Removes -> TRUE

\* An explicit stop disarms Docker's restart policy, a start arms it.
Effect(op, r) ==
  CASE op \in Stops -> IF box[r] = "absent" THEN "absent" ELSE "stopped"
    [] op \in Starts -> IF box[r] \in Up THEN box[r] ELSE "running"
    [] op \in Removes -> "absent"

\* The request is carried out, is refused, or fails before or after its effect.
MemberAction(r) ==
  /\ r \in hold.todo
  /\ \/ /\ Accepts(hold.op, r)
        /\ box' = [box EXCEPT ![r] = Effect(hold.op, r)]
        /\ hold' = [hold EXCEPT !.todo = @ \ {r}, !.ok = @ \cup {r}]
        /\ Same
     \/ /\ ~Accepts(hold.op, r)
        /\ hold' = [hold EXCEPT !.todo = @ \ {r}, !.fail = @ \cup {r}]
        /\ Same /\ UNCHANGED box
     \/ /\ Event
        /\ hold' = [hold EXCEPT !.todo = @ \ {r}, !.fail = @ \cup {r}]
        /\ \/ UNCHANGED box
           \/ Accepts(hold.op, r) /\ box' = [box EXCEPT ![r] = Effect(hold.op, r)]
  /\ UNCHANGED <<card, launch, lockq, failedStop, monitors, rest>>

Gathering(q, op) ==
  [by |-> q.by, op |-> op, id |-> q.id, todo |-> Ranks, ok |-> {}, fail |-> {}]
Gathered(op) == hold.op = op /\ hold.todo = {}

-----------------------------------------------------------------------------
(***************************************************************************)
(* The lock is handed over; what its new holder does before it first waits *)
(* for a rank.                                                             *)
(***************************************************************************)
Turn(op) == hold.op = "free" /\ lockq # <<>> /\ Head(lockq).op = op /\ lockq' = Tail(lockq)
Asker == Head(lockq)

\* What a requester does when its request is over: free the lock and go on.
AfterRequest(by) ==
  /\ health' = IF by = "health" THEN (IF health = "reconcile" THEN "probe" ELSE "idle") ELSE health
  /\ retry' = IF by = "retry" THEN [retry EXCEPT !.task = "none"] ELSE retry
  /\ resumer' = IF by = "resumer" THEN "check" ELSE resumer

BeginStop ==
  /\ Turn("stop") /\ Found(Asker.id)
  /\ card' = [card EXCEPT !.desired = "stopped", !.status = "stopping"]
  /\ hold' = Gathering(Asker, "stop")
  /\ raced' = raced \cup Unwritten
  /\ UNCHANGED <<box, launch, failedStop, monitors, user, events, crashes>>

BeginStart ==
  /\ Turn("start") /\ Found(Asker.id)
  /\ card' = [card EXCEPT !.desired = "running"]
  /\ hold' = Gathering(Asker, "start")
  /\ raced' = raced \cup Unwritten
  /\ UNCHANGED <<box, launch, failedStop, monitors, user, events, crashes>>

BeginRemove ==
  /\ Turn("remove") /\ Found(Asker.id)
  /\ hold' = Gathering(Asker, "remove")
  /\ UNCHANGED <<card, box, launch, failedStop, monitors, counters>>

\* "deployment not found"
NotFound ==
  /\ \E op \in {"stop", "start", "remove"} : Turn(op)
  /\ ~Found(Asker.id)
  /\ AfterRequest(Asker.by)
  /\ stopper' = IF Asker.by = "stopper" THEN 0 ELSE stopper
  /\ UNCHANGED <<card, box, launch, hold, failedStop, counters>>

\* MUTANT of EndStop: a rank that could not be stopped is forgotten.
EndStopAnyway ==
  /\ Gathered("stop")
  /\ hold' = Free
  /\ card' = [card EXCEPT !.status = "stopped"]
  /\ stopper' = IF hold.by = "stopper" THEN 0 ELSE stopper
  /\ AfterRequest(hold.by)
  /\ UNCHANGED <<box, launch, lockq, failedStop, counters>>

EndStop ==
  /\ Gathered("stop")
  /\ hold' = Free
  /\ card' = [card EXCEPT !.status = IF hold.fail = {} THEN "stopped"
                                     ELSE IF hold.by = "stopper" THEN "stopping" ELSE "error"]
  /\ stopper' = IF hold.by = "stopper" THEN (IF hold.fail = {} THEN 0 ELSE hold.id) ELSE stopper
  /\ AfterRequest(hold.by)
  /\ UNCHANGED <<box, launch, lockq, failedStop, counters>>

EndStart ==
  /\ Gathered("start")
  /\ hold' = Free
  /\ card' = [card EXCEPT !.status = IF hold.fail = {} THEN "starting" ELSE "degraded"]
  /\ AfterRequest(hold.by)
  /\ UNCHANGED <<box, launch, lockq, failedStop, stopper, counters>>

EndRemove ==
  /\ Gathered("remove")
  /\ hold' = Free
  /\ card' = IF hold.fail = {} THEN NoCard(card.id) ELSE [card EXCEPT !.status = "error"]
  /\ AfterRequest(hold.by)
  /\ UNCHANGED <<box, launch, lockq, failedStop, stopper, counters>>

-----------------------------------------------------------------------------
(***************************************************************************)
(* The health monitor.                                                     *)
(***************************************************************************)
HealthTick ==
  /\ health = "idle"
  /\ health' = "reconcile"
  /\ Ask("health", "reconcile", card.id)
  /\ UNCHANGED <<card, box, launch, hold, failedStop, retry, stopper, resumer, counters>>

\* MUTANT of StopPending: only a stop known to have failed is finished.
StopPendingFailed == card.on /\ card.desired = "stopped" /\ card.status = "error"

StopPending == card.on /\ card.desired = "stopped"

\* _reconcile_stopped_members: unknown are the ranks whose inventory did not come.
\* Absent and exited ranks are confirmed, the others are stopped again.
BeginReconcile(unknown) ==
  /\ Turn("reconcile")
  /\ IF StopPending
     THEN LET confirmed == {r \in Ranks \ unknown :
                              box[r] = "absent" \/ (box[r] \in Down /\ r \notin failedStop)} IN
          /\ IF unknown = {} THEN Same ELSE Event
          /\ hold' = [by |-> "health", op |-> "reconcile", id |-> card.id,
                      todo |-> (Ranks \ unknown) \ confirmed, ok |-> confirmed, fail |-> {}]
          /\ UNCHANGED health
     ELSE /\ health' = "probe"
          /\ unknown = {} /\ Same /\ UNCHANGED hold
  /\ UNCHANGED <<card, box, launch, failedStop, retry, stopper, resumer, rest>>

EndReconcile ==
  /\ Gathered("reconcile")
  /\ hold' = Free
  /\ failedStop' = (failedStop \cup hold.fail) \ hold.ok
  /\ card' = IF hold.ok = Ranks THEN [card EXCEPT !.status = "stopped"] ELSE card
  /\ AfterRequest("health")
  /\ UNCHANGED <<box, launch, lockq, stopper, counters>>

Watched == card.on /\ card.desired # "stopped"
           /\ card.status \notin {"stopped", "error", "launching"}

\* MUTANT of Split: only a deployment that is down altogether is noticed.
SplitDown == \A r \in Ranks : box[r] \notin Up \cup {"creating"}

Split == /\ \A r \in Ranks : box[r] # "creating"
         /\ \E r \in Ranks : box[r] \notin Up

\* The rest of the tick; a node that does not answer hides the split.
Probe ==
  /\ health = "probe"
  /\ \/ /\ Watched /\ Split
        /\ health' = "recover"
        /\ Ask("health", "recover", card.id)
        /\ Same
     \/ /\ health' = "idle"
        /\ UNCHANGED lockq
        /\ IF Watched /\ Split THEN Event ELSE Same
  /\ UNCHANGED <<card, box, launch, hold, failedStop, retry, stopper, resumer, rest>>

\* MUTANT of StillWatched: the record is trusted to be what the probe saw.
StillWatchedBefore == Found(Asker.id)

\* _recover_cluster_deployment looks again once it has the lock.
StillWatched == Watched /\ Found(Asker.id)

BeginRecover ==
  /\ Turn("recover")
  /\ IF StillWatched
     THEN /\ card' = [card EXCEPT !.status = "recovering"]
          /\ hold' = Gathering(Asker, "recoverStop")
          /\ UNCHANGED health
     ELSE /\ health' = "idle"
          /\ UNCHANGED <<card, hold>>
  /\ UNCHANGED <<box, launch, failedStop, retry, stopper, resumer, counters>>

\* MUTANT of EndRecoverStop: ranks are started although another did not stop.
EndRecoverStopAnyway ==
  /\ Gathered("recoverStop")
  /\ hold' = Gathering(hold, "recoverStart")
  /\ UNCHANGED <<card, box, launch, lockq, failedStop, health, retry, stopper, resumer, counters>>

\* Every rank has stopped before one is started again.
EndRecoverStop ==
  /\ Gathered("recoverStop")
  /\ IF hold.fail = {}
     THEN /\ hold' = Gathering(hold, "recoverStart")
          /\ UNCHANGED <<card, health>>
     ELSE /\ hold' = Free
          /\ card' = [card EXCEPT !.status = "degraded"]
          /\ health' = "idle"
  /\ UNCHANGED <<box, launch, lockq, failedStop, retry, stopper, resumer, counters>>

EndRecoverStart ==
  /\ Gathered("recoverStart")
  /\ hold' = Free
  /\ card' = [card EXCEPT !.status = IF hold.fail = {} THEN "starting" ELSE "degraded"]
  /\ health' = "idle"
  /\ UNCHANGED <<box, launch, lockq, failedStop, retry, stopper, resumer, counters>>

-----------------------------------------------------------------------------
(***************************************************************************)
(* The crash retry.                                                        *)
(***************************************************************************)
\* A card in error, or all of whose ranks exited, is down.
Verdict ==
  IF \/ card.status = "error"
     \/ /\ \A r \in Ranks : box[r] \in Down
        /\ card.status \notin {"recovering", "stopping", "launching"} THEN "down"
  ELSE IF \A r \in Ranks : box[r] \in Up THEN "up"
  ELSE "none"

\* get_state publishes what it sees; a server that is still loading is not up.
Observe ==
  /\ card.on
  /\ \E v \in {Verdict} \cup (IF Verdict = "up" THEN {"none"} ELSE {}) :
       retry.seen # v /\ retry' = [retry EXCEPT !.seen = v]
  /\ UNCHANGED <<card, box, launch, lockq, hold, failedStop, health, stopper, resumer, counters>>

\* The deployment served, is down for certain and has attempts left.
Crashed ==
  /\ card.on /\ card.desired # "stopped"
  /\ retry.seen = "down" /\ retry.healthy
  /\ retry.task = "none" /\ retry.attempts < RetryLimit

\* _deployment_crash_retry_tick, when it changes something.
RetryTick ==
  /\ retry' = IF ~card.on THEN [NoRetry EXCEPT !.task = retry.task]
              ELSE IF card.desired = "stopped"
              THEN [retry EXCEPT !.attempts = 0, !.healthy = FALSE]
              ELSE IF retry.seen = "up"
              THEN [retry EXCEPT !.attempts = 0, !.healthy = TRUE]
              ELSE IF Crashed
              THEN [retry EXCEPT !.attempts = @ + 1, !.task = "created"]
              ELSE retry
  /\ retry' # retry
  /\ UNCHANGED <<card, box, launch, lockq, hold, failedStop, health, stopper, resumer, counters>>

\* The task's first turn: it queues for the lock and looks at nothing again.
RetryTurn ==
  /\ retry.task = "created"
  /\ retry' = [retry EXCEPT !.task = "queued"]
  /\ Ask("retry", "start", card.id)
  /\ UNCHANGED <<card, box, launch, hold, failedStop, health, stopper, resumer, counters>>

-----------------------------------------------------------------------------
(***************************************************************************)
(* After a restart of the controller.                                      *)
(***************************************************************************)
Interrupted == card.on /\ card.status \in {"launching", "recovering"} /\ card.desired # "stopped"

\* A launch that is removing what it created has its error in memory only.
ErrorUnsaved ==
  /\ card.on /\ card.status = "error"
  /\ \E by \in Launchers : Current(by) /\ \A r \in Ranks : launch[by].st[r] \in {"undo", "done"}

\* The controller dies: its tasks are gone, the agents' containers and launches stay.
\* What its own Docker was creating is there or not, and an unsaved error is not.
Crash ==
  /\ crashes < MaxCrashes /\ crashes' = crashes + 1
  /\ \E b \in IF box[Local] = "creating" THEN {"absent", "running"} ELSE {box[Local]} :
       box' = [box EXCEPT ![Local] = b]
  /\ launch' = [by \in Launchers |-> NoLaunch]
  /\ lockq' = <<>>
  /\ hold' = Free
  /\ health' = "idle"
  /\ retry' = NoRetry
  /\ stopper' = IF card.on /\ card.status = "stopping" THEN card.id ELSE 0
  /\ resumer' = "check"
  /\ raced' = raced \cup Unwritten
  /\ \/ UNCHANGED card
     \/ ErrorUnsaved /\ card' = [card EXCEPT !.status = "launching"]
  /\ UNCHANGED <<failedStop, user, events>>

\* _resume_interrupted_stops: the next pass over the card it found stopping.
StopperPass ==
  /\ stopper # 0 /\ \A i \in 1..Len(lockq) : lockq[i].by # "stopper"
  /\ hold.by # "stopper"
  /\ IF Found(stopper) /\ card.status # "stopped"
     THEN Ask("stopper", "stop", stopper) /\ UNCHANGED stopper
     ELSE stopper' = 0 /\ UNCHANGED lockq
  /\ UNCHANGED <<card, box, launch, hold, failedStop, health, retry, resumer, counters>>

\* _resume_interrupted_deployments: the next pass.  It ends with the first pass that
\* has nothing to wait for.
ResumerPass ==
  /\ resumer = "check"
  /\ IF Interrupted
     THEN resumer' = "queued" /\ Ask("resumer", "resume", card.id)
     ELSE resumer' = "done" /\ UNCHANGED lockq
  /\ UNCHANGED <<card, box, launch, hold, failedStop, health, retry, stopper, counters>>

\* MUTANT of StillInterrupted: the record is trusted to be what the pass saw.
StillInterruptedBefore == Found(Asker.id)

\* _resume_interrupted_deployment_locked looks again once it has the lock.
StillInterrupted == Interrupted /\ Found(Asker.id)

\* The nodes are asked first; when they cannot be selected, the resume is deferred or over.
BeginResume ==
  /\ Turn("resume")
  /\ IF StillInterrupted
     THEN \/ /\ card' = [card EXCEPT !.status = "recovering"]
             /\ hold' = Gathering(Asker, "resumeRemove")
             /\ Same /\ UNCHANGED resumer
          \/ /\ Event
             /\ \E s \in {"recovering", "error"} : card' = [card EXCEPT !.status = s]
             /\ resumer' = "check"
             /\ UNCHANGED hold
     ELSE /\ resumer' = "check" /\ Same
          /\ UNCHANGED <<card, hold>>
  /\ raced' = raced \cup Unwritten
  /\ UNCHANGED <<box, launch, failedStop, health, retry, stopper, user, crashes>>

\* The old ranks are gone: the card is dropped before the launch checks its nodes.
\* Otherwise the resume is deferred (recovering) or over (error).
EndResumeRemove ==
  /\ Gathered("resumeRemove")
  /\ IF hold.fail = {}
     THEN /\ card' = NoCard(card.id)
          /\ hold' = [hold EXCEPT !.op = "resumeLaunch"]
          /\ UNCHANGED resumer
     ELSE /\ \E s \in {"recovering", "error"} : card' = [card EXCEPT !.status = s]
          /\ hold' = Free
          /\ resumer' = "check"
  /\ UNCHANGED <<box, launch, lockq, failedStop, health, retry, stopper, counters>>

\* create_deployment accepts the launch under a new identity, or its preflight
\* refuses it and the old card is put back.
ResumeLaunch ==
  /\ hold.op = "resumeLaunch" /\ ~card.on
  /\ \/ /\ card' = NewCard(card.id + 1)
        /\ launch' = [launch EXCEPT !["resumer"] = Launching(card.id + 1)]
        /\ box' = [r \in Ranks |-> "absent"]
        /\ failedStop' = {}
        /\ retry' = Renewed
        /\ UNCHANGED <<hold, resumer>> /\ Same
     \/ /\ Event
        /\ \E s \in {"recovering", "error"} :
             card' = [NewCard(card.id) EXCEPT !.status = s]
        /\ hold' = Free
        /\ resumer' = "check"
        /\ UNCHANGED <<launch, box, failedStop, retry>>
  /\ UNCHANGED <<lockq, health, stopper, rest>>

-----------------------------------------------------------------------------
(***************************************************************************)
(* The user and the containers.                                            *)
(***************************************************************************)
UserAsks(op) ==
  /\ card.on
  /\ user < MaxUser /\ user' = user + 1
  /\ Ask("user", op, card.id)
  /\ UNCHANGED <<card, box, launch, hold, failedStop, monitors, raced, events, crashes>>

\* Servers die, one or with it the others that talk to it; Docker's restart policy
\* may bring them back.
Exit(dead) ==
  /\ dead # {} /\ \A r \in dead : box[r] \in Up
  /\ Event
  /\ box' = [r \in Ranks |-> IF r \in dead THEN "exited" ELSE box[r]]
  /\ UNCHANGED <<card, launch, lockq, hold, failedStop, monitors, rest>>

Revive(r) ==
  /\ box[r] = "exited"
  /\ box' = [box EXCEPT ![r] = "revived"]
  /\ UNCHANGED <<card, launch, lockq, hold, failedStop, monitors, counters>>

-----------------------------------------------------------------------------
Init ==
  /\ card = NoCard(0)
  /\ box = [r \in Ranks |-> "absent"]
  /\ launch = [by \in Launchers |-> NoLaunch]
  /\ lockq = <<>> /\ hold = Free
  /\ failedStop = {}
  /\ health = "idle" /\ retry = NoRetry /\ stopper = 0 /\ resumer = "done"
  /\ raced = {} /\ user = 0 /\ events = 0 /\ crashes = 0

Launches == \E by \in Launchers :
              \/ LaunchOk(by) \/ LaunchFails(by) \/ LaunchUndone(by)
              \/ \E r \in Ranks : BeginMember(by, r) \/ EndStray(by, r) \/ Undo(by, r)
Members == \E r \in Ranks : EndMember(r) \/ MemberAction(r)
Begins == BeginStop \/ BeginStart \/ BeginRemove \/ NotFound \/ BeginRecover \/ BeginResume
          \/ \E u \in SUBSET Ranks : BeginReconcile(u)
Ends == EndStop \/ EndStart \/ EndRemove \/ EndReconcile \/ EndRecoverStop
        \/ EndRecoverStart \/ EndResumeRemove \/ ResumeLaunch
Work == Launches \/ Members \/ Begins \/ Ends

Next == \/ Create \/ Work
        \/ HealthTick \/ Probe
        \/ Observe \/ RetryTick \/ RetryTurn
        \/ StopperPass \/ ResumerPass
        \/ Crash
        \/ \E op \in {"start", "stop", "remove"} : UserAsks(op)
        \/ \E dead \in SUBSET Ranks : Exit(dead)
        \/ \E r \in Ranks : Revive(r)

Spec == Init /\ [][Next]_vars

\* Whoever holds the lock goes on, agents answer, and the periodic tasks run.
Fairness ==
  /\ WF_vars(Launches) /\ WF_vars(Begins) /\ WF_vars(Ends)
  /\ \A r \in Ranks : WF_vars(EndMember(r)) /\ WF_vars(MemberAction(r))
  /\ WF_vars(HealthTick) /\ WF_vars(Probe)
  /\ WF_vars(StopperPass) /\ WF_vars(ResumerPass)
  /\ WF_vars(RetryTick) /\ WF_vars(RetryTurn)
FairSpec == Spec /\ Fairness

-----------------------------------------------------------------------------
(***************************************************************************)
(* Properties.                                                             *)
(***************************************************************************)
Request == [by : {"user", "health", "retry", "stopper", "resumer"},
            op : {"start", "stop", "remove", "reconcile", "recover", "resume"}, id : Nat]

\* Type correctness of the lifecycle's state (manager.py).
TypeOK ==
  /\ card \in [on : BOOLEAN, id : Nat, status : Statuses, desired : {"running", "stopped"}]
  /\ box \in [Ranks -> BoxStates]
  /\ launch \in [Launchers -> [id : Nat, st : [Ranks -> LaunchStates]]]
  /\ lockq \in Seq(Request)
  /\ hold \in [by : {"none", "user", "health", "retry", "stopper", "resumer"},
                op : {"free", "resumeLaunch"} \cup Stops \cup Starts \cup Removes, id : Nat,
                todo : SUBSET Ranks, ok : SUBSET Ranks, fail : SUBSET Ranks]
  /\ failedStop \subseteq Ranks
  /\ health \in {"idle", "reconcile", "probe", "recover"}
  /\ retry \in [task : {"none", "created", "queued"}, attempts : Nat, healthy : BOOLEAN,
                 seen : {"none", "up", "down"}]
  /\ stopper \in Nat /\ resumer \in {"check", "queued", "done"}
  /\ raced \subseteq Nat /\ user \in 0..MaxUser /\ events \in 0..MaxEvents
  /\ crashes \in 0..MaxCrashes

\* _recover_cluster_deployment starts ranks only as one new generation: until it has
\* started a rank, that rank does not run.  (A launch still filling the nodes may
\* interfere when a Start overtook it.)
RecoveryStartsFromRest ==
  hold.op = "recoverStart" /\ card.id \notin raced => \A r \in hold.todo : box[r] \notin Up

\* A recorded Stop outlasts the monitors: neither a recovery nor a resumed launch that
\* waited for the lock works on a card whose desired_state is stopped.
StopOutlastsMonitors ==
  card.on /\ card.desired = "stopped" =>
    hold.op \notin {"recoverStop", "recoverStart", "resumeRemove", "resumeLaunch"}

\* A card reported stopped is down: what runs all the same is of a launch that the Stop
\* overtook or a restart cut short, or a server Docker restarted.
StoppedMeansDown ==
  card.on /\ card.status = "stopped" /\ card.desired = "stopped" =>
    \A r \in Ranks : box[r] \in {"creating", "running"} => card.id \in raced

\* An explicit Stop is finished: by the request, by _resume_interrupted_stops after a
\* restart, by _reconcile_stopped_members when nodes answer again.
StopIsFinished ==
  <>[](card.on /\ card.desired = "stopped") =>
    <>[](card.status = "stopped" /\ \A r \in Ranks : box[r] \notin Up \cup {"creating"})

\* A deployment that should run, whose containers exist and which the monitor watches
\* gets all its ranks up again.  (A Start cut short by a restart leaves a card that is
\* stopped and wanted, which nobody watches.)
SplitIsRepaired ==
  <>[](Watched /\ \A r \in Ranks : box[r] # "absent") => <>[](\A r \in Ranks : box[r] \in Up)
=============================================================================
