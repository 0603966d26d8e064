--------------------------- MODULE TransferQueue ---------------------------
(***************************************************************************)
(* The Virtual NAS (virtual_nas.py): the controller's durable queue of     *)
(* model downloads and node-to-node transfers, its dispatcher, the tasks   *)
(* that run the jobs, the agents that write the files, the cancellation of *)
(* a job across both, crashes of the controller, the feature being turned  *)
(* off and on, and the barrier that node updates wait behind.  All jobs    *)
(* prepare one model.                                                      *)
(***************************************************************************)
EXTENDS Integers, FiniteSets

CONSTANTS
  Nodes,       \* the paired nodes and the controller
  Controller,  \* the node whose process runs the queue
  Caps,        \* whether max_download_bandwidth may be unset (FALSE), set (TRUE)
  MaxJobs,     \* bound on the jobs ever queued
  MaxEvents    \* bound on crashes, dropped answers, failed stops and saves, toggles, updates

ASSUME ConstantsAssumption ==
  /\ Controller \in Nodes
  /\ Caps \subseteq BOOLEAN
  /\ MaxJobs \in Nat /\ MaxEvents \in Nat

VARIABLES
  job,        \* self.jobs, in the order they were queued
  disk,       \* the statuses in virtual_nas_transfers.json
  task,       \* the runner of a job: where it is, and how it moves the files
  copy,       \* what the agents do for the runner that waits for them
  orphan,     \* what they do for a job although no runner waits any more
  tomb,       \* the operations an agent was told to refuse (_canceled_download_ids)
  active,     \* the jobs whose task is in _active and _active_endpoints
  slot,       \* holder of _dispatched_download_lock, 0 when free; Nobody
  cache,      \* the nodes that hold the complete model
  dispatcher, \* TRUE while _dispatch_loop runs
  stopping,   \* the jobs whose tasks a stop() in progress waits for; NotStopping
  update,     \* the update barrier of at most one node
  adrift,     \* history: jobs whose writer outlived its controller
  events      \* how many of these happened

vars == <<job, disk, task, copy, orphan, tomb, active, slot, cache, dispatcher, stopping,
          update, adrift, events>>
work == <<task, copy, orphan, tomb, active, slot>>
rest == <<cache, dispatcher, stopping, update, adrift, disk, events>>

Ids == 1..MaxJobs
Active == {"queued", "running"}
Final == {"completed", "failed", "canceled"}
NotStopping == {0}
Nobody == MaxJobs + 1  \* the slot is locked and its holder gone
NoJob == [kind |-> "none", from |-> Controller, to |-> Controller, after |-> 0,
          status |-> "none", cancelable |-> FALSE, stop |-> "none", err |-> FALSE]
Idle == [at |-> "none", how |-> "none"]
NoUpdate == [node |-> Controller, phase |-> "open"]

Endpoints(j) == {job[j].from, job[j].to}
IsDownload(j) == job[j].kind = "download"
Unfinished(j) == task[j].at \notin {"none", "done"}
Held(n) == update.phase # "open" /\ update.node = n
Last == Cardinality({j \in Ids : job[j].kind # "none"})

Event == events < MaxEvents /\ events' = events + 1
Same == UNCHANGED <<cache, dispatcher, stopping, update, adrift>>

\* _save writes all jobs, and may raise: then the queue file stays as it is.  That is
\* told apart where a status ends or begins; a restart reads the others as queued.
Written == disk' = [j \in Ids |-> job'[j].status]
Saves == \/ Written /\ UNCHANGED events
         \/ UNCHANGED disk /\ Event

-----------------------------------------------------------------------------
(***************************************************************************)
(* The queue.                                                              *)
(***************************************************************************)
NewDownload(n) ==
  [NoJob EXCEPT !.kind = "download", !.from = n, !.to = n, !.status = "queued"]
NewTransfer(s, t, dep) ==
  [NoJob EXCEPT !.kind = "transfer", !.from = s, !.to = t, !.after = dep, !.status = "queued"]
Prepared(n) == \E j \in Ids : job[j].status \in Active /\ job[j].to = n

\* queue_transfer and queue_download_and_transfer, from the duplicate check to the
\* save: the awaits between them only read inventories, which the runner reads again.
QueueTransfer(s, t) ==
  /\ dispatcher /\ Last < MaxJobs
  /\ s # t /\ ~Prepared(t)
  /\ job' = [job EXCEPT ![Last + 1] = NewTransfer(s, t, 0)]
  /\ Written /\ Same /\ UNCHANGED <<work, events>>

QueueDownload(n) ==
  /\ dispatcher /\ Last < MaxJobs
  /\ ~Prepared(n)
  /\ job' = [job EXCEPT ![Last + 1] = NewDownload(n)]
  /\ Written /\ Same /\ UNCHANGED <<work, events>>

QueueDownloadAndTransfer(n, t) ==
  /\ dispatcher /\ Last + 1 < MaxJobs
  /\ n # t /\ ~Prepared(n) /\ ~Prepared(t)
  /\ job' = [job EXCEPT ![Last + 1] = NewDownload(n),
                        ![Last + 2] = NewTransfer(n, t, Last + 1)]
  /\ Written /\ Same /\ UNCHANGED <<work, events>>

\* j ends canceled and the queued jobs that wait for it with it (a dependency of a
\* dependency does not occur).
Canceling(jb, j) ==
  [k \in Ids |->
     IF k = j THEN [jb[k] EXCEPT !.status = "canceled", !.err = FALSE]
     ELSE IF jb[k].after = j /\ jb[k].status = "queued" THEN [jb[k] EXCEPT !.status = "canceled"]
     ELSE jb[k]]

\* MUTANT of CancelQueued: a job that has ended is canceled too.
CancelIdle(j) ==
  /\ job[j].status \notin {"none", "running"}
  /\ job' = Canceling(job, j)
  /\ Saves /\ Same /\ UNCHANGED work

\* cancel_transfer of a queued job, whose task may already be created.
CancelQueued(j) ==
  /\ job[j].status = "queued"
  /\ job' = Canceling(job, j)
  /\ Saves /\ Same /\ UNCHANGED work

\* cancel_transfer of a running job: its event is set, unless the download cannot
\* be canceled or the runner is gone.
CancelRunning(j) ==
  /\ job[j].status = "running" /\ job[j].stop = "clear"
  /\ IsDownload(j) => job[j].cancelable
  /\ job' = [job EXCEPT ![j].stop = "set"]
  /\ Written /\ Same /\ UNCHANGED <<work, events>>

\* MUTANT of Clash: a job blocks, and is blocked at, its target only.
ClashAtTarget(j, k) == job[j].to = job[k].to
Clash(j, k) == Endpoints(j) \cap Endpoints(k) # {}

\* _next_queue_job: a queued job is failed when its source never came, and is ready
\* when that is complete or it needs none.
Source(j) == IF job[j].after = 0 THEN "completed" ELSE job[job[j].after].status
Doomed(j) == job[j].status = "queued" /\ Source(j) \in {"failed", "canceled"}
Ready == {j \in Ids : job[j].status = "queued" /\ Source(j) = "completed"}

Reaped(j) == IF task[j].how = "cut" THEN [task[j] EXCEPT !.at = "none"] ELSE Idle
Kept == {j \in active : Unfinished(j)}

\* One turn of _dispatch_loop takes the ready jobs from the oldest on: each one that
\* meets none of those still running nor of the older ones that it takes.
Picks(picked) ==
  \A j \in Ready : j \in picked <=> \A k \in Kept \cup {i \in picked : i < j} : ~Clash(j, k)

\* The runner of a job picked last time had its first turn before this one.
Dispatch ==
  /\ dispatcher
  /\ \A j \in Ids : task[j].at # "created"
  /\ \E picked \in IF Held(Controller) THEN {{}} ELSE {P \in SUBSET Ready : Picks(P)} :
       /\ active' = Kept \cup picked
       /\ task' = [j \in Ids |-> IF j \in picked THEN [at |-> "created", how |-> "none"]
                                 ELSE IF j \in active \ Kept THEN Reaped(j) ELSE task[j]]
  /\ job' = [j \in Ids |-> IF Doomed(j) /\ ~Held(Controller)
                           THEN [job[j] EXCEPT !.status = "failed"] ELSE job[j]]
  /\ stopping' = stopping \ (active \ Kept)
  /\ IF job' = job THEN UNCHANGED disk ELSE Written
  /\ <<job, active, task>>' # <<job, active, task>>
  /\ UNCHANGED <<copy, orphan, tomb, slot, cache, dispatcher, update, adrift, events>>

\* The save of a job that is failed raises, and _dispatch_loop ends with it.
DispatchFails(j) ==
  /\ dispatcher /\ Doomed(j) /\ ~Held(Controller)
  /\ \A k \in Ids : task[k].at # "created"
  /\ job' = [job EXCEPT ![j].status = "failed"]
  /\ dispatcher' = FALSE
  /\ Event
  /\ UNCHANGED <<work, disk, cache, stopping, update, adrift>>

-----------------------------------------------------------------------------
(***************************************************************************)
(* The runners (_run_download, _run_transfer).                             *)
(***************************************************************************)
Gone(j) == task' = [task EXCEPT ![j] = [at |-> "done", how |-> "none"]]
CutOff(j) == task' = [task EXCEPT ![j] = [at |-> "done", how |-> "cut"]]
At(j, stage) == task' = [task EXCEPT ![j].at = stage]
FreeSlot(j) == slot' = IF slot = j THEN 0 ELSE slot

\* What goes on at the agents once nobody waits for it.
Left(j) == IF copy[j] = "live" \/ orphan[j] = "live" THEN "live"
           ELSE IF copy[j] = "asked" THEN "asked" ELSE orphan[j]
Abandon(j) ==
  /\ orphan' = [orphan EXCEPT ![j] = Left(j)]
  /\ copy' = [copy EXCEPT ![j] = "none"]
Consume(j) ==
  /\ copy' = [copy EXCEPT ![j] = "none"]
  /\ UNCHANGED orphan

\* A runner is over: a status, no cancel event, no slot.  It saves once more.
Over(j, status) ==
  /\ job' = [(IF status = "canceled" THEN Canceling(job, j) ELSE job)
               EXCEPT ![j].status = status, ![j].stop = "none", ![j].err = FALSE]
  /\ Gone(j)
  /\ FreeSlot(j)
  /\ UNCHANGED <<tomb, active>>
Ends(j, status) == Over(j, status) /\ Abandon(j) /\ Saves

\* The final status of a relayed transfer is set; its streams are closed before the
\* cancel event goes and the status is saved.
Closing(j, status) ==
  /\ job' = [job EXCEPT ![j].status = status]
  /\ At(j, "closing")
  /\ Abandon(j)
  /\ UNCHANGED <<tomb, active, slot, disk>>

\* A runner is done with its agent.  A download that can be canceled drains its
\* waiters first, and looks at the cancel event once more.
Concludes(j, status) ==
  \/ /\ task[j].how = "download" /\ At(j, "leaving")
     /\ UNCHANGED <<job, copy, orphan, tomb, active, slot, disk, events>>
  \/ task[j].how = "stream" /\ Closing(j, status) /\ UNCHANGED events
  \/ task[j].how \in {"plain", "direct"} /\ Ends(j, status)

Outcome(j) == IF job[j].err THEN "failed"
              ELSE IF copy[j] = "landed" /\ job[j].stop # "set" THEN "completed"
              ELSE "canceled"

Leave(j) ==
  /\ task[j].at = "leaving"
  /\ Ends(j, Outcome(j))
  /\ Same

\* MUTANT of Leave: the lock of the dispatch slot is not given back.
LeaveHolding(j) ==
  /\ task[j].at = "leaving"
  /\ job' = [job EXCEPT ![j].status = Outcome(j), ![j].stop = "none", ![j].err = FALSE]
  /\ Gone(j)
  /\ Abandon(j) /\ Written /\ Same
  /\ UNCHANGED <<tomb, active, slot, events>>

Close(j) ==
  /\ task[j].at = "closing"
  /\ job' = [job EXCEPT ![j].stop = "none"]
  /\ Gone(j)
  /\ Saves /\ Same
  /\ UNCHANGED <<copy, orphan, tomb, active, slot>>

\* A close raises: neither the cancel event is taken back nor the status saved.
CloseFails(j) ==
  /\ task[j].at = "closing"
  /\ Event /\ Same
  /\ CutOff(j)
  /\ UNCHANGED <<job, disk, copy, orphan, tomb, active, slot>>

\* The first turn of the task: whatever the status became since it was created.  When
\* the save raises, the runner is gone and the job counts as running.
Begins(j, cancelable) ==
  /\ task[j].at = "created"
  /\ cancelable => IsDownload(j)
  /\ job' = [job EXCEPT ![j].status = "running", ![j].stop = "clear",
                        ![j].cancelable = cancelable]
  /\ Same /\ UNCHANGED <<copy, orphan, tomb, active, slot>>
Begin(j, cancelable) ==
  /\ Begins(j, cancelable)
  /\ At(j, "preparing")
  /\ Written /\ UNCHANGED events
BeginFails(j, cancelable) ==
  /\ Begins(j, cancelable)
  /\ CutOff(j)
  /\ Event /\ UNCHANGED disk

\* Inventory, sizes, free space: the job may end before anything is copied.
Prepare(j) ==
  /\ task[j].at = "preparing"
  /\ \/ Ends(j, "failed")
     \/ IsDownload(j) /\ job[j].to \in cache /\ Ends(j, "completed")
     \/ IsDownload(j) /\ job[j].stop = "set" /\ Ends(j, "canceled")
  /\ Same

\* The progress of a runner is saved, and every other job with it.
SaveProgress(j) ==
  /\ task[j].at \in {"preparing", "working", "verifying"}
  /\ disk # [k \in Ids |-> job[k].status]
  /\ disk' = [k \in Ids |-> job[k].status]
  /\ UNCHANGED <<job, work, events>> /\ Same

Ask(j) == copy' = [copy EXCEPT ![j] = "asked"]

\* A download is dispatched, through the slot when a bandwidth cap is set.  An old
\* agent cannot cancel; then, and for a file selection, the request is shielded.
StartDownload(j, cancelable, capped) ==
  /\ task[j].at = "preparing" /\ IsDownload(j)
  /\ cancelable # job[j].cancelable => ~cancelable /\ job[j].to # Controller
  /\ cancelable \/ job[j].stop # "set"
  /\ job' = [job EXCEPT ![j].cancelable = cancelable]
  /\ task' = [task EXCEPT ![j] = [at |-> IF capped THEN "queueing" ELSE "working",
                                  how |-> IF cancelable THEN "download" ELSE "plain"]]
  /\ IF capped THEN UNCHANGED copy ELSE Ask(j)
  /\ UNCHANGED <<orphan, tomb, active, slot, rest>>

\* A transfer goes from agent to agent, or through the controller.
StartTransfer(j, how) ==
  /\ task[j].at = "preparing" /\ ~IsDownload(j)
  /\ how = "direct" => Controller \notin Endpoints(j)
  /\ task' = [task EXCEPT ![j] = [at |-> "working", how |-> how]]
  /\ Ask(j)
  /\ UNCHANGED <<job, orphan, tomb, active, slot, rest>>

\* The dispatch slot: the lock is handed to a waiter, which resumes later.
GrantSlot(j) ==
  /\ task[j].at = "queueing" /\ slot = 0
  /\ slot' = j
  /\ At(j, "granted")
  /\ UNCHANGED <<job, copy, orphan, tomb, active, rest>>

\* _cancellable_dispatch_slot: the cancel event wins against the lock, or comes with it.
LeaveSlot(j) ==
  /\ task[j].at \in {"queueing", "granted"} /\ task[j].how = "download"
  /\ job[j].stop = "set"
  /\ At(j, "leaving")
  /\ UNCHANGED <<job, copy, orphan, tomb, active, slot, rest>>

UseSlot(j) ==
  /\ task[j].at = "granted"
  /\ task[j].how = "download" => job[j].stop # "set"
  /\ At(j, "working")
  /\ Ask(j)
  /\ UNCHANGED <<job, orphan, tomb, active, slot, rest>>

\* The agent's answer arrives.  A failed download is confirmed to have stopped
\* before the job ends; a transfer that landed is verified.
Answered(j) ==
  /\ task[j].at = "working" /\ copy[j] \in {"landed", "broken", "refused"}
  /\ job[j].stop # "set"
  /\ \/ IsDownload(j) /\ copy[j] \in {"landed", "refused"} /\ Concludes(j, Outcome(j))
     \/ /\ task[j].how = "download" /\ copy[j] = "broken"
        /\ job' = [job EXCEPT ![j].err = TRUE, ![j].stop = "set"]
        /\ At(j, "confirming")
        /\ UNCHANGED <<copy, orphan, tomb, active, slot, disk, events>>
     \/ task[j].how # "download" /\ copy[j] = "broken" /\ Concludes(j, "failed")
     \/ /\ ~IsDownload(j) /\ copy[j] = "landed"
        /\ At(j, "verifying")
        /\ UNCHANGED <<job, copy, orphan, tomb, active, slot, disk, events>>
  /\ Same

\* The connection drops while the agent goes on.
Dropped(j) ==
  /\ task[j].at = "working" /\ copy[j] \in {"asked", "live"}
  /\ job[j].to # Controller
  /\ Event /\ Same
  /\ IF task[j].how = "download"
     THEN /\ job' = [job EXCEPT ![j].err = TRUE, ![j].stop = "set"]
          /\ At(j, "confirming")
          /\ UNCHANGED <<copy, orphan, tomb, active, slot, disk>>
     ELSE IF task[j].how = "stream" THEN Closing(j, "failed")
     ELSE Over(j, "failed") /\ Abandon(j) /\ Written

\* The runner sees its cancel event: a download asks the agent to stop the writer, a
\* direct transfer to roll back, a relayed stream just ends.  One that is verified has
\* found the model first.
SeeStop(j) ==
  /\ job[j].stop = "set"
  /\ task[j].at = "verifying" => job[j].to \in cache
  /\ \/ /\ \/ task[j].at = "stranded"
           \/ task[j].at = "working" /\ task[j].how = "download"
        /\ At(j, "confirming")
        /\ UNCHANGED <<job, copy, orphan, tomb, active, slot, disk, events>>
     \/ /\ task[j].at \in {"working", "verifying"} /\ task[j].how = "direct"
        /\ At(j, "rollback")
        /\ UNCHANGED <<job, copy, orphan, tomb, active, slot, disk, events>>
     \/ /\ task[j].at \in {"working", "verifying"} /\ task[j].how = "stream"
        /\ Concludes(j, "canceled")
  /\ Same

\* The target's inventory decides about a transfer.
Verify(j) ==
  /\ task[j].at = "verifying"
  /\ \/ job[j].to \in cache /\ job[j].stop # "set" /\ Concludes(j, "completed")
     \/ Concludes(j, "failed")
  /\ Same

\* cancel_download_operation: the tombstone comes first, so that a request which is
\* still on its way is refused.
ConfirmAsked(j) ==
  /\ task[j].at \in {"confirming", "stopping"} /\ j \notin tomb
  /\ tomb' = tomb \cup {j}
  /\ UNCHANGED <<job, task, copy, orphan, active, slot, rest>>

\* The agent confirms when no writer of the operation lives.
Silent(j) == copy[j] # "live" /\ orphan[j] # "live"

Confirmed(j) ==
  /\ task[j].at = "confirming" /\ j \in tomb /\ Silent(j)
  /\ Concludes(j, Outcome(j))
  /\ Same

\* The confirmation fails: the job keeps its nodes until the next Stop or answer.
Unconfirmed(j) ==
  /\ task[j].at = "confirming"
  /\ Event /\ Same
  /\ job' = [job EXCEPT ![j].stop = "clear"]
  /\ At(j, IF job[j].err THEN "stranded" ELSE "working")
  /\ Written
  /\ UNCHANGED <<copy, orphan, tomb, active, slot>>

\* cancel_peer_import: a running import is stopped and a finished one removed; without
\* a record the target only looks for the destination.
RolledBack(j) ==
  /\ task[j].at = "rollback"
  /\ Over(j, IF copy[j] = "asked" /\ job[j].to \in cache THEN "failed" ELSE "canceled")
  /\ IF copy[j] = "asked" THEN Abandon(j) ELSE Consume(j)
  /\ cache' = IF copy[j] = "landed" THEN cache \ {job[j].to} ELSE cache
  /\ Saves
  /\ UNCHANGED <<dispatcher, stopping, update, adrift>>

RollbackFails(j) ==
  /\ task[j].at = "rollback"
  /\ Event /\ Same
  /\ Over(j, "failed") /\ Abandon(j) /\ Written

-----------------------------------------------------------------------------
(***************************************************************************)
(* The agents.                                                             *)
(***************************************************************************)
\* The per-model lock of _download_model_process: one writer at a node.
Writing(n) == \E k \in Ids : IsDownload(k) /\ job[k].to = n /\ (copy[k] = "live" \/ orphan[k] = "live")

\* Every copy reserves a stream at its nodes, except a download of the controller
\* itself that can be canceled, and a reserved node takes no other (_reserve_stream).
Reserves(j) == ~(IsDownload(j) /\ Endpoints(j) = {Controller} /\ job[j].cancelable)
Known(j) == j \in active /\ Unfinished(j)
Barred(j) == Reserves(j) /\ \E n \in Endpoints(j) : Held(n) /\ ~(n = Controller /\ Known(j))

\* MUTANT of Refuses: an agent forgets which operations were canceled.
RefusesForgetting(j) ==
  \/ Barred(j)
  \/ ~IsDownload(j) /\ (job[j].to \in cache \/ job[j].from \notin cache)

\* MUTANT of Refuses: an agent about to be updated still takes requests.
RefusesUnbarred(j) ==
  \/ IsDownload(j) /\ j \in tomb
  \/ ~IsDownload(j) /\ (job[j].to \in cache \/ job[j].from \notin cache)

\* A canceled operation, a node about to be updated, a model that is there already
\* or a source that is gone.
Refuses(j) ==
  \/ IsDownload(j) /\ j \in tomb
  \/ Barred(j)
  \/ ~IsDownload(j) /\ (job[j].to \in cache \/ job[j].from \notin cache)

Enters(j) == ~Refuses(j) /\ (IsDownload(j) => ~Writing(job[j].to))

\* The request of a runner reaches the agent, or one that outlived its runner does.
Arrive(j) ==
  /\ \/ /\ copy[j] = "asked"
        /\ \/ /\ Refuses(j)
              /\ copy' = [copy EXCEPT ![j] = IF IsDownload(j) /\ j \in tomb
                                             THEN "refused" ELSE "broken"]
           \/ Enters(j) /\ copy' = [copy EXCEPT ![j] = "live"]
        /\ UNCHANGED orphan
     \/ /\ orphan[j] = "asked"
        /\ \/ orphan' = [orphan EXCEPT ![j] = "none"]
           \/ Enters(j) /\ orphan' = [orphan EXCEPT ![j] = "live"]
        /\ UNCHANGED copy
  /\ UNCHANGED <<job, task, tomb, active, slot, rest>>

\* The files are complete (ok), or the copy fails; a canceled writer is killed.  An
\* import does not replace a model that came meanwhile.
Land(j, ok) ==
  /\ ok => IsDownload(j) \/ job[j].to \notin cache
  /\ \/ /\ copy[j] = "live"
        /\ copy' = [copy EXCEPT ![j] = IF ok THEN "landed"
                                       ELSE IF IsDownload(j) /\ j \in tomb THEN "refused"
                                       ELSE "broken"]
        /\ UNCHANGED orphan
     \/ /\ orphan[j] = "live"
        /\ orphan' = [orphan EXCEPT ![j] = "none"]
        /\ UNCHANGED copy
  /\ cache' = IF ok THEN cache \cup {job[j].to} ELSE cache
  /\ UNCHANGED <<job, disk, task, tomb, active, slot, dispatcher, stopping, update, adrift, events>>

\* The update barrier: reserve_update, wait_for_transfers, end_update.
ReserveUpdate(n) ==
  /\ update.phase = "open"
  /\ Event
  /\ update' = [node |-> n, phase |-> "reserved"]
  /\ UNCHANGED <<job, disk, work, cache, dispatcher, stopping, adrift>>

Open(j) == copy[j] = "live" \/ orphan[j] = "live"

StartUpdate ==
  /\ update.phase = "reserved"
  /\ \A j \in Ids : Reserves(j) /\ Open(j) => update.node \notin Endpoints(j)
  /\ update.node = Controller => \A j \in active : ~Unfinished(j)
  /\ update' = [update EXCEPT !.phase = "quiet"]
  /\ UNCHANGED <<job, disk, work, cache, dispatcher, stopping, adrift, events>>

EndUpdate ==
  /\ update.phase # "open"
  /\ update' = NoUpdate
  /\ UNCHANGED <<job, disk, work, cache, dispatcher, stopping, adrift, events>>

-----------------------------------------------------------------------------
(***************************************************************************)
(* Turning the Virtual NAS off and on, and crashes of the controller.      *)
(***************************************************************************)
\* What the cancellation of its task does to a runner.  Requests of a download that
\* can be canceled are confirmed first; a shielded request swallows it; a runner in
\* its rollback, or among its closes, leaves through clauses that keep the status.
Requeues(j) == \/ task[j].at \in {"preparing", "queueing", "granted", "leaving", "verifying"}
               \/ task[j].at = "working" /\ task[j].how \in {"direct", "stream"}
Lingers(j) == \/ task[j].at \in {"confirming", "stranded"}
              \/ task[j].at = "working" /\ task[j].how = "download"
Vanishes(j) == task[j].at \in {"created", "rollback", "closing"}
Cut(j) == task[j].at \in {"rollback", "closing"}

\* MUTANT of Requeued: the cancel event stays registered.
RequeuedKeeping(jb) == [jb EXCEPT !.status = IF @ = "canceled" THEN @ ELSE "queued", !.err = FALSE]

\* MUTANT of Requeued: the status is left to the next start of the queue.
RequeuedRunning(jb) == [jb EXCEPT !.stop = "none", !.err = FALSE]

Requeued(jb) == [jb EXCEPT !.status = IF @ = "canceled" THEN @ ELSE "queued",
                           !.stop = "none", !.err = FALSE]

\* stop(): the dispatcher first, then every task in _active.  What meets the drain of
\* the dispatch slot may come before its lock is released.  Who ends saves, unless it
\* never began or is cut among its closes.
Stop ==
  LET told == {j \in active : Unfinished(j)}
      gone == {j \in told : Requeues(j) \/ Vanishes(j)} IN
  /\ stopping = NotStopping
  /\ Event
  /\ dispatcher' = FALSE
  /\ stopping' = told
  /\ job' = [j \in Ids |-> IF j \in told /\ Requeues(j) THEN Requeued(job[j])
                           ELSE IF j \in gone /\ task[j].at = "rollback"
                           THEN [job[j] EXCEPT !.stop = "none"] ELSE job[j]]
  /\ task' = [j \in Ids |-> IF j \in gone
                            THEN [at |-> "done", how |-> IF Cut(j) THEN "cut" ELSE "none"]
                            ELSE IF j \in told /\ Lingers(j) THEN [task[j] EXCEPT !.at = "stopping"]
                            ELSE task[j]]
  /\ orphan' = [j \in Ids |-> IF j \in gone THEN Left(j) ELSE orphan[j]]
  /\ copy' = [j \in Ids |-> IF j \in gone THEN "none" ELSE copy[j]]
  /\ slot' \in IF slot \notin gone THEN {slot}
               ELSE IF task[slot].at = "leaving" THEN {0, Nobody} ELSE {0}
  /\ IF \E j \in gone : task[j].at \notin {"created", "closing"} THEN Written ELSE UNCHANGED disk
  /\ UNCHANGED <<tomb, active, cache, update, adrift>>

\* stop_before_shutdown: the confirmation is repeated until it comes.
StopConfirmed(j) ==
  /\ task[j].at = "stopping" /\ j \in tomb /\ Silent(j)
  /\ job' = [job EXCEPT ![j] = Requeued(job[j])]
  /\ Gone(j) /\ FreeSlot(j)
  /\ Abandon(j)
  /\ Written /\ Same
  /\ UNCHANGED <<tomb, active, events>>

\* The tasks stop() waited for have ended: _active is emptied, whatever is in it.
StopEnds ==
  /\ stopping # NotStopping /\ \A j \in stopping : ~Unfinished(j)
  /\ stopping' = NotStopping
  /\ active' = {}
  /\ UNCHANGED <<job, disk, task, copy, orphan, tomb, slot, cache, dispatcher, update, adrift, events>>

\* start(), also while a stop() is still waiting.
Start ==
  /\ ~dispatcher
  /\ dispatcher' = TRUE
  /\ UNCHANGED <<job, disk, work, cache, stopping, update, adrift, events>>

\* The process dies and _load_jobs reads the queue file again.  What agents on other
\* nodes do goes on.
Reloaded(j) == IF disk[j] \in Active THEN "queued" ELSE disk[j]
Crash ==
  LET outlives == [j \in Ids |-> IF job[j].to = Controller THEN "none" ELSE Left(j)] IN
  /\ Event
  /\ job' = [j \in Ids |-> [job[j] EXCEPT !.status = Reloaded(j), !.stop = "none", !.err = FALSE]]
  /\ Written
  /\ task' = [j \in Ids |-> Idle]
  /\ copy' = [j \in Ids |-> "none"]
  /\ orphan' = outlives
  /\ active' = {} /\ slot' = 0
  /\ dispatcher' = TRUE /\ stopping' = NotStopping
  /\ update' = IF update.node = Controller THEN NoUpdate ELSE update
  /\ adrift' = adrift \cup {j \in Ids : outlives[j] # "none"}
  /\ UNCHANGED <<tomb, cache>>

-----------------------------------------------------------------------------
Init ==
  /\ job = [j \in Ids |-> NoJob] /\ disk = [j \in Ids |-> "none"]
  /\ task = [j \in Ids |-> Idle]
  /\ copy = [j \in Ids |-> "none"] /\ orphan = [j \in Ids |-> "none"]
  /\ tomb = {} /\ active = {} /\ slot = 0
  /\ cache \in {C \in SUBSET Nodes : Cardinality(C) <= 1}
  /\ dispatcher = TRUE /\ stopping = NotStopping
  /\ update = NoUpdate
  /\ adrift = {}
  /\ events = 0

Runs(j) ==
  \/ Prepare(j)
  \/ \E cancelable \in BOOLEAN : Begin(j, cancelable)
  \/ SaveProgress(j)
  \/ \E cancelable \in BOOLEAN, capped \in Caps : StartDownload(j, cancelable, capped)
  \/ \E how \in {"direct", "stream"} : StartTransfer(j, how)
  \/ GrantSlot(j) \/ LeaveSlot(j) \/ UseSlot(j)
  \/ Answered(j) \/ SeeStop(j) \/ Verify(j)
  \/ ConfirmAsked(j) \/ Confirmed(j) \/ RolledBack(j) \/ StopConfirmed(j)
  \/ Leave(j) \/ Close(j)
Serves(j) == Arrive(j) \/ \E ok \in BOOLEAN : Land(j, ok)

\* Every job has ended or will never end, or waits for a slot that nobody gives back.
LeftRunning(j) == job[j].status = "running" /\ ~Unfinished(j)
Quiescent ==
  /\ \/ slot = Nobody
     \/ \A j \in Ids : job[j].status \in Active => LeftRunning(j)
  /\ UNCHANGED vars

Next ==
  \/ \E s, t \in Nodes : QueueTransfer(s, t) \/ QueueDownloadAndTransfer(s, t)
  \/ \E n \in Nodes : QueueDownload(n)
  \/ \E j \in Ids : CancelQueued(j) \/ CancelRunning(j) \/ Runs(j) \/ Serves(j)
  \/ \E j \in Ids : \/ Dropped(j) \/ Unconfirmed(j) \/ RollbackFails(j)
                   \/ \E cancelable \in BOOLEAN : BeginFails(j, cancelable)
                   \/ DispatchFails(j) \/ CloseFails(j)
  \/ Dispatch
  \/ \E n \in Nodes : ReserveUpdate(n)
  \/ StartUpdate \/ EndUpdate
  \/ Stop \/ StopEnds \/ Start \/ Crash
  \/ Quiescent

Spec == Init /\ [][Next]_vars

-----------------------------------------------------------------------------
(***************************************************************************)
(* Properties.                                                             *)
(***************************************************************************)
\* The fields of a job, where its runner is and how it moves the files, and what agents do.
JobState == [kind : {"none", "download", "transfer"}, from : Nodes, to : Nodes,
             after : 0..MaxJobs, status : {"none"} \cup Active \cup Final,
             cancelable : BOOLEAN, stop : {"none", "clear", "set"}, err : BOOLEAN]
TaskState == [at : {"none", "created", "preparing", "queueing", "granted", "working",
                    "verifying", "confirming", "stranded", "rollback", "stopping", "leaving",
                    "closing", "done"},
              how : {"none", "download", "plain", "direct", "stream", "cut"}]
CopyState == {"none", "asked", "live", "landed", "broken", "refused"}
OrphanState == {"none", "asked", "live"}

\* Every variable has its type; a job depends on an older one, and a cancel event is
\* registered only while a runner would see it (_cancel_events), or when that was cut off.
TypeOK ==
  /\ job \in [Ids -> JobState] /\ task \in [Ids -> TaskState]
  /\ disk \in [Ids -> {"none"} \cup Active \cup Final]
  /\ copy \in [Ids -> CopyState] /\ orphan \in [Ids -> OrphanState]
  /\ \A j \in Ids : /\ job[j].after < j
                    /\ job[j].stop # "none" => Unfinished(j) \/ task[j].how = "cut"
  /\ tomb \subseteq Ids /\ active \subseteq Ids /\ adrift \subseteq Ids
  /\ slot \in 0..Nobody
  /\ cache \subseteq Nodes
  /\ dispatcher \in BOOLEAN
  /\ stopping \subseteq 0..MaxJobs
  /\ update \in [node : Nodes, phase : {"open", "reserved", "quiet"}]
  /\ events \in 0..MaxEvents

\* A download that can be canceled never has a final status while a writer of it
\* lives, through failed confirmations, lost answers and late requests, unless its
\* controller died in between (_await_download_with_cancel: no terminal state is safe).
TerminalMeansStopped ==
  \A j \in Ids : IsDownload(j) /\ job[j].cancelable /\ job[j].status \in Final
                   => orphan[j] # "live" \/ j \in adrift

\* One node's disk and link carry a single one of the transfers the dispatcher knows,
\* whatever is canceled, stopped or started (_dispatch_loop, _busy_nodes).
OneTransferPerNode ==
  \A j, k \in active : j # k /\ copy[j] = "live" /\ copy[k] = "live"
                         => Endpoints(j) \cap Endpoints(k) = {}

\* Nothing is left behind by who goes: a job that holds the dispatch slot is about to
\* dispatch, waits for its agent or is leaving (_cancellable_dispatch_slot), and a job
\* that counts as running has a task that will end it.  Excepted is a runner cut off
\* where the code has no answer: its first save raised before the try, or stop() came
\* in the middle of its rollback (_run_download, _run_transfer).
NothingLeftBehind ==
  /\ slot \in Ids => task[slot].at \in {"granted", "working", "confirming", "stranded",
                                       "stopping", "leaving"}
  /\ \A j \in Ids : job[j].status = "running" => Unfinished(j) \/ task[j].how = "cut"

\* A status that is final stays, through late answers, stops and restarts, except that
\* a job canceled between its dispatch and the first turn of its task runs after all,
\* and that a restart knows the statuses of the queue file only: a transfer is final
\* before its streams are closed and the file is written.
FinalIsFinal ==
  [][\A j \in Ids : job[j].status \in Final =>
       \/ job'[j].status = job[j].status
       \/ task[j].at = "created"
       \/ disk[j] # job[j].status /\ job'[j].status = "queued"]_vars

\* An update that waited for the transfers of its node finds no file of it being read
\* or written until it is over, by jobs or by what outlived them, except by a download
\* of the controller itself that a stop() has dropped from _active (_reserve_stream,
\* wait_for_transfers).
UpdateFindsNothingOpen ==
  update.phase = "quiet" =>
    \A j \in Ids : update.node \in Endpoints(j) /\ Open(j) => ~Reserves(j) /\ ~Known(j)
=============================================================================
