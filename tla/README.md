# SparkDeck in TLA+

SparkDeck is a controller for LLM inference on a cluster of small GPU machines:
one asyncio process per node that starts vLLM, SGLang and llama.cpp containers,
proxies OpenAI-style requests to them, moves models between nodes and shows a
dashboard. This directory holds TLA+ models of the parts whose correctness
depends on the order in which tasks run, the TLC configurations that check them,
and proofs that the central invariants hold for any number of requests.

Check a module with `tlc -config InferenceAdmission.cfg MCInferenceAdmission.tla`;
check the proofs with `tlapm InferenceAdmissionProofs.tla`, and likewise for
`PromptGateProofs`, `JobQueueProofs`, `StateCacheProofs`, `ClusterRoutingProofs`,
`DeploymentLifecycleProofs`, `UsageSyncProofs` and `TransferQueueProofs`.

## 1. The system

### Components

| Component | Where | State | Operations | Hard behaviour |
|---|---|---|---|---|
| Inference admission | `manager.py` 14385-15476, 22883-23543 | per target: limit, effective limit, running counter, waiter deque, leases; per request: record in `_active_reqs`, cancel and nudge events, transport | acquire, release, drain, re-resolve, stream, close, replay, reap, sweep, reset, nudge, recover | grants racing aborts, one lease released from four places, abandoned generators, live limits |
| Prompt gate | `sparkdeck/prompt_gate.py` | `active`, deque of futures, leases; a factory task and a producer task per call | acquire, run, refresh, release, watch, aclose | cancellation landing in clean-up, streams nobody reads |
| Offline job queue | `manager.py` 24742-25173 | `jobs`, `queue`, status and attempts of each job | submit, cancel, force, clear, tick, run with retries | scheduler state read before an await and written after it |
| Routing state cache | `manager.py` 25175-25286, 4724-4730 | snapshot with age, in-flight collection, generation, lifecycle fingerprint | read, refresh, collect, publish, invalidate | collections raced by lifecycle actions |
| Deployment lifecycle | `manager.py` 9364-12298 | `deployments` on disk (desired state, status, members), runtime side table, retry episodes | launch, start, stop, remove, resume, crash retry, health recovery, reconciling | intent against observation, controller restarts, remote ranks |
| Cluster routing | `manager.py` 7593-8915, `prefix_affinity.py` | load per member, rotation, affinity, ride-through | choose, acquire, prime, fail over, release | failover until the first event, exactly-once release |
| Token usage ledger | `manager.py` 4345-4413, 13361-13810, 14170-14232, 15851-15961 | per node a ledger: reset epoch, erase versions, a component per origin | record, merge, reconcile, reset, erase, sync round | late, repeated and reordered merges |
| Virtual NAS | `sparkdeck/virtual_nas.py` | transfer jobs, active tasks, dispatch slot, operations told to stop, update barrier | queue, dispatch, run, cancel, roll back, import, stop, update | cancellation racing completion across two nodes, agents that go on alone |
| Image pulls, patches | `throttled_image_pull.py`, `image_patch_jobs.py` | layer files, job records | pull, resume, patch | partial files, bandwidth cap |
| Updater | `updater.py`, `update_helper.py` | update state on disk, detached helper | start, drain, run, reconcile | death of either process |
| Benchmark store, outbox | `storage.py`, `service.py` | SQLite tables, outbox status, consent generation | add, batch, mark, retry, revoke | send-then-mark, consent races |
| Service layer, API, MCP | `service.py`, `server.py`, `mcp_server.py` | sessions, caches | request translation | client disconnects |
| Telemetry, benchmarks, fans, onboarding, catalog, embeddings, disk, Laya, front end | the other files | measurements, files, UI | | little protocol between actors |

### How they interact

A request enters `server.py`, which starts a task that polls the connection and sets
an `asyncio.Event` when the client is gone (`_watch_disconnect`). The event travels
with the request through everything below. The router places the request by a
snapshot from the *state cache*; the *prompt gate* of the serving group holds it until
prompt processing may start; *cluster routing* picks a member; on the member the
*admission queue* of the container grants a slot, after which the container is resolved
again and the HTTP exchange opened. A stream is handed over from the task that prepared
it to whoever iterates it; the queue's *reaper* and *nudger* loops look at it from the
side. Offline jobs come from the *job queue* and pass the same admission. Lifecycle
actions write `deployments`, whose save invalidates the state cache, and stopping a
container resets its admission state.

All of this runs on one event loop: code between two awaits is atomic, and every await
lets every other task run. An action of a model is therefore the code between two
awaits, with all the calls it makes. A completed future resumes its waiter in a later
step, so the models separate completing a future from the resumption.

### What makes each component correct

* *Admission*: the counter equals the grants that are out and the deque holds the
  calls that wait; nobody waits beside a free slot; first come, first served; no open
  exchange without a slot; no replay of a stream that showed output; abandoned slots
  come back; a nudged limit recovers while the nudger is on and finds nothing slow.
* *Prompt gate*: it is a FIFO semaphore under a moving limit; a prompt upstream may
  still process holds its lease; nothing is left open; a disconnect gives the lease back.
* *Job queue*: each unfinished job has somebody to run it; a cancelled job never runs.
* *State cache*: no snapshot outlives the save of a newer lifecycle state; a disowned
  collection is not published; callers share a collection and all are answered.
* *Deployment lifecycle*: a recorded stop outlasts the monitors and is finished, also by
  a controller that was restarted; what is reported stopped is down; a recovery begins
  from rest; a deployment with a dead rank is repaired.
* *Cluster routing*: a member's load is the number of requests in its hands; a prompt an
  engine may have answered is not sent again.
* *Usage ledger*: the totals are those of the ledger; a merge never takes a node's own
  usage; what was forgotten is not counted again; undisturbed rounds converge.
* *Transfers*: a node takes part in one transfer at a time; a job that ended has stopped
  writing and stays ended; nothing is left waiting; an update finds no file open.

The hazards behind these properties are listed with their lines in `PROJECT.json`.

## 2. The modules

| Module | Role |
|---|---|
| `FifoQueue` | queues of distinct callers: `Elems`, `Without`, `Least` |
| `FifoSlots` | abstract specification: a FIFO semaphore under a moving limit |
| `InferenceAdmission` | the admission queue; `MCInferenceAdmission` adds the symmetry set |
| `InferenceAdmissionProofs` | inductive invariant and theorems, and first come, first served |
| `PromptGate` | the gate; it implements `FifoSlots`; `MCPromptGate` |
| `PromptGateProofs` | its inductive invariant and theorems, and the refinement of `FifoSlots` |
| `JobQueue` | the offline job queue; `MCJobQueue` |
| `JobQueueProofs` | its inductive invariant and theorems |
| `StateCache` | the routing snapshot; `MCStateCache` |
| `StateCacheProofs` | its inductive invariant and theorems |
| `DeploymentLifecycle` | one deployment between the user, the monitors and restarts; `MCDeploymentLifecycle` |
| `DeploymentLifecycleProofs` | its inductive invariant and theorems |
| `ClusterRouting` | members, failover, ride-through; `MCClusterRouting` |
| `ClusterRoutingProofs` | its inductive invariant and theorems |
| `UsageSync` | the ledgers of several nodes and their exchange; `MCUsageSync` |
| `UsageSyncProofs` | its inductive invariant and theorems |
| `TransferQueue` | the Virtual NAS queue, its agents and the update barrier; `MCTransferQueue` |
| `TransferQueueProofs` | its inductive invariant and theorems |

The map from definitions to source lines is in `PROJECT.json`. Operators whose comment
begins with MUTANT are not part of a model: they are faulty variants of the definition
they name, kept to show that each property can fail.

### InferenceAdmission

`slots[t]` is the admission state of target `t` (`_inference_admission[t]`): `limit`,
`eff` (`effective_limit`, `Free` when the key is absent), `running`, the queue `waiters`
and the set `leases`. An absent entry reads as `NoEntry`. `lease[r]` joins the request's
waiter and its `_AdmissionLease`: its status, the target and limit it was asked under,
and `stale`, which stands for `state is not target.state`. The code marks a lease that a
reset took away as released; the model calls it *revoked* so that `TransportUnderSlot`
can except it.

The helpers (`Drain`, `Release`, `Queue`, `Leave`, `Fail`) are functions from a pair of
store and leases to the next one, as the code calls them in sequence inside one step
(a release drains, a drain may empty the entry, an empty entry is popped). `pc[r]`
follows a request: queued, resolving (granted, about to be resolved again), open, ready
(prepared, nobody iterates yet), consuming, closing, failing and erring (the transport of a
failed stream closes, then its error is handed out before the slot goes), nudged, dropped or
orphaned (nobody will iterate it again), done. `conf` and `up` are what
`_resolve_vllm_target` finds; `Crash` and `Reconfigure` are the container's own doing.
`nudging` is the setting `vllm_nudger_enabled`.

Abstractions. Token rates and timers are choices: a wait may time out at any time, the
nudger may find any target slow, the sweep's grace period may have passed whenever the
container is down, and the survivor of a nudge, the oldest stream in the code, is any
stream. Clamping a lowered limit is merged into the recovery step that follows it. The
reaper and a resumed stream share one close task; the reaper was first to wait for it
and resumes first. The two 400-status retries of one exchange stay inside `open`. Usage
counting and chunk contents are left out, and a call that fails while it holds neither slot
nor transport ends at once. `MaxEvents` bounds the administrative events; nudges are not
bounded.

### PromptGate

`ticket[r]` is the call's future and lease, `active` and `waiting` the gate's fields.
`work[r]` is the task that matters for the lease: first the factory task of `run`, then
the producer of `_PromptStream`. A task is created, running, finishing (in its own
`finally`, closing upstream), closing (in it because it was cancelled), cut (its
clean-up was cancelled), doomed (cancelled before its first turn), then ended,
unstarted or leaked. `Cancelled` is `_cancel_once`. `Refresh`, `Release` and `Leave` are
the gate's methods. `Resize` is a settings update followed by `PromptGates.refresh`.

The model is one gate: gates share only the limit, and the weak registry keeps a gate
as long as something uses it. The one-chunk queue between producer and consumer is
abstracted to "output was shown or not". Teardown of the call's own task may happen at
any await (`GiveUp`, `Aborts` and `Close` have no guard on the cancel event). A call that
has to close a stream itself, because the factory had returned it or the producer never
ran, stands at `disposing`; AnyIO's shield does not keep out `task.cancel()`, so a
cancellation may land there (`Interrupted`) and the call then ends with the exchange open
(`leaked`), as after one that lands in the `finally` of the producer.

`ImplementsFifoSlots` is the refinement: the holders are the calls whose ticket is held,
and every step of the gate is one `Join`, `GiveUp`, `Return` or `Resize` of `FifoSlots`,
or a stutter. In `FifoSlots` admitting the head of the queue is part of each action,
which is how work conservation and first-come order enter the promise.

### JobQueue

`status`, `cancel` and `attempts` are fields of a job, `listed` the keys of `self.jobs`,
`queue` the members of `self.queue`. `todo` and `at` are the local state of `_tick`:
the ids it still has to look at, and the call it awaits for one of them. `runner[j]` is
the `_run_inference` task. The scheduler suspends at `list_containers`, at the health
probe and at the start of a container; these are the steps.

Which containers exist, whether they are ready and whether the GPU has room are choices
at each visit, which covers `force_run` (it only lifts the GPU check). None of the
modelled operations awaits under `self.lock`, so a locked section belongs to the step
around it; one other user of the lock, `update_container_settings`, does await under it,
and what follows from that is listed as a hazard. The order of the queue is abstracted
to its set of members: a tick looks at all of them.

### StateCache

`intent` is the value of `_state_fingerprint`, the lifecycle fields of `deployments` in
memory, and `superseded` the values it had since the last completed save. A lifecycle
action moves the fields (`Move`) and saves later (`Save`): at once in most of the code,
after an awaited rollback when a launch fails (9756-9801), and not at all when the write
raises (4725). A save by any action saves every move. `cache`, `generation` and
`inflight` are the three fields; `task[k]` a collection with the generation and
fingerprint it began with. `begun` counts the moves before a collection, `asked` the saved
ones before a call; only `RacedCollectionDropped` reads them. `get_state` is one
asynchronous collection that may fail; `_forget_state` belongs to its end. The ages are
fresh, stale and expired, for the two time-to-live parameters.

### DeploymentLifecycle

`card` is the deployment's record in `deployments` (present or not, id, `status`,
`desired_state`), `box[r]` the container of rank `r` on its node. `launch` holds the two
tasks that may be creating containers, the one of a user's `create_deployment` and the one
of a resumed launch, with what each knows of every rank. `lockq` and `hold` are the action
lock of the deployment (`_cluster_action_lock`): who waits in order, and the request in
force with the ranks it still has to hear from. `failedStop` are the members whose stop
failed and which `_reconcile_stopped_members` retries. `health`, `retry`, `stopper` and
`resumer` are the local states of the periodic tasks and of the two resumers a new
controller process starts.

A user's action takes the lock, writes the desired state (`BeginStop`, `BeginStart`),
sends a request to every rank and ends when all have answered (`MemberAction`, `EndStop`,
...). The monitors decide from what they read without the lock, then wait for it and look
again (`StillWatched`, `StillInterrupted`): what lies between is what the properties are
about. `Crash` is a hard death of the controller; a request on its way is carried out or not,
and the error of a launch that is still being undone is not on disk yet (`ErrorUnsaved`).

Abstractions: one deployment whose ranks start together; an unreachable node is a request
that fails or an inventory that says nothing; the only health issue is a rank that is down
while another is up; strays of a removed card are not tracked once nobody knows them.
Relaunch after changed settings, per-instance actions and capacity redeploy are left out.
`raced` remembers the cards whose launch was overtaken by a request or cut short by a
restart; two properties except them (section 6).

### ClusterRouting

`req[r]` is one request: where it stands, the member it holds, the members left to try,
the pass of the ride-through, and `pass_state`. `load` is `_cluster_member_load_counts`.
A member is reserved when it is selected (`TryNext`) and released by exactly one of the
places the code has for it: a failure (`FailsOver`), the end of the request (`Ends`), or
the reaper (`Reaped`), which shares `release_member_once` with the stream's own clean-up.
`relay` says whether a stream was already handed to the client, which is where failover
moves from `_proxy_cluster_inference_once` into the relay and ride-through ends. `sent`
and `read` are histories: the engines that got the prompt, the members the client read.

The prompt gate and the admission queue are reduced to their answers (granted, timed out,
aborted); their own modules check them. Rotation and prefix affinity choose among the
members of least load, so any of these may lead the route. For engine groups the set `S`
of running coordinators is a choice at each route.

### UsageSync

Every node has a `ledger`: the version of the last reset (`epoch`), the version of each
model's last erase (`models`), and a component per origin with its revision, its lifetime
and hourly counters and the model version each was counted under (`stamp`). `disk` is what
the node saved, `totals` what it shows (`token_stats`). A counter is the set of requests
it counts: this is what tells losing one from counting one twice. `Merge`, `Reconciled`
and `Preserved` are the three functions of the code, `Record`, `Reset` and `Erase` the
local operations, the rest the controller's round: pull from all peers, absorb in registry
order, push the union, mark who was reconciled. A push that times out may be served any
time later (`late`), which also stands for a second, overlapping sync started by hand.

Saving the ledger may raise, and each caller takes it differently. `Record` swallows it. A
`Reset` or an `Erase` ends there: the new epoch or version is in memory, the totals are still
the old ones (`stale` remembers for which models) and the disk has the old ledger. A merge has
rebuilt the totals by then (`Keep`); a push then fails at the peer and stays unconfirmed
(`ServePush`), and the controller leaves the peer after whose ledger it raised out of the rest
of the round (`MergePulls`, over the `Changing` places of the registry), though the union it
pushes to the others has that peer's usage. `spent.lost` records a restart that went back behind
the ledger in memory, `spent.rewound` one that went back behind an epoch.

Speed samples, the pruning of the hourly history and the saves other than the ledger's are
left out. `spent` counts the bounded events and remembers what the properties except.

### TransferQueue

`job` is a row of the durable queue, `task` its runner (`_run_download`, `_run_transfer`),
`active` the tasks the dispatcher knows. `copy[j]` is what the agents do for the runner
that waits for them, `orphan[j]` what they do when nobody waits any more: asked (the
request is on its way) or live (files are being written). `tomb` are the operations
an agent was told to refuse. `Dispatch` is one turn of `_dispatch_loop`: from the
oldest on, it takes each ready job that meets none still running nor an older one it takes
(`Picks`, the only set of jobs with that property), and fails those whose source never came
(`Doomed`). A capped download waits for `slot` first. A cancelled download asks the agent to
stop and waits until it confirms (`SeeStop`, `ConfirmAsked`, `Confirmed`); a direct transfer is
rolled back. A relayed transfer has its final status before its streams are closed and saves it
after (`Closing`, `Close`, `CloseFails`), and a download that leaves the slot drains its waiters
first (`Leave`): what a stop cuts there is cut in the model too. `disk` holds the statuses in the
queue file; `BeginFails`, `DispatchFails` and `Saves` are the saves that raise. `ReserveUpdate`,
`StartUpdate` and `EndUpdate` are the barrier that node updates wait behind: it waits for the
streams that are reserved (`Reserves`) and, at the controller, for the tasks in `_active`
(`Known`). `Stop` and `Start` are the switch of the feature, `Crash` and the loading of the
queue one step.

Abstractions: one model; one node updates at a time; whether a bandwidth cap is set does
not change; a job depends on at most one other; the selection of files of a download only
decides whether it can be cancelled; an export stream whose runner is gone counts as an
orphan. The save that ends a queueing request is taken to succeed (the request fails with it),
and so are those of a requeued or a running job, where it makes no difference: a restart reads
both as queued. Deleting models, stall retries inside the download worker and byte counts are
left out.

## 3. The runs

| Run | Instance | States | Shows |
|---|---|---|---|
| `inference_admission` | 2 streams, 1 plain call, 1 target, limits 1 and 2, 1 event | 2.9 million | type, accounting, work conservation, transports, FIFO order, no replay after output |
| `inference_admission_liveness` | 2 streams, unlimited or limit 3, 1 event | 590 thousand | abandoned slots return, the limit recovers |
| `prompt_gate` | 3 calls, limits 1 and 2 | 900 thousand | FIFO semaphore, leases, clean-up, disconnects |
| `prompt_gate_cleanup` | 2 calls, limit 1 | stops | finding 1 |
| `job_queue` | 3 jobs, 1 retry | 165 thousand | drivers, cancellation |
| `job_queue_dispatching` | 2 jobs, no retry | stops | finding 2 |
| `state_cache` | 3 callers, 3 collections, 2 intents, 2 moves | 480 thousand | snapshot, generations, sharing, answers |
| `state_cache_raced` | the same | stops | finding 3 |
| `deployment_lifecycle` | 2 ranks, 1 launch, 1 further request, 1 retry, 1 fault, 1 controller crash | 1.1 million | recovery from rest, stops that last and finish, repair |
| `cluster_routing` | 2 requests, 2 members, 2 passes | 720 thousand | loads, no replay |
| `usage_sync` | 3 nodes of which one is joining, 2 requests, 2 resets, erases or faults (a save that raises in a reset or an erase is part of it) | 3.4 million | totals, own usage, forgetting, convergence |
| `transfer_queue` | a controller and 2 agents, 2 jobs, 1 disturbance | 4.5 million | one transfer per node, final states, nothing left behind, the barrier |

*Why the bounds are enough.* Three calls are the smallest number with a holder, a
waiter at the head and one behind it, which every queue-order and lost-grant mistake
needs; a limit that moves between 1 and 2 gives growing, shrinking and a freed slot that
finds somebody or nobody. One event allows a reset, a stop or a new limit while slots are
out and calls wait; the proofs cover any number of them.
The recovery run needs a limit of 3 to have an intermediate step, and 0 to have a
container re-created without a limit while it recovers. In `state_cache` two intents
with two moves contain the A-B-A sequence that makes comparing fingerprints
insufficient, and three collections the case of a disowned one, its successor and one
more. In `job_queue` a cancelled, a failing and a finished job can meet in one tick.
The proofs of section 5 remove these bounds for the invariants they are about.

In `deployment_lifecycle` rank `r0` is on the controller's node and `r1` on an agent, so
that one answers always and the other may be unreachable. One launch and one request
after it, a fault and a crash are enough for a request to overtake a launch, for a crash
to fall between the saved intent and the ranks, and for a monitor to act on what it saw
before either. A fault is a dead server or a failed remote request. In `cluster_routing`
two members give the failover its second candidate and two passes the ride-through its
second round; with three members (6.2 million states) the properties hold as well. In
`usage_sync` node 1 is paired, node 3 is about to be; the controller's id lies between
theirs, so it both wins and loses ties of versions. Two requests and two events contain
the reset that meets an unsynchronised record, two concurrent resets, and a push given up
and served late, and the failed save that a restart follows; the round after the third
undisturbed one is not explored (`ThreeRounds`), because it repeats the third. In
`transfer_queue` two jobs can depend on each other, share a node, or wait for the slot,
and the disturbance is a crash, a stop, an update, a lost answer, or a rollback, a close or a
save that fails; the proofs hold for any number of them.
The agents are interchangeable (`Alike`), and so are requests and members of
`cluster_routing`; no symmetry is used where a liveness property is checked.

*Deadlock* is checked in every run. `InferenceAdmission`,
`PromptGate`, `JobQueue`, `StateCache`, `TransferQueue` and `ClusterRouting` have a step
(`Quiescent`, `Finished`) that is enabled exactly when all calls or jobs have ended; the
loops of the other two never end.

## 4. Fairness

Fairness is stated only for what the event loop and the code's own loops guarantee;
clients, upstream servers and operators owe nothing. It is written with the guards
spelled out (`<>[]guard => []<><<A>>_vars`), which for these actions is weak fairness.

* `InferenceAdmission`: a stream in its clean-up finishes it; the reaper loop and the
  nudger loop keep ticking (both catch every exception but cancellation and sleep for a
  bounded time). A tick of the nudger does nothing when the setting is off, and with two
  streams it may watch or serialise again instead of easing, so the recovery is fair only
  where neither can happen (`Eases`). That is all `AbandonedSlotsReturn` and `LimitRestored`
  rest on: neither needs other requests to move. `LimitRestored` promises no more than this:
  slow streams may send a target from two slots back to one without end.
* `PromptGate`: a created task gets its first turn, a cancelled or closing task ends,
  and the code waiting for it resumes; a set cancel event wakes the waits it is part of.
  Closing an upstream exchange is assumed to end. Without a disconnect nobody is
  obliged to read a stream or to answer.
* `StateCache`: a collection gets its first turn and ends, because Docker and node
  requests carry timeouts. The run assumes nothing about callers or lifecycle actions.
* `DeploymentLifecycle`: who holds the action lock goes on and the next in line gets it,
  agents answer (a request that fails is a bounded fault), and the periodic tasks - health
  tick, reconciler, crash retry, the two resumers - run. The user, the servers and Docker's
  restart policy owe nothing.
* `JobQueue`, `TransferQueue`, `UsageSync` and `ClusterRouting` have safety properties only.
  `TwoRoundsConverge` is the bounded form of convergence: it counts the rounds that ended
  undisturbed (`calm`) instead of assuming that disturbances stop.

## 5. Proofs

`InferenceAdmissionProofs` proves, for every finite set of requests and any targets,
limits and event bound (`ConstantsAssumption`):

| Theorem | Statement |
|---|---|
| `InductiveInvariant` | `Spec => []IInv` |
| `TypeCorrect` | `Spec => []TypeOK` |
| `SlotsAccountedFor` | `Spec => []SlotAccounting` |
| `NoIdleSlot` | `Spec => []WorkConserving` |
| `ExchangesHoldSlots` | `Spec => []TransportUnderSlot` |
| `OutputNeverReplayed` | `Spec => NoReplayAfterOutput` |
| `ArrivalOrder` | `Spec => FirstComeFirstServed` |

*Why a stronger invariant.* `SlotAccounting` alone is not inductive. A release trusts
`lease.released` and the identity of the state object; to know that it takes back a
grant this counter counts, one needs that no lease is ever stale (an entry leaves the
store only when it is idle or after its leases were revoked), and to know that serving k
waiters adds k grants one needs that a queue never holds a caller twice. To know that a
grant is not lost when its caller leaves, one needs where a request may stand while its
lease has a given status (`PlaceOK`), and for the transports where an exchange may be
open and under which lease (`TransportOK`). `IInv` is `TypeOK`, the consistency of the
store (`StoreOK`), no idle slot beside a waiter (`Drained`), `PlaceOK` and
`TransportOK`; the four properties follow from it.

*Argument.* The helpers are treated first: lemmas say what `Drain`, `Release`, `Queue`,
`Leave` and `Fail` return and that each turns a well-formed store into a well-formed
one with no idle slot. The actions are then handled in groups: those of a request, of a
target, and the resets; steps that leave the store alone are one lemma. Counting uses
the cardinality facts of `FiniteSetTheorems`. `OutputNeverReplayed` needs an invariant
of its own, `Shown`: a stream with output stands only where the replay has passed.

`ArrivalOrder` follows from `IInv`. Its proof compares the store before and after a helper: `Fifo(S, N)` says that whoever
waits on in N keeps the place relative to those that came later, and that none of these is
admitted. `Drain`, `Settle`, `Release` and `Queue` each have this property, and it
composes when one call releases and queues again in one step (`FifoThen`): a replay or a
re-queue serves the queue twice, and the second time must not overtake whom the first
left waiting. Every action is then one of these or admits nobody.

`JobQueueProofs` proves, for every finite set of jobs and any `MaxRetries`:
`InductiveInvariant`, `TypeCorrect` (with the bound on attempts), `EveryJobDriven`
(`Spec => []UnfinishedJobHasDriver`) and `CanceledStaysOut`
(`Spec => CanceledNeverRuns`). `UnfinishedJobHasDriver` is not inductive, because
`Probed` and `Started` write a status without looking at the one that is there: one needs
that a job the scheduler awaits has no task and is eligible or cancelled (`PlaceOK`), that
only a cancellation makes it canceled (`CancelOK`), and for the bound that the last attempt
is never queued again (`AttemptsOK`). The invariant is a conjunction over jobs, so a step of
one job is checked on that job alone (`OneJob`, `Untouched`).

`StateCacheProofs` proves, for every finite set of callers and any collections, intents and
bound on lifecycle actions: `InductiveInvariant`, `TypeCorrect`, `SnapshotIsCurrent`
(`Spec => []SnapshotMatchesIntent`), `NeverDisowned` (`Spec => []DisownedNeverPublished`)
and `OneCollection` (`Spec => []SingleFlight`). The strengthening says that no
collection is of a later generation than the counter (`NoneAhead`), that `inflight` is
exactly what runs under the current one (`InflightExact`), and that a snapshot of an older
intent leaves a move that no generation has used up (`MovedSince`). The interesting case is a save
without a snapshot: the generation stays, the collection in flight keeps the old
fingerprint, and the comparison at its end refuses it.

`PromptGateProofs` proves, for every finite set of calls and any limits:
`InductiveInvariant`, `TypeCorrect`, `LeasesKept` (`Spec => []PromptHoldsLease`),
`ExchangesClosed` (`Spec => []NothingLeftOpen`) and the refinement `GateIsFifo`
(`Spec => ImplementsFifoSlots`). The invariant has three parts. `GateOK`: `active` is the
number of held tickets and the queue holds exactly the pending ones, each once. `Full`:
nobody waits beside a free place; it is needed because a call that leaves the queue does
not refresh the gate, which implements `FifoSlots!GiveUp` only if there was nothing to
serve. `CallOK`, for each call: which ticket, task, stream and exchange it may have where
it stands, in particular that a task that is over has closed its exchange or was cut short,
that a call at `disposing` still holds its lease or got an unstarted or cut producer, and
that a producer keeps the lease until output or its end. `Refresh`, `Release` and
`Leave` are treated once, as functions of the gate (`RefreshServes`, `ReleaseServes`,
`LeaveServes`: they keep `GateOK` and `Full`, other calls only move up, and the result is
what `FifoSlots!Admit` asks for); both the invariant and the refinement cite them.

`ClusterRoutingProofs` proves, for any finite sets of requests and members and any number of
passes: `InductiveInvariant`, `TypeCorrect`, `LoadsExact` (`Spec => []LoadsMatchHolders`)
and `PromptsNotReplayed` (`Spec => PromptNeverReplayed`). The loads alone are not
inductive: to know that a failure releases a reservation that is still held one needs, for
each request, that a member in its hands is not among those left to try and that the release
guard is unset (`HeldOK`); to know that a pass begins before any prompt was sent one needs
that a sent prompt is of the current pass and marks the request as unsafe, and that a client
that has read an event is past every failover (`PromptOK`). A step changes one request, so
counting is one lemma about how that request's contribution to each load changes.

`DeploymentLifecycleProofs` proves, for any finite set of ranks and any bounds on requests,
faults and crashes: `InductiveInvariant`, `TypeCorrect`, `RecoveryFromRest`
(`Spec => []RecoveryStartsFromRest`), `StopsLast` (`Spec => []StopOutlastsMonitors`) and
`StoppedIsDown` (`Spec => []StoppedMeansDown`). The launch is what makes the strengthening
necessary: it fills the nodes and writes the status without the action lock. `PendingOK`
says what keeps it apart from the lock's holders: a launch nothing overtook has a card that
is launching (or in error, while it is undone) and wanted, which is what the health monitor,
the recovery and the reconciler pass over, and every request that does not pass it over puts
it in `raced`. `SettledOK` is then an account of what the holder of the lock has achieved:
ranks it confirmed stay down until it lets go, and `LockOK` that every rank is asked,
confirmed or failed, so a gather without failures has confirmed them all. `LaunchesOK` gives
each launch a card of its own. The properties that concern the lock's work follow from
`SettledOK`; the other two are conjuncts of the invariant.

`TransferQueueProofs` proves, for any nodes and any number of jobs, crashes, stops, toggles
and updates: `InductiveInvariant`, `TypeCorrect`, `FinalMeansStopped`
(`Spec => []TerminalMeansStopped`), `NodesCarryOneTransfer` (`Spec => []OneTransferPerNode`),
`NoJobLeftBehind` (`Spec => []NothingLeftBehind`), `UpdatesFindNothingOpen`
(`Spec => []UpdateFindsNothingOpen`) and `StatusesStayFinal` (`Spec => FinalIsFinal`). None of
the properties is inductive. `JobOK` says for one job what the place of its runner tells: a
runner that has begun has a running job (`StatusOK`), which way the files move (`HowOK`), that
an agent works only for a runner that asked it, and that what outlived the runner of a download
is a request that will be refused, unless the job could not be canceled and failed (`AgentOK`);
and who may hold the slot (`SlotOK`). Three parts relate jobs: they are numbered without gaps
(`Numbered`), the active ones that run share no node (`Apart`, where a pick is compared with
what still runs and with older picks), and a quiet update finds nothing open and, at the
controller, nothing running (`QuietOK`), which is what makes `Barred` refuse the requests that
arrive later; left out of it are the controller's own downloads that a stop has dropped. A runner
that was cut off keeps the mark of it (`"cut"`) for as long as its job counts as running. A step
of a runner moves one job and at most cancels queued ones beside it
(`StepOK`); `Dispatch`, `Stop` and `Crash` move all jobs and are checked job by job.

`UsageSyncProofs` proves, for any nodes and models and any number of requests and events:
`InductiveInvariant`, `TotalsFollowTheLedger` (`Spec => []TotalsMatchLedger`, with the types)
and `NothingForgottenReturns` (`Spec => []ForgottenStaysForgotten`). What a node counts depends
on copies of ledgers made long ago, so the invariant speaks of all copies at once: in memory, on
disk, pulled, pushed, and in pushes that were given up. Each is `Honest`: a component counts only
requests its origin recorded, none of a higher epoch than the copy's, those of the same epoch
under the version it is stamped with, and under an epoch a reset handed out no others. Each is
`Foreseen`: the node that handed out its epoch has reached it, so the next reset hands out one
that no copy has - until a restart from a disk that missed an epoch (`spent.rewound`), from where
on only what does not depend on it is claimed (`NotRewound`). Totals that outlived a reset or an
erase (`stale`) contain those of the ledger, and all others are those of the ledger (`ShowsRight`).
Merging keeps both, since every component of the result is one of the two under
the same epoch (`MergeIs`); a joining peer puts its old component under the controller's epoch
only when that is the higher one, and otherwise keeps the one it has, because the copy has the
same revision (`JoinHonest`); a reconciliation starts an epoch above both (`ReconciledHonest`).
The pulled ledgers are absorbed by a recursive function over the node registry. Its equation is
proved by showing that approximations of it exist (`AbsorbingIs`), from the fact that a set of
naturals has a least element, and the facts about the result by counting up (`Upto`). That the
largest version counter exists follows in the same way, since the registry lists all peers.

`OwnUsageIsKept` (`Spec => OwnUsageKept`) rests on a second invariant, about revisions. For
each node n and model m, `Line` compares every copy of n's component, and every ledger whose
epoch leads n's, with n's own: a copy trails what n has. It does so in one of three modes:
nothing was erased and equal revisions carry equal contents (`"equal"`), one erase happened and
the copies that do not know of it may carry what n gave up, under an older version (`"erased"`),
or only revisions and epochs are compared (`"plain"`). `OldStands` says this of the nodes in the
cluster from the start, whose exceptions allow one erase and any reset. `NewStands` says it of a
later joiner while nothing was erased or reset: nobody holds a newer copy of its component, and
the ones pushed back during its first syncs are addressed to it. The controller's epoch leads
everybody's (`CtlLeads`) until a reset elsewhere. A copy that is made by a merge is one of the two
it was made from, or carries a higher epoch (`Moves`), and what `Absorbing` builds satisfies this
step by step (`Taken`), so the comparison survives a round; a node that takes a ledger in and keeps
its epoch therefore takes its own component only when it carries at least what it had.

`TwoRoundsSettle` (`Spec => []TwoRoundsConverge`) adds what two rounds compare. A merge keeps the
copy with the higher revision and, of two equal ones, the one at hand, so the nodes come together
only if equal revisions hold the same. `EqualStands` says when they do: nothing was erased and no
save lost. Then every copy is clean (`Clean`: its totals are part of its hourly history, and what it
holds carries its ledger's versions, so the contents of a component determine it), and no copy of a
node's component has the node's revision and other contents (`Equal`). For the nodes in the cluster
from the start that is `OldStands`. For a later joiner it holds without resets because nobody has
counts of it that are newer than its own before it is reconciled (`Held`), and with resets as long
as no first sync was cut short or left unconfirmed (`Whole`), because then nobody else has a
component of it at all before its first push (`Alone`). `SettlesDown` follows the rounds: in the
first undisturbed one every answer is still the peer's ledger, the union outruns every answer
(`AbsorbedOutruns`, by induction along `PeerOrder`), and each peer that takes it in comes to its
epoch and versions (`ServeSame`), so that at its end all nodes are under one epoch and every peer is
reconciled. `Meets` follows the second: a union of ledgers of one epoch has every node's own
component (`AbsorbedOwn`), and whoever takes it in has the same ones, hence the same totals.

*Only model-checked.* Every liveness property: fairness and ENABLED are outside the prover's reach.
Every invariant and action property of the passing runs is a theorem.

## 6. Findings

1. *`_cancel_once` protects a clean-up only from the second cancellation*
   (`prompt_gate.py:26`). The first one may land in the `finally` block of a task that
   was finishing by itself and cut the close of its exchange short, and a producer
   cancelled before its first turn has its lease released by `_finished` before
   `aclose` closes upstream. Either way the next prompt is dispatched while the previous
   exchange is open, against the comment above the guard. `PromptHoldsLease` and
   `NothingLeftOpen` are stated with these exceptions and hold.
2. *A cancelled job comes back as dispatching* (`manager.py:24894`, `24919`). The
   scheduler assigns the status after its await; the job was taken off the queue by the
   cancellation, never runs, never ends and is never cleared. It is still never sent to
   the backend (`CanceledNeverRuns`), because `_run_inference` looks at the event.
3. *A cold cache does not disown the collection in flight* (`manager.py:25256`). The
   docstring of `cached_state` promises that a save drops a raced collection; without a
   snapshot the check returns early, and a call made after the action joins the
   collection made before it. The published cache itself is right
   (`SnapshotMatchesIntent`), because publication compares fingerprints.

### Races the models show

The following behaviours are in the models. They contradict no sentence of the repository
plainly enough to be listed as findings, or the sentence is about something slightly
different; the properties name them as exceptions.

*Deployment lifecycle.* (a) A crash retry that was decided before a user's stop asks for a
plain start afterwards (`manager.py:12187-12206`), and the deployment runs again with
`desired_state` running. (b) A launch that the resumer deferred is `recovering`, so the
health monitor takes its missing ranks for a split and degrades it (11695-11700), after which
the resumer gives up. (c) The resumer reads its candidates again after each pass
(11073-11106), and a launch a user has just asked for looks like an interrupted one. (d) The
retry of an interrupted stop also stops a deployment that was started meanwhile (11041).
(e) A start cut short by a restart leaves a card that is stopped and wanted, which nobody
watches. (f) A controller that dies between dropping the old record and saving the new one
loses the deployment (11206-11214). (g) A stop or start during a launch: the end of the
launch overwrites the status (9788), and a removal leaves the container that was being
created (12293-12296).

*Usage ledger.* Two erases at one node between two rounds raise its copy of a peer's
component past the peer's own revision, and requests the peer recorded meanwhile are
dropped; one erase leaves equal revisions with different contents. A reset or an erase whose save
raises (15881, 15900) is answered with an error but is in force in memory: it reaches the peers
with the next round, while the node itself goes on showing what was forgotten until its ledger
next changes, and a restart brings back the old ledger, after which the same epoch or version may
be handed out again. The epoch of a joining
node replaces the ledgers of the other peers by the copies pulled before, with what they
recorded between the pull and the push. A lost save followed by a restart reuses revisions.
An erase that is concurrent with a reset at another node returns in the hourly history.

*Virtual NAS.* A direct import whose connection drops fails its job while the target goes
on importing, so that the next transfer may use the same disk and link. A cancellation
between the creation of a task and its first turn is overwritten by `running`
(`virtual_nas.py:4557`, `4802`). The rollback of a direct transfer may overtake the request
it undoes (2811). Turning the feature off during such a rollback, or a first save that raises
(4568, 4812), leaves the job `running` without a task (4980-5058). A final status is saved only
after the streams are closed (5064-5074), and a crash in between runs the transfer again. A stop
and a start that overlap forget the tasks started in between (1017-1026), and an update of the
controller does not wait for a forgotten download of its own (4669, 4303). The waiters of the
dispatch slot are drained by an await before the lock is released (1333); a stop that cancels the
runner in it skips the release, and every later capped download waits for ever. A save that raises
while a job is failed for its source ends the dispatcher (4420).

## 7. Not modelled, and what is left

Not modelled because there is no protocol to check: statistics and telemetry, format
conversion, catalog and runtime argument building, fan curves, the front end, scripts.
Onboarding is left out because authentication is not the subject here.

Left out although there is a protocol:

* the updater (`updater.py`, `update_helper.py`): a rolling update with a detached helper
  and state on disk. Most of it is git, process and service-manager I/O; the barrier it
  waits behind is in `TransferQueue`.
* the upload outbox (`storage.py:1265`): read, send and mark under a consent generation.
  Every step is one SQLite transaction, which leaves only the uploader's sequence: an upload
  that succeeded remotely but failed locally is sent again.
* image pulls and patches: files of layers and a small job record.
* relaunch after changed settings, per-instance actions and capacity redeploy of
  `DeploymentLifecycle`; learning of prefix affinity and source-IP routes of
  `ClusterRouting`.
* the idle monitor (`manager.py:25007`): it stops a container of a node whose request counters
  did not rise for the timeout; they are the engine's and rise when requests end.
* a bound on the retries of a job whose admission keeps failing: the code has none, because
  `attempts` rises only after admission (25151).
