------------------------- MODULE InferenceAdmission -------------------------
(***************************************************************************)
(* The per-target admission queue in front of a vLLM container             *)
(* (manager.py, Manager._acquire_inference_slot and its callers): FIFO     *)
(* slots, client aborts, queue timeouts, target re-resolution, the stream  *)
(* nudger, the reaper of abandoned streams and the administrative resets.  *)
(*                                                                         *)
(* An action is what one asyncio task does between two awaits.  A request  *)
(* whose future was completed resumes in a step of its own, so every other *)
(* task may run between a grant and the moment the grantee learns of it.   *)
(***************************************************************************)
EXTENDS FifoQueue, FiniteSets

CONSTANTS
  Requests,     \* proxied inference calls, each made once
  Streams,      \* the streaming ones; only these may be nudged or abandoned
  Targets,      \* admission target ids (deployment id, container name or port)
  Limits,       \* values of max_concurrency; 0 stands for "no limit"
  MaxEvents     \* bound on crashes, restarts, settings changes and resets

ASSUME ConstantsAssumption ==
  /\ IsFiniteSet(Requests)
  /\ Streams \subseteq Requests
  /\ Limits \subseteq Nat
  /\ MaxEvents \in Nat

VARIABLES
  pc,        \* where the request's task, or its suspended generator, stands
  cancel,    \* the asyncio.Event set when the request's client disconnects
  tracked,   \* the request has a record in _active_reqs
  conn,      \* the request's upstream HTTP exchange is open
  shown,     \* what the consumer of the stream was given so far
  nudge,     \* the record's nudge_event
  slots,     \* _inference_admission: the admission state of each target
  lease,     \* the request's waiter and _AdmissionLease, and what it asked for
  conf,      \* what _resolve_vllm_target returns: the container's configuration
  up,        \* whether that container runs
  nudging,   \* settings["vllm_nudger_enabled"]
  reaping,   \* the stream, if any, whose transport the reaper is closing
  events     \* how much of the bound on events is used

envVars == <<conf, up, nudging, events>>
reqVars == <<pc, cancel, tracked, conn, shown, nudge>>
vars == <<reqVars, slots, lease, envVars, reaping>>

Configs == [target : Targets, limit : Limits]
Free == 0   \* the state has no "effective_limit" key

\* The limit the drain loop uses.
Effective(s) == IF s.eff = Free THEN s.limit ELSE s.eff
\* The store has an entry for the target; an absent one reads as NoEntry.
Present(s) == s.running > 0 \/ s.waiters # << >>
NoEntry == [limit |-> 0, eff |-> Free, running |-> 0, waiters |-> << >>, leases |-> {}]
NoLease(t) == [status |-> "none", target |-> t, limit |-> 0, stale |-> FALSE]
Held(r) == lease[r].status = "held"
\* The configuration the request was last admitted, or asks to be, against.
Current(r) == [target |-> lease[r].target, limit |-> lease[r].limit]

-----------------------------------------------------------------------------
(***************************************************************************)
(* The helpers of the code, as functions of a store-and-leases pair S.  A  *)
(* lease is stale when its state object is no longer the target's entry.   *)
(***************************************************************************)
Now == [slots |-> slots, lease |-> lease]
Becomes(S) == \E N \in {S} : slots' = N.slots /\ lease' = N.lease

\* How many waiters _drain_inference_waiters admits.
Admitted(s) ==
  IF s.running >= Effective(s) THEN 0 ELSE Least(Len(s.waiters), Effective(s) - s.running)

\* MUTANT of Drain: the newest waiters are served first (pop for popleft).
DrainNewest(S, t) ==
  LET s == S.slots[t]
      k == Admitted(s)
      n == Len(s.waiters)
      granted == {s.waiters[i] : i \in (n - k + 1)..n}
  IN  [slots |-> [S.slots EXCEPT ![t] =
                    [s EXCEPT !.running = s.running + k,
                              !.leases = s.leases \cup granted,
                              !.waiters = SubSeq(s.waiters, 1, n - k)]],
       lease |-> [r \in Requests |->
                    IF r \in granted THEN [S.lease[r] EXCEPT !.status = "held"]
                                     ELSE S.lease[r]]]

Drain(S, t) ==
  LET s == S.slots[t]
      k == Admitted(s)
      granted == {s.waiters[i] : i \in 1..k}
  IN  [slots |-> [S.slots EXCEPT ![t] =
                    [s EXCEPT !.running = s.running + k,
                              !.leases = s.leases \cup granted,
                              !.waiters = SubSeq(s.waiters, k + 1, Len(s.waiters))]],
       lease |-> [r \in Requests |->
                    IF r \in granted THEN [S.lease[r] EXCEPT !.status = "held"]
                                     ELSE S.lease[r]]]

\* The entry leaves the store: whoever asks next gets a new state object.
Pop(S, t) ==
  [slots |-> [S.slots EXCEPT ![t] = NoEntry],
   lease |-> [r \in Requests |->
                IF S.lease[r].target = t /\ S.lease[r].status \in {"held", "waiting"}
                THEN [S.lease[r] EXCEPT !.stale = TRUE] ELSE S.lease[r]]]

\* An idle entry is popped.
Settle(S, t) == IF Present(S.slots[t]) THEN S ELSE Pop(S, t)

\* MUTANT of Release: only decrement and drain -- no check that the lease is still
\* held, no floor at zero, the idle entry stays.
ReleaseUnguarded(S, r) ==
  LET t == S.lease[r].target
      s == S.slots[t]
      freed == [s EXCEPT !.running = s.running - 1, !.leases = s.leases \ {r}]
  IN  Drain([S EXCEPT !.slots[t] = freed, !.lease[r].status = "released"], t)

\* MUTANT of Release: the freed slot waits for the next caller.
ReleaseUndrained(S, r) ==
  LET t == S.lease[r].target
      s == S.slots[t]
      freed == [s EXCEPT !.running = s.running - 1, !.leases = s.leases \ {r}]
  IN  IF S.lease[r].status # "held" THEN S
      ELSE Settle([S EXCEPT !.slots[t] = freed, !.lease[r].status = "released"], t)

\* _release_inference_slot: once per lease, void against a newer state object;
\* the freed slot goes to the queue.
Release(S, r) ==
  LET t == S.lease[r].target
      s == S.slots[t]
      released == [S.lease EXCEPT ![r] = [S.lease[r] EXCEPT !.status = "released"]]
      freed == [s EXCEPT !.running = IF s.running > 0 THEN s.running - 1 ELSE 0,
                         !.leases = s.leases \ {r}]
  IN  IF S.lease[r].status # "held" THEN S
      ELSE IF S.lease[r].stale THEN [slots |-> S.slots, lease |-> released]
      ELSE Settle(Drain([slots |-> [S.slots EXCEPT ![t] = freed], lease |-> released], t), t)

\* _acquire_inference_slot up to its await, for configuration c.
Queue(S, r, c) ==
  LET s == S.slots[c.target]
      waiting == [status |-> "waiting", target |-> c.target, limit |-> c.limit, stale |-> FALSE]
  IN  Drain([slots |-> [S.slots EXCEPT ![c.target] =
                          [s EXCEPT !.limit = c.limit, !.waiters = Append(s.waiters, r)]],
             lease |-> [S.lease EXCEPT ![r] = waiting]], c.target)

\* MUTANT of Leave: a grant that came in before the abort is not given back.
LeaveUngranted(S, r) ==
  LET t == S.lease[r].target
  IN  [S EXCEPT !.slots[t].waiters = Without(@, r), !.lease[r].status = "none"]

\* The except branch of _acquire_inference_slot.
Leave(S, r) ==
  LET t == S.lease[r].target
      s == S.slots[t]
  IN  IF S.lease[r].status = "waiting"
      THEN [slots |-> [S.slots EXCEPT ![t] = [s EXCEPT !.waiters = Without(s.waiters, r)]],
            lease |-> [S.lease EXCEPT ![r] = [S.lease[r] EXCEPT !.status = "none"]]]
      ELSE Release(S, r)

\* _fail_admission_target: waiters fail, grants are revoked, the entry goes.
\* The code marks a revoked lease "released" like any other; the model keeps
\* the two apart so that a property can.
Fail(S, t) ==
  LET s == S.slots[t]
      failed == [r \in Requests |->
                   IF r \in Elems(s.waiters) THEN [S.lease[r] EXCEPT !.status = "failed"]
                   ELSE IF r \in s.leases THEN [S.lease[r] EXCEPT !.status = "revoked"]
                   ELSE S.lease[r]]
  IN  Pop([slots |-> S.slots, lease |-> failed], t)

-----------------------------------------------------------------------------
(***************************************************************************)
(* Requests.                                                               *)
(***************************************************************************)
Goto(r, label) == pc' = [pc EXCEPT ![r] = label]

\* The call ends: its record and its exchange go, its locals go out of scope.
\* S is the store once the finally blocks have given the slot back.
Exit(r, S) ==
  /\ Goto(r, "done")
  /\ tracked' = [tracked EXCEPT ![r] = FALSE]
  /\ conn' = [conn EXCEPT ![r] = FALSE]
  /\ cancel' = [cancel EXCEPT ![r] = FALSE]
  /\ nudge' = [nudge EXCEPT ![r] = FALSE]
  /\ \E N \in {S} : /\ slots' = N.slots
                    /\ lease' = [N.lease EXCEPT ![r] = NoLease(N.lease[r].target)]
  /\ UNCHANGED shown

\* Ask for a slot under configuration c; S is the store after any release.  An
\* unlimited target is not queued for, and a cancelled caller does not queue.
Ask(r, c, S) ==
  \/ /\ c.limit = 0
     /\ Becomes([S EXCEPT !.lease[r] = NoLease(c.target)])
     /\ Goto(r, "resolving")
     /\ UNCHANGED <<cancel, tracked>>
  \/ /\ c.limit # 0
     /\ cancel[r]
     /\ Becomes([S EXCEPT !.lease[r] = NoLease(c.target)])
     /\ Goto(r, "done")
     /\ cancel' = [cancel EXCEPT ![r] = FALSE]
     /\ tracked' = [tracked EXCEPT ![r] = FALSE]
  \/ /\ c.limit # 0
     /\ ~cancel[r]
     /\ Becomes(Queue(S, r, c))
     /\ Goto(r, "queued")
     /\ UNCHANGED <<cancel, tracked>>

\* _vllm_chat: resolve the container, then join its queue.
Begin(r) ==
  /\ pc[r] = "new"
  /\ up
  /\ Ask(r, conf, Now)
  /\ UNCHANGED <<conn, shown, nudge, envVars, reaping>>

\* The client goes away (the server sets the cancel event).  A call that is ending
\* does not look at it.
Disconnect(r) ==
  /\ pc[r] \notin {"new", "closing", "failing", "erring", "done"}
  /\ ~cancel[r]
  /\ cancel' = [cancel EXCEPT ![r] = TRUE]
  /\ UNCHANGED <<pc, tracked, conn, shown, nudge, slots, lease, envVars, reaping>>

\* The waiter wakes with a grant.  A cancel event that fired after the wake-up
\* was scheduled goes unseen here.
Resume(r) ==
  /\ pc[r] = "queued"
  /\ lease[r].status \in {"held", "revoked"}
  /\ Goto(r, "resolving")
  /\ UNCHANGED <<cancel, tracked, conn, shown, nudge, slots, lease, envVars, reaping>>

\* The waiter wakes without one: its client left (a grant may have come in the
\* meantime), INFERENCE_QUEUE_WAIT_TIMEOUT_SECONDS passed, or its target failed.
LeaveQueue(r) ==
  /\ pc[r] = "queued"
  /\ cancel[r] \/ lease[r].status \in {"waiting", "failed"}
  /\ Exit(r, Leave(Now, r))
  /\ UNCHANGED <<envVars, reaping>>

\* _admit_vllm_target after the grant: forward if the container is still the one
\* the slot was granted for, else give the slot back and queue on the new one.
Forward(r) ==
  /\ pc[r] = "resolving"
  /\ up
  /\ conf = Current(r)
  /\ Goto(r, "open")
  /\ tracked' = [tracked EXCEPT ![r] = TRUE]
  /\ conn' = [conn EXCEPT ![r] = TRUE]
  /\ UNCHANGED <<cancel, shown, nudge, slots, lease, envVars, reaping>>

Requeue(r) ==
  /\ pc[r] = "resolving"
  /\ up
  /\ conf # Current(r)
  /\ Ask(r, conf, Release(Now, r))
  /\ UNCHANGED <<conn, shown, nudge, envVars, reaping>>

\* The container is gone or cannot be looked up.
ResolveFails(r) ==
  /\ pc[r] = "resolving"
  /\ Exit(r, Release(Now, r))
  /\ UNCHANGED <<envVars, reaping>>

\* Upstream accepted the stream; it is detached until a consumer iterates it.
\* A replayed stream was already handed over and goes on being consumed.
Accepted(r) ==
  /\ pc[r] = "open"
  /\ r \in Streams
  /\ \/ shown[r] = "nothing" /\ Goto(r, "ready") /\ shown' = [shown EXCEPT ![r] = "headers"]
     \/ shown[r] # "nothing" /\ Goto(r, "consuming") /\ UNCHANGED shown
  /\ UNCHANGED <<cancel, tracked, conn, nudge, slots, lease, envVars, reaping>>

Consume(r) ==
  /\ pc[r] = "ready"
  /\ Goto(r, "consuming")
  /\ UNCHANGED <<cancel, tracked, conn, shown, nudge, slots, lease, envVars, reaping>>

Emit(r) ==
  /\ pc[r] = "consuming"
  /\ shown[r] # "tokens"
  /\ shown' = [shown EXCEPT ![r] = "tokens"]
  /\ UNCHANGED <<pc, cancel, tracked, conn, nudge, slots, lease, envVars, reaping>>

\* MUTANT of Finish: the slot is given back before the transport is closed.
FinishReleasing(r) ==
  /\ pc[r] \in {"open", "consuming"}
  /\ Goto(r, "closing")
  /\ Becomes(Release(Now, r))
  /\ UNCHANGED <<cancel, tracked, conn, shown, nudge, envVars, reaping>>

\* A stream whose client has its headers fails: it closes its transport and hands out
\* the error before it gives its slot back.
StreamFails(r) ==
  /\ pc[r] \in {"open", "consuming"}
  /\ shown[r] # "nothing"
  /\ Goto(r, "failing")
  /\ UNCHANGED <<cancel, tracked, conn, shown, nudge, slots, lease, envVars, reaping>>

ShowError(r) ==
  /\ pc[r] = "failing"
  /\ r \notin reaping
  /\ Goto(r, "erring")
  /\ conn' = [conn EXCEPT ![r] = FALSE]
  /\ UNCHANGED <<cancel, tracked, shown, nudge, slots, lease, envVars, reaping>>

\* The answer is complete, upstream failed before it, or the client left.
Finish(r) ==
  /\ pc[r] \in {"open", "consuming"}
  /\ Goto(r, "closing")
  /\ UNCHANGED <<cancel, tracked, conn, shown, nudge, slots, lease, envVars, reaping>>

\* The transport is closed first; only then is the slot released.  A close the
\* reaper began is shared, and the reaper resumes from it before the stream.  A
\* stream that has handed out its error is closed already.
Close(r) ==
  /\ pc[r] \in {"closing", "erring"}
  /\ r \notin reaping
  /\ Exit(r, Release(Now, r))
  /\ UNCHANGED <<envVars, reaping>>

\* Nobody drives the generator any more: either the response was dropped before
\* its first read, or the consuming task ended between two reads.
Abandon(r) ==
  /\ \/ pc[r] = "ready" /\ Goto(r, "dropped")
     \/ pc[r] \in {"consuming", "erring"} /\ Goto(r, "orphaned")
  /\ UNCHANGED <<cancel, tracked, conn, shown, nudge, slots, lease, envVars, reaping>>

\* The event loop's asynchronous-generator hook may close it after all.
Collected(r) ==
  /\ pc[r] \in {"dropped", "orphaned"}
  /\ Goto(r, "closing")
  /\ UNCHANGED <<cancel, tracked, conn, shown, nudge, slots, lease, envVars, reaping>>

-----------------------------------------------------------------------------
(***************************************************************************)
(* The nudger: serialise a stalled target, replay its silent streams, give *)
(* the slots back one by one.                                              *)
(***************************************************************************)
Paused(r) == pc[r] \in {"queued", "resolving"}
Nudgeable(t) ==
  {r \in Streams : tracked[r] /\ ~Paused(r) /\ lease[r].limit # 0 /\ lease[r].target = t}

\* The survivor is the oldest stream; start times are not modelled, so it is any.
NudgeTrigger(t) ==
  /\ nudging
  /\ Present(slots[t])
  /\ Least(slots[t].limit, slots[t].eff) # 1
  /\ \E survivor \in Nudgeable(t) :
       /\ Nudgeable(t) # {survivor}
       /\ nudge' = [r \in Requests |->
                      \/ nudge[r]
                      \/ r \in Nudgeable(t) \ {survivor} /\ shown[r] # "tokens"]
  /\ slots' = [slots EXCEPT ![t] = [slots[t] EXCEPT !.eff = 1]]
  /\ UNCHANGED <<pc, cancel, tracked, conn, shown, lease, envVars, reaping>>

\* MUTANT of NudgeRecover: a restored limit starts the recovery over.
NudgeRecoverAnew(t) ==
  LET s == slots[t]
      next == Least(s.limit, s.eff) + 1
      eased == [s EXCEPT !.eff = IF next >= s.limit THEN 1 ELSE next]
  IN  /\ nudging
      /\ Present(s)
      /\ s.eff # Free
      /\ Becomes(Drain([slots |-> [slots EXCEPT ![t] = eased], lease |-> lease], t))
      /\ UNCHANGED <<reqVars, envVars, reaping>>

\* One interval later: one slot more, up to the configured limit.  With two streams
\* and a low rate the code watches on or triggers instead.
NudgeRecover(t) ==
  LET s == slots[t]
      next == Least(s.limit, s.eff) + 1
      eased == [s EXCEPT !.eff = IF next >= s.limit THEN Free ELSE next]
  IN  /\ nudging
      /\ Present(s)
      /\ s.eff # Free
      /\ Becomes(Drain([slots |-> [slots EXCEPT ![t] = eased], lease |-> lease], t))
      /\ UNCHANGED <<reqVars, envVars, reaping>>

\* A nudged stream closes its transport ...
Nudged(r) ==
  /\ pc[r] \in {"open", "consuming"}
  /\ nudge[r]
  /\ Goto(r, "nudged")
  /\ UNCHANGED <<cancel, tracked, conn, shown, nudge, slots, lease, envVars, reaping>>

\* MUTANT of Replay: output shown since the nudge is not looked at.
ReplayBlindly(r) ==
  /\ pc[r] = "nudged"
  /\ r \notin reaping
  /\ tracked[r]
  /\ conn' = [conn EXCEPT ![r] = FALSE]
  /\ nudge' = [nudge EXCEPT ![r] = FALSE]
  /\ Ask(r, Current(r), Release(Now, r))
  /\ UNCHANGED <<shown, envVars, reaping>>

\* ... and, if it has shown nothing downstream, gives its slot back and queues
\* again.  A record the reaper took meanwhile ends it.
Replay(r) ==
  /\ pc[r] = "nudged"
  /\ r \notin reaping
  /\ tracked[r]
  /\ shown[r] # "tokens"
  /\ conn' = [conn EXCEPT ![r] = FALSE]
  /\ nudge' = [nudge EXCEPT ![r] = FALSE]
  /\ Ask(r, Current(r), Release(Now, r))
  /\ UNCHANGED <<shown, envVars, reaping>>

ReplayRefused(r) ==
  /\ pc[r] = "nudged"
  /\ r \notin reaping
  /\ ~tracked[r]
  /\ Exit(r, Release(Now, r))
  /\ UNCHANGED <<envVars, reaping>>

\* Output was shown since the nudge: the client is told to retry.
ReplayUnsafe(r) ==
  /\ pc[r] = "nudged"
  /\ r \notin reaping
  /\ tracked[r] /\ shown[r] = "tokens"
  /\ Goto(r, "erring")
  /\ conn' = [conn EXCEPT ![r] = FALSE]
  /\ UNCHANGED <<cancel, tracked, shown, nudge, slots, lease, envVars, reaping>>

-----------------------------------------------------------------------------
(***************************************************************************)
(* The reaper and the administrative resets.                               *)
(***************************************************************************)
\* Evidence that no task will unwind the stream: a set cancel event on a stream
\* nobody drives, or a driving task that has ended.
Dead(r) == pc[r] = "orphaned" \/ (pc[r] \in {"ready", "dropped"} /\ cancel[r])

\* _reap_dead_inference_owners up to the await that closes the transport.
ReapBegin(r) ==
  /\ tracked[r]
  /\ Dead(r)
  /\ reaping = {}
  /\ reaping' = {r}
  /\ cancel' = [cancel EXCEPT ![r] = TRUE]
  /\ UNCHANGED <<pc, tracked, conn, shown, nudge, slots, lease, envVars>>

\* MUTANT of ReapEnd: a close that raised skips the release.
ReapEndKeeping(r) ==
  /\ r \in reaping
  /\ reaping' = {}
  /\ conn' = [conn EXCEPT ![r] = FALSE]
  /\ tracked' = [tracked EXCEPT ![r] = FALSE]
  /\ UNCHANGED <<pc, cancel, shown, nudge, envVars, slots, lease>>

\* The transport is closed; a consumer may have come back in the meantime.
ReapEnd(r) ==
  /\ r \in reaping
  /\ reaping' = {}
  /\ conn' = [conn EXCEPT ![r] = FALSE]
  /\ tracked' = [tracked EXCEPT ![r] = FALSE]
  /\ Becomes(Release(Now, r))
  /\ UNCHANGED <<pc, cancel, shown, nudge, envVars>>

\* reap_stale_admission_targets: the container has been down for the grace
\* period.  A target with no local container, or a live one, keeps its entry.
Sweep(t) ==
  /\ Present(slots[t])
  /\ t = conf.target
  /\ ~up
  /\ Becomes(Fail(Now, t))
  /\ UNCHANGED <<reqVars, envVars, reaping>>

\* reset_inference_admission; stopping or removing the container resets its own.
Reset(hit) ==
  /\ events < MaxEvents
  /\ events' = events + 1
  /\ slots' = [t \in Targets |-> IF t \in hit THEN Fail(Now, t).slots[t] ELSE slots[t]]
  /\ lease' = [r \in Requests |->
                 IF lease[r].target \in hit THEN Fail(Now, lease[r].target).lease[r]
                                            ELSE lease[r]]
  /\ UNCHANGED <<reqVars, conf, nudging, reaping>>

ResetAll == Reset({t \in Targets : Present(slots[t])}) /\ UNCHANGED up
StopContainer == up /\ up' = FALSE /\ Reset({conf.target})

\* The container crashes, restarts, or is re-created with other settings.
Crash ==
  /\ events < MaxEvents
  /\ up
  /\ up' = FALSE
  /\ events' = events + 1
  /\ UNCHANGED <<reqVars, slots, lease, conf, nudging, reaping>>

Reconfigure(c) ==
  /\ events < MaxEvents
  /\ c # conf \/ ~up
  /\ conf' = c
  /\ up' = TRUE
  /\ events' = events + 1
  /\ UNCHANGED <<reqVars, slots, lease, nudging, reaping>>

\* The user turns the nudger off or on; a limit it has lowered stays as it is.
SetNudging ==
  /\ events < MaxEvents
  /\ nudging' = ~nudging
  /\ events' = events + 1
  /\ UNCHANGED <<reqVars, slots, lease, conf, up, reaping>>

-----------------------------------------------------------------------------
Init ==
  /\ conf \in Configs
  /\ up = TRUE
  /\ nudging \in BOOLEAN
  /\ pc = [r \in Requests |-> "new"]
  /\ cancel = [r \in Requests |-> FALSE]
  /\ tracked = [r \in Requests |-> FALSE]
  /\ conn = [r \in Requests |-> FALSE]
  /\ shown = [r \in Requests |-> "nothing"]
  /\ nudge = [r \in Requests |-> FALSE]
  /\ slots = [t \in Targets |-> NoEntry]
  /\ lease = [r \in Requests |-> NoLease(conf.target)]
  /\ reaping = {}
  /\ events = 0

\* Every request has ended, or can never start because the container is down.
Quiescent ==
  /\ \A r \in Requests : pc[r] = "done" \/ (pc[r] = "new" /\ ~up)
  /\ UNCHANGED vars

RequestNext(r) ==
  \/ Begin(r) \/ Disconnect(r) \/ Resume(r) \/ LeaveQueue(r) \/ Forward(r)
  \/ Requeue(r) \/ ResolveFails(r) \/ Accepted(r) \/ Consume(r) \/ Emit(r)
  \/ StreamFails(r) \/ ShowError(r) \/ Finish(r) \/ Close(r) \/ Abandon(r) \/ Collected(r)
  \/ Nudged(r) \/ Replay(r) \/ ReplayRefused(r) \/ ReplayUnsafe(r) \/ ReapBegin(r) \/ ReapEnd(r)

TargetNext(t) == NudgeTrigger(t) \/ NudgeRecover(t) \/ Sweep(t)

Next ==
  \/ \E r \in Requests : RequestNext(r)
  \/ \E t \in Targets : TargetNext(t)
  \/ ResetAll \/ StopContainer \/ Crash \/ SetNudging
  \/ \E c \in Configs : Reconfigure(c)
  \/ Quiescent

\* When the nudger surely eases: at one slot, or without two streams to be slow.
Few(t) == ~\E a, b \in Nudgeable(t) : a # b
Eases(t) == /\ nudging /\ Present(slots[t]) /\ slots[t].eff # Free
            /\ slots[t].eff = 1 \/ Few(t)

\* Weak fairness with the guards written out.  The reaper and nudger loops keep
\* ticking, and closing a stream ends.
\* Clients, upstream servers, operators and even the other tasks owe nothing.
Fairness ==
  /\ \A r \in Requests :
       /\ <>[](pc[r] = "closing" /\ r \notin reaping) => []<><<Close(r)>>_vars
       /\ <>[](tracked[r] /\ Dead(r) /\ reaping = {}) => []<><<ReapBegin(r)>>_vars
       /\ <>[](r \in reaping) => []<><<ReapEnd(r)>>_vars
  /\ \A t \in Targets :
       <>[]Eases(t) => []<><<NudgeRecover(t)>>_vars

Spec == Init /\ [][Next]_vars
FairSpec == Spec /\ Fairness

-----------------------------------------------------------------------------
(***************************************************************************)
(* Properties.                                                             *)
(***************************************************************************)
Labels == {"new", "queued", "resolving", "open", "ready", "consuming", "closing",
           "failing", "erring", "dropped", "orphaned", "nudged", "done"}
SlotState == [limit : Nat, eff : Nat, running : Nat, waiters : Seq(Requests),
              leases : SUBSET Requests]
LeaseState == [status : {"none", "waiting", "held", "released", "failed", "revoked"},
               target : Targets, limit : Limits \cup {0}, stale : BOOLEAN]

\* Every variable has the type its declaration announces.
TypeOK ==
  /\ pc \in [Requests -> Labels]
  /\ cancel \in [Requests -> BOOLEAN]
  /\ tracked \in [Requests -> BOOLEAN]
  /\ conn \in [Requests -> BOOLEAN]
  /\ shown \in [Requests -> {"nothing", "headers", "tokens"}]
  /\ nudge \in [Requests -> BOOLEAN]
  /\ slots \in [Targets -> SlotState]
  /\ lease \in [Requests -> LeaseState]
  /\ conf \in Configs
  /\ up \in BOOLEAN /\ nudging \in BOOLEAN
  /\ reaping \in SUBSET Requests
  /\ events \in 0..MaxEvents

\* The running counter of a target is the number of grants that are still out,
\* and its queue holds exactly the calls that wait for it, through aborts,
\* timeouts, replays, reaping and resets (_release_inference_slot,
\* _drain_inference_waiters): a double release would let calls past the limit,
\* a lost one would starve them for ever.
SlotAccounting ==
  \A t \in Targets :
    /\ slots[t].leases = {r \in Requests : Held(r) /\ lease[r].target = t}
    /\ slots[t].running = Cardinality(slots[t].leases)
    /\ Elems(slots[t].waiters) =
         {r \in Requests : lease[r].status = "waiting" /\ lease[r].target = t}

\* Nobody waits for a target that has a slot to give under the limit in force
\* (every change of the counter, the limit or the queue drains the queue).
WorkConserving ==
  \A t \in Targets : slots[t].waiters # << >> => slots[t].running >= Effective(slots[t])

\* An upstream exchange is open only under a slot: the finally blocks close the
\* transport before they release.  The exceptions are unlimited targets and
\* grants an administrative reset revoked.
TransportUnderSlot ==
  \A r \in Requests : conn[r] => lease[r].status \in {"held", "revoked"} \/ lease[r].limit = 0

\* A grant goes to the head of the queue: whoever is admitted leaves no earlier
\* waiter of that target waiting (the deque of _drain_inference_waiters).
FirstComeFirstServed ==
  [][\A t \in Targets : \A i, j \in 1..Len(slots[t].waiters) :
       i < j /\ lease'[slots[t].waiters[j]].status = "held"
         => lease'[slots[t].waiters[i]].status # "waiting"]_vars

\* A stream that has shown output is never replayed: a second run could
\* duplicate or change what the client already read (_vllm_stream_events).
NoReplayAfterOutput ==
  [][\A r \in Requests :
       shown[r] = "tokens" => pc'[r] \notin {"queued", "resolving", "open"}]_vars

\* The slot of a stream nobody will ever unwind comes back without it
\* (_reap_dead_inference_owners).
AbandonedSlotsReturn ==
  \A r \in Requests : (pc[r] = "orphaned" \/ (pc[r] = "dropped" /\ cancel[r])) ~> ~Held(r)

\* While the nudger is on, a serialised target does not stay at one slot, and has its
\* configured limit back for good once it never has two streams at a time
\* (_inference_nudger_tick).  With two, slow ones may send it back time and again.
LimitRestored ==
  \A t \in Targets :
    /\ <>[]nudging => []<>(slots[t].eff # 1)
    /\ <>[](nudging /\ Few(t)) => <>[](slots[t].eff = Free)
=============================================================================
