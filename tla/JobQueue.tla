------------------------------ MODULE JobQueue ------------------------------
(***************************************************************************)
(* The controller's queue of offline inference jobs (manager.py: the API   *)
(* handlers submit_job .. clear_finished, the scheduler _tick and the      *)
(* task _run_inference it spawns for each job it dispatches).              *)
(*                                                                         *)
(* _tick suspends at Docker and HTTP calls in the middle of handling a     *)
(* job; each such await is a step boundary.  None of these operations      *)
(* awaits anything while it holds self.lock, so that taking it suspends    *)
(* nobody and a locked section belongs to the step around it.              *)
(***************************************************************************)
EXTENDS Integers, FiniteSets

CONSTANTS
  Jobs,         \* the jobs that may be submitted
  MaxRetries    \* the max_retries setting

ASSUME ConstantsAssumption == IsFiniteSet(Jobs) /\ MaxRetries \in Nat

VARIABLES
  status,    \* job["status"]; "none" before the submission
  cancel,    \* job["_cancel_event"] is set
  attempts,  \* job["attempts"]
  listed,    \* the job is in self.jobs
  queue,     \* the members of self.queue
  todo,      \* what _tick has still to look at: its pending_ids
  at,        \* the job whose call _tick awaits, with the call
  runner     \* the job's _run_inference task

vars == <<status, cancel, attempts, listed, queue, todo, at, runner>>
tickVars == <<todo, at>>

Nothing == [job |-> {}, call |-> "none"]
Awaiting(j, call) == [job |-> {j}, call |-> call]
Eligible(j) == status[j] \in {"pending", "dispatching"}
Finished(j) == status[j] \in {"done", "error", "canceled"}

-----------------------------------------------------------------------------
(***************************************************************************)
(* The API.                                                                *)
(***************************************************************************)
Submit(j) ==
  /\ status[j] = "none"
  /\ status' = [status EXCEPT ![j] = "pending"]
  /\ listed' = listed \cup {j}
  /\ queue' = queue \cup {j}
  /\ UNCHANGED <<cancel, attempts, tickVars, runner>>

Cancel(j) ==
  /\ j \in listed
  /\ status[j] \in {"pending", "dispatching", "admission_waiting"}
  /\ cancel' = [cancel EXCEPT ![j] = TRUE]
  /\ status' = [status EXCEPT ![j] = "canceled"]
  /\ queue' = queue \ {j}
  /\ UNCHANGED <<attempts, listed, tickVars, runner>>

\* MUTANT of ClearFinished: live jobs are dropped from the table too.
ClearAll ==
  /\ \E j \in listed : Finished(j)
  /\ listed' = {}
  /\ UNCHANGED <<status, cancel, attempts, queue, tickVars, runner>>

ClearFinished ==
  /\ \E j \in listed : Finished(j)
  /\ listed' = {j \in listed : ~Finished(j)}
  /\ UNCHANGED <<status, cancel, attempts, queue, tickVars, runner>>

-----------------------------------------------------------------------------
(***************************************************************************)
(* The scheduler.                                                          *)
(***************************************************************************)
\* The pending jobs are listed, then the containers are.
TickBegin ==
  /\ todo = {} /\ at = Nothing
  /\ todo' = {j \in queue \cap listed : Eligible(j)}
  /\ todo' # {}
  /\ at' = [at EXCEPT !.call = "list_containers"]
  /\ UNCHANGED <<status, cancel, attempts, listed, queue, runner>>

TickListed ==
  /\ at.call = "list_containers"
  /\ \/ UNCHANGED todo
     \/ todo' = {}            \* Docker does not answer: the tick is abandoned
  /\ at' = Nothing
  /\ UNCHANGED <<status, cancel, attempts, listed, queue, runner>>

\* A job cancelled or removed since is passed over, and so is one that does not
\* fit the GPU; else its container is probed or started.
Visit(j) ==
  /\ at = Nothing
  /\ j \in todo
  /\ todo' = todo \ {j}
  /\ \/ UNCHANGED at
     \/ /\ j \in listed
        /\ Eligible(j)
        /\ \E call \in {"_check_ready", "start_container"} : at' = Awaiting(j, call)
  /\ UNCHANGED <<status, cancel, attempts, listed, queue, runner>>

\* The job's status is not looked at again after the await.
Probed(j) ==
  /\ at = Awaiting(j, "_check_ready")
  /\ at' = Nothing
  /\ \/ /\ status' = [status EXCEPT ![j] = "admission_waiting"]
        /\ runner' = [runner EXCEPT ![j] = "created"]
     \/ /\ status' = [status EXCEPT ![j] = "dispatching"]
        /\ UNCHANGED runner
  /\ UNCHANGED <<cancel, attempts, listed, queue, todo>>

Started(j) ==
  /\ at = Awaiting(j, "start_container")
  /\ at' = Nothing
  /\ \E outcome \in {"dispatching", "error"} : status' = [status EXCEPT ![j] = outcome]
  /\ UNCHANGED <<cancel, attempts, listed, queue, todo, runner>>

-----------------------------------------------------------------------------
(***************************************************************************)
(* _run_inference.                                                         *)
(***************************************************************************)
\* Its first turn; a job removed from the table by then ends it (KeyError).
RunBegins(j) ==
  /\ runner[j] = "created"
  /\ runner' = [runner EXCEPT ![j] = IF j \in listed THEN "admitting" ELSE "none"]
  /\ UNCHANGED <<status, cancel, attempts, listed, queue, tickVars>>

\* MUTANT of Admitted: the event is not looked at after the grant.
AdmittedUnchecked(j) ==
  /\ runner[j] = "admitting"
  /\ runner' = [runner EXCEPT ![j] = "posting"]
  /\ status' = [status EXCEPT ![j] = "running"]
  /\ attempts' = [attempts EXCEPT ![j] = attempts[j] + 1]
  /\ UNCHANGED <<cancel, listed, queue, tickVars>>

\* The admission slot was granted and the cancel event is not set.
Admitted(j) ==
  /\ runner[j] = "admitting"
  /\ ~cancel[j]
  /\ runner' = [runner EXCEPT ![j] = "posting"]
  /\ status' = [status EXCEPT ![j] = "running"]
  /\ attempts' = [attempts EXCEPT ![j] = attempts[j] + 1]
  /\ UNCHANGED <<cancel, listed, queue, tickVars>>

\* The task ends with the job in a final state.
Ends(j, outcome) ==
  /\ runner' = [runner EXCEPT ![j] = "none"]
  /\ status' = [status EXCEPT ![j] = outcome]
  /\ queue' = queue \ {j}
  /\ UNCHANGED <<cancel, attempts, listed, tickVars>>

Aborted(j) == runner[j] = "admitting" /\ cancel[j] /\ Ends(j, "canceled")
Answered(j) == runner[j] = "posting" /\ Ends(j, "done")

\* MUTANT of Fails: one attempt too many.
FailsOnceMore(j) ==
  /\ runner[j] \in {"admitting", "posting"}
  /\ \/ attempts[j] > MaxRetries + 1 /\ Ends(j, "error")
     \/ /\ attempts[j] <= MaxRetries + 1
        /\ runner' = [runner EXCEPT ![j] = "none"]
        /\ status' = [status EXCEPT ![j] = "pending"]
        /\ queue' = queue \cup {j}
        /\ UNCHANGED <<cancel, attempts, listed, tickVars>>

\* No container, no slot, or an upstream error.  Only an admitted attempt counts
\* against max_retries.
Fails(j) ==
  /\ runner[j] \in {"admitting", "posting"}
  /\ \/ attempts[j] > MaxRetries /\ Ends(j, "error")
     \/ /\ attempts[j] <= MaxRetries
        /\ runner' = [runner EXCEPT ![j] = "none"]
        /\ status' = [status EXCEPT ![j] = "pending"]
        /\ queue' = queue \cup {j}
        /\ UNCHANGED <<cancel, attempts, listed, tickVars>>

-----------------------------------------------------------------------------
Init ==
  /\ status = [j \in Jobs |-> "none"]
  /\ cancel = [j \in Jobs |-> FALSE]
  /\ attempts = [j \in Jobs |-> 0]
  /\ listed = {}
  /\ queue = {}
  /\ todo = {}
  /\ at = Nothing
  /\ runner = [j \in Jobs |-> "none"]

\* No job is left to submit, run or clear.
Quiescent ==
  /\ listed = {} /\ at = Nothing /\ todo = {}
  /\ \A j \in Jobs : status[j] # "none" /\ runner[j] = "none"
  /\ UNCHANGED vars

Tick == TickBegin \/ TickListed \/ \E j \in Jobs : Visit(j) \/ Probed(j) \/ Started(j)
Run(j) == RunBegins(j) \/ Admitted(j) \/ Aborted(j) \/ Answered(j) \/ Fails(j)

Next ==
  \/ \E j \in Jobs : Submit(j) \/ Cancel(j) \/ Run(j)
  \/ ClearFinished \/ Tick
  \/ Quiescent

Spec == Init /\ [][Next]_vars

-----------------------------------------------------------------------------
(***************************************************************************)
(* Properties.                                                             *)
(***************************************************************************)
Statuses == {"none", "pending", "dispatching", "admission_waiting", "running", "done",
             "error", "canceled"}

\* Every variable has the type its declaration announces; an attempt is counted
\* at most once per permitted try.
TypeOK ==
  /\ status \in [Jobs -> Statuses]
  /\ cancel \in [Jobs -> BOOLEAN]
  /\ attempts \in [Jobs -> 0..(MaxRetries + 1)]
  /\ listed \subseteq Jobs
  /\ queue \subseteq Jobs
  /\ todo \subseteq Jobs
  /\ at \in [job : SUBSET Jobs,
             call : {"none", "list_containers", "_check_ready", "start_container"}]
  /\ runner \in [Jobs -> {"none", "created", "admitting", "posting"}]

\* Somebody will drive every unfinished job that nobody cancelled: the scheduler
\* finds it in its queue and the table, or a task of its own runs it.  A status
\* without its driver is a job that hangs for ever (_tick, _run_inference).
UnfinishedJobHasDriver ==
  \A j \in Jobs : ~cancel[j] =>
    /\ Eligible(j) => j \in queue \cap listed /\ runner[j] = "none"
    /\ status[j] \in {"admission_waiting", "running"} => j \in listed /\ runner[j] # "none"

\* A cancelled job never reaches the backend, although _tick may dispatch it
\* after the cancellation (cancel_job, and the check after the admission).
CanceledNeverRuns ==
  [][\A j \in Jobs : cancel[j] /\ status'[j] = "running" => status[j] = "running"]_vars

\* A job that is dispatching runs when its model is ready, as its comment says:
\* the scheduler still has it in the queue.
DispatchingWillRun ==
  \A j \in Jobs : status[j] = "dispatching" /\ at.job # {j} => j \in queue
=============================================================================
