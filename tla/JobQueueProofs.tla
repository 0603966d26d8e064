--------------------------- MODULE JobQueueProofs ---------------------------
(***************************************************************************)
(* The job queue for any finite set of jobs and any number of retries.     *)
(***************************************************************************)
EXTENDS JobQueue, TLAPS

\* Where the task and the scheduler may stand while a job has a given status; each
\* part is relied upon by a write that does not look at the status again.
PlaceOK(j) ==
  /\ status[j] = "none" => runner[j] = "none"
  /\ Eligible(j) => runner[j] = "none"
  /\ j \in at.job => runner[j] = "none" /\ (Eligible(j) \/ status[j] = "canceled")
  /\ runner[j] \in {"created", "admitting"} => status[j] \in {"admission_waiting", "canceled"}
  /\ runner[j] = "posting" => status[j] = "running"

\* The attempts are spent only by a job that is at its last one or through.
AttemptsOK(j) ==
  attempts[j] > MaxRetries => runner[j] = "posting" \/ status[j] \in {"done", "error"}

\* Only a cancellation makes a job canceled.
CancelOK(j) == status[j] = "canceled" => cancel[j]

\* UnfinishedJobHasDriver of one job.
DriverOK(j) ==
  ~cancel[j] =>
    /\ Eligible(j) => j \in queue \cap listed /\ runner[j] = "none"
    /\ status[j] \in {"admission_waiting", "running"} => j \in listed /\ runner[j] # "none"

JobOK(j) == PlaceOK(j) /\ AttemptsOK(j) /\ CancelOK(j) /\ DriverOK(j)

\* The inductive invariant.
IInv == TypeOK /\ \A j \in Jobs : JobOK(j)

-----------------------------------------------------------------------------
\* The program starts with an empty queue and no task.
LEMMA InitIInv == Init => IInv
BY ConstantsAssumption
   DEF ConstantsAssumption, Init, IInv, TypeOK, Statuses, Nothing, JobOK, PlaceOK,
       AttemptsOK, CancelOK, DriverOK, Eligible

\* A job whose own state stays as it is keeps its part, as long as neither the
\* scheduler turns to it nor the queue or the table loses it unfinished.
LEMMA Untouched ==
  ASSUME NEW i \in Jobs, JobOK(i),
         status'[i] = status[i], cancel'[i] = cancel[i],
         attempts'[i] = attempts[i], runner'[i] = runner[i],
         i \in at'.job => i \in at.job,
         i \in queue => i \in queue',
         i \in listed => i \in listed' \/ Finished(i)
  PROVE  JobOK(i)'
BY DEF JobOK, PlaceOK, AttemptsOK, CancelOK, DriverOK, Eligible, Finished

\* A step of one job preserves the invariant if it preserves the part of that job.
LEMMA OneJob ==
  ASSUME IInv, TypeOK', NEW j \in Jobs, JobOK(j)',
         \A i \in Jobs \ {j} :
           /\ status'[i] = status[i] /\ cancel'[i] = cancel[i]
           /\ attempts'[i] = attempts[i] /\ runner'[i] = runner[i]
           /\ i \in at'.job => i \in at.job
           /\ i \in queue => i \in queue'
           /\ i \in listed => i \in listed'
  PROVE  IInv'
<1>1. ASSUME NEW i \in Jobs \ {j} PROVE JobOK(i)'
  <2>1. JobOK(i)
    BY DEF IInv
  <2> QED BY <2>1, Untouched
<1> QED BY <1>1 DEF IInv

\* A submitted job is queued and listed at once.
LEMMA SubmitPreserves ==
  ASSUME IInv, NEW j \in Jobs, Submit(j)
  PROVE  IInv'
<1> USE ConstantsAssumption DEF ConstantsAssumption
<1>1. TypeOK /\ JobOK(j)
  BY DEF IInv
<1>2. TypeOK'
  BY <1>1 DEF Submit, tickVars, TypeOK, Statuses
<1>3. JobOK(j)'
  BY <1>1 DEF Submit, tickVars, TypeOK, JobOK, PlaceOK, AttemptsOK, CancelOK, DriverOK, Eligible
<1>4. \A i \in Jobs \ {j} :
        /\ status'[i] = status[i] /\ cancel'[i] = cancel[i]
        /\ attempts'[i] = attempts[i] /\ runner'[i] = runner[i]
        /\ i \in at'.job => i \in at.job
        /\ i \in queue => i \in queue'
        /\ i \in listed => i \in listed'
  BY <1>1 DEF Submit, tickVars, TypeOK
<1> QED BY <1>2, <1>3, <1>4, OneJob

\* A cancelled job needs no driver, wherever its task stands.
LEMMA CancelPreserves ==
  ASSUME IInv, NEW j \in Jobs, Cancel(j)
  PROVE  IInv'
<1> USE ConstantsAssumption DEF ConstantsAssumption
<1>1. TypeOK /\ JobOK(j)
  BY DEF IInv
<1>2. TypeOK'
  BY <1>1 DEF Cancel, tickVars, TypeOK, Statuses
<1>3. JobOK(j)'
  BY <1>1 DEF Cancel, tickVars, TypeOK, JobOK, PlaceOK, AttemptsOK, CancelOK, DriverOK, Eligible
<1>4. \A i \in Jobs \ {j} :
        /\ status'[i] = status[i] /\ cancel'[i] = cancel[i]
        /\ attempts'[i] = attempts[i] /\ runner'[i] = runner[i]
        /\ i \in at'.job => i \in at.job
        /\ i \in queue => i \in queue'
        /\ i \in listed => i \in listed'
  BY <1>1 DEF Cancel, tickVars, TypeOK
<1> QED BY <1>2, <1>3, <1>4, OneJob

\* The scheduler turns to a job that is eligible at that moment.
LEMMA VisitPreserves ==
  ASSUME IInv, NEW j \in Jobs, Visit(j)
  PROVE  IInv'
<1> USE ConstantsAssumption DEF ConstantsAssumption
<1>1. TypeOK /\ JobOK(j)
  BY DEF IInv
<1>2. TypeOK'
  BY <1>1 DEF Visit, Awaiting, Nothing, TypeOK, Statuses, Awaiting, Nothing
<1>3. JobOK(j)'
  BY <1>1 DEF Visit, Awaiting, Nothing, TypeOK, JobOK, PlaceOK, AttemptsOK, CancelOK, DriverOK, Eligible
<1>4. \A i \in Jobs \ {j} :
        /\ status'[i] = status[i] /\ cancel'[i] = cancel[i]
        /\ attempts'[i] = attempts[i] /\ runner'[i] = runner[i]
        /\ i \in at'.job => i \in at.job
        /\ i \in queue => i \in queue'
        /\ i \in listed => i \in listed'
  BY <1>1 DEF Visit, Awaiting, Nothing, TypeOK
<1> QED BY <1>2, <1>3, <1>4, OneJob

\* Whatever became of the job during the probe, no task of it runs.
LEMMA ProbedPreserves ==
  ASSUME IInv, NEW j \in Jobs, Probed(j)
  PROVE  IInv'
<1> USE ConstantsAssumption DEF ConstantsAssumption
<1>1. TypeOK /\ JobOK(j)
  BY DEF IInv
<1>2. TypeOK'
  BY <1>1 DEF Probed, Awaiting, Nothing, TypeOK, Statuses, Awaiting, Nothing
<1>3. JobOK(j)'
  BY <1>1 DEF Probed, Awaiting, Nothing, TypeOK, JobOK, PlaceOK, AttemptsOK, CancelOK, DriverOK, Eligible
<1>4. \A i \in Jobs \ {j} :
        /\ status'[i] = status[i] /\ cancel'[i] = cancel[i]
        /\ attempts'[i] = attempts[i] /\ runner'[i] = runner[i]
        /\ i \in at'.job => i \in at.job
        /\ i \in queue => i \in queue'
        /\ i \in listed => i \in listed'
  BY <1>1 DEF Probed, Awaiting, Nothing, TypeOK
<1> QED BY <1>2, <1>3, <1>4, OneJob

\* The same for the start of its container.
LEMMA StartedPreserves ==
  ASSUME IInv, NEW j \in Jobs, Started(j)
  PROVE  IInv'
<1> USE ConstantsAssumption DEF ConstantsAssumption
<1>1. TypeOK /\ JobOK(j)
  BY DEF IInv
<1>2. TypeOK'
  BY <1>1 DEF Started, Awaiting, Nothing, TypeOK, Statuses, Awaiting, Nothing
<1>3. JobOK(j)'
  BY <1>1 DEF Started, Awaiting, Nothing, TypeOK, JobOK, PlaceOK, AttemptsOK, CancelOK, DriverOK, Eligible
<1>4. \A i \in Jobs \ {j} :
        /\ status'[i] = status[i] /\ cancel'[i] = cancel[i]
        /\ attempts'[i] = attempts[i] /\ runner'[i] = runner[i]
        /\ i \in at'.job => i \in at.job
        /\ i \in queue => i \in queue'
        /\ i \in listed => i \in listed'
  BY <1>1 DEF Started, Awaiting, Nothing, TypeOK
<1> QED BY <1>2, <1>3, <1>4, OneJob

\* A turn of the task: the attempts are within bounds because a job at its last
\* attempt is never queued again.
LEMMA RunPreserves ==
  ASSUME IInv, NEW j \in Jobs, Run(j)
  PROVE  IInv'
<1> USE ConstantsAssumption DEF ConstantsAssumption
<1>1. TypeOK /\ JobOK(j)
  BY DEF IInv
<1>2. TypeOK'
  BY <1>1 DEF Run, RunBegins, Admitted, Aborted, Answered, Fails, Ends, tickVars, TypeOK, Statuses, JobOK, PlaceOK, AttemptsOK
<1>3. JobOK(j)'
  BY <1>1 DEF Run, RunBegins, Admitted, Aborted, Answered, Fails, Ends, tickVars, TypeOK, JobOK, PlaceOK, AttemptsOK, CancelOK, DriverOK, Eligible
<1>4. \A i \in Jobs \ {j} :
        /\ status'[i] = status[i] /\ cancel'[i] = cancel[i]
        /\ attempts'[i] = attempts[i] /\ runner'[i] = runner[i]
        /\ i \in at'.job => i \in at.job
        /\ i \in queue => i \in queue'
        /\ i \in listed => i \in listed'
  BY <1>1 DEF Run, RunBegins, Admitted, Aborted, Answered, Fails, Ends, tickVars, TypeOK
<1> QED BY <1>2, <1>3, <1>4, OneJob

\* Clearing the table drops only jobs that need no driver.
LEMMA ClearPreserves ==
  ASSUME IInv, ClearFinished
  PROVE  IInv'
<1>1. TypeOK'
  BY DEF IInv, ClearFinished, tickVars, TypeOK
<1>2. ASSUME NEW i \in Jobs PROVE JobOK(i)'
  <2>1. JobOK(i)
    BY DEF IInv
  <2> QED BY <2>1, Untouched DEF ClearFinished, tickVars
<1> QED BY <1>1, <1>2 DEF IInv

\* The scheduler lists the jobs and the containers.
LEMMA ListingPreserves ==
  ASSUME IInv, TickBegin \/ TickListed
  PROVE  IInv'
<1>1. TypeOK /\ UNCHANGED <<status, cancel, attempts, listed, queue, runner>>
  BY DEF IInv, TickBegin, TickListed
<1>2. TypeOK'
  BY <1>1 DEF TickBegin, TickListed, Nothing, TypeOK
<1>3. ASSUME NEW i \in Jobs PROVE i \in at'.job => i \in at.job
  BY <1>1 DEF TickBegin, TickListed, Nothing, TypeOK
<1>4. ASSUME NEW i \in Jobs PROVE JobOK(i)'
  <2>1. JobOK(i)
    BY DEF IInv
  <2> QED BY <1>1, <1>3, <2>1, Untouched
<1> QED BY <1>2, <1>4 DEF IInv

\* Every step preserves the invariant.
LEMMA StepPreserves ==
  ASSUME IInv, [Next]_vars
  PROVE  IInv'
<1>1. CASE UNCHANGED vars
  BY <1>1 DEF vars, tickVars, IInv, TypeOK, JobOK, PlaceOK, AttemptsOK, CancelOK, DriverOK,
              Eligible
<1> QED
  BY <1>1, SubmitPreserves, CancelPreserves, VisitPreserves, ProbedPreserves,
     StartedPreserves, RunPreserves, ClearPreserves, ListingPreserves
     DEF Next, Tick, Quiescent

-----------------------------------------------------------------------------
\* Status, task, scheduler and attempts of every job always fit together.
THEOREM InductiveInvariant == Spec => []IInv
<1>1. Init => IInv
  BY InitIInv
<1>2. IInv /\ [Next]_vars => IInv'
  BY StepPreserves
<1> QED BY <1>1, <1>2, PTL DEF Spec

\* Every variable keeps its type, and no job is tried more than MaxRetries + 1
\* times (_run_inference).
THEOREM TypeCorrect == Spec => []TypeOK
<1>1. IInv => TypeOK
  BY DEF IInv
<1> QED BY <1>1, InductiveInvariant, PTL

\* No job is stranded by a cancellation, a clearing or a failure that falls into an
\* await of _tick or of _run_inference.
THEOREM EveryJobDriven == Spec => []UnfinishedJobHasDriver
<1>1. IInv => UnfinishedJobHasDriver
  BY DEF IInv, JobOK, DriverOK, UnfinishedJobHasDriver
<1> QED BY <1>1, InductiveInvariant, PTL

\* A cancelled job never reaches the backend (cancel_job, _run_inference).
THEOREM CanceledStaysOut == Spec => CanceledNeverRuns
<1> DEFINE KeepsOut == \A j \in Jobs : cancel[j] /\ status'[j] = "running" => status[j] = "running"
<1>1. IInv /\ [Next]_vars => [KeepsOut]_vars
  <2> SUFFICES ASSUME TypeOK, Next, NEW i \in Jobs, cancel[i], status'[i] = "running"
               PROVE  status[i] = "running"
    BY DEF IInv
  <2>1. ASSUME NEW j \in Jobs, Submit(j) \/ Cancel(j) \/ Probed(j) \/ Started(j)
        PROVE  status[i] = "running"
    BY <2>1 DEF TypeOK, Submit, Cancel, Probed, Started
  <2>2. ASSUME NEW j \in Jobs, Run(j)
        PROVE  status[i] = "running"
    BY <2>2 DEF TypeOK, Run, RunBegins, Admitted, Aborted, Answered, Fails, Ends
  <2>3. CASE UNCHANGED status
    BY <2>3
  <2> QED
    BY <2>1, <2>2, <2>3
       DEF Next, Tick, TickBegin, TickListed, Visit, ClearFinished, Quiescent, vars
<1> QED BY <1>1, InductiveInvariant, PTL DEF Spec, CanceledNeverRuns
=============================================================================
