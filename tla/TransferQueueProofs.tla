------------------------ MODULE TransferQueueProofs ------------------------
(***************************************************************************)
(* A canceled download is over before its job is, a node carries one       *)
(* transfer, nothing is left behind and an update finds nothing open, for  *)
(* any nodes and any number of jobs, crashes, stops and lost answers.      *)
(*                                                                         *)
(* JobOK says, job by job, what the place of its runner tells about its    *)
(* status, its agents and the slot.  A step moves one job; it only cancels *)
(* queued ones beside it (Beside).  Stop, Crash and Dispatch move all.     *)
(***************************************************************************)
EXTENDS TransferQueue, FiniteSetTheorems, TLAPS

\* Where a runner is that has begun, that has asked an agent, that may hold the slot.
Begun == {"preparing", "queueing", "granted", "working", "verifying", "confirming",
          "stranded", "rollback", "stopping", "leaving"}
AtAgent == {"working", "verifying", "confirming", "stranded", "rollback", "stopping", "leaving"}
Holding == {"granted", "working", "confirming", "stranded", "stopping", "leaving"}

\* A job b with its task t: how the files move, and what the status may be.
HowOK(b, t) ==
  /\ t.at \in {"created", "preparing"} => t.how = "none"
  /\ t.at \in {"queueing", "granted"} => t.how \in {"download", "plain"}
  /\ t.at = "working" => t.how # "none"
  /\ t.at = "verifying" => t.how \in {"direct", "stream"}
  /\ t.at \in {"confirming", "stranded", "stopping", "leaving"} => t.how = "download"
  /\ t.at = "rollback" => t.how = "direct"
  /\ t.at = "closing" => t.how = "stream"
  /\ t.how = "cut" => t.at \in {"none", "done"}
  /\ t.how \in {"download", "plain"} => b.kind = "download"
  /\ t.how \in {"direct", "stream"} => b.kind = "transfer"
  /\ t.how = "plain" => ~b.cancelable
StatusOK(b, t) ==
  /\ b.kind = "none" <=> b.status = "none"
  /\ b.kind = "none" => t = Idle
  /\ t.at = "created" => b.status \in {"queued", "canceled"} /\ b.stop = "none"
  /\ t.at \in Begun => b.status = "running"
  /\ t.at = "closing" => b.status \in Final
  /\ b.status = "running" => t.at \in Begun \/ t.how = "cut"
  /\ t.how = "cut" => b.status # "queued"
  /\ b.stop # "none" => t.at \notin {"none", "done"} \/ t.how = "cut"

\* Its copy c and orphan o: an agent works for a runner that asked it, and what
\* outlived the runner of a download is refused, unless that job could not be canceled.
AgentOK(b, t, c, o, refused, lost) ==
  /\ c # "none" => t.at \in AtAgent
  /\ t.at = "leaving" => c # "live" /\ (c = "asked" => refused)
  /\ b.kind = "none" => o = "none" /\ ~lost
  /\ b.kind = "download" /\ ~lost /\ o # "none" =>
       \/ refused /\ o = "asked"
       \/ ~b.cancelable /\ b.status = "failed"
SlotOK(t, holds) == holds => t.at \in Holding /\ t.how \in {"download", "plain"}

\* What the queue file says of it: it may still count as unfinished, and the first save
\* of a runner that was cut off may be missing.
DiskOK(b, t, d) ==
  /\ d \in {"none"} \cup Active \cup Final
  /\ d = "none" <=> b.kind = "none"
  /\ d \in Active \/ d = b.status \/ t.how = "cut"
  /\ b.status \in Final => d \in Active \/ d = b.status

JobOK(j) ==
  /\ job[j] \in JobState /\ task[j] \in TaskState
  /\ copy[j] \in CopyState /\ orphan[j] \in OrphanState
  /\ job[j].after < j
  /\ HowOK(job[j], task[j]) /\ StatusOK(job[j], task[j])
  /\ AgentOK(job[j], task[j], copy[j], orphan[j], j \in tomb, j \in adrift)
  /\ SlotOK(task[j], slot = j)
  /\ DiskOK(job[j], task[j], disk[j])
  /\ j \in adrift => job[j].to # Controller

Shapes ==
  /\ job = [j \in Ids |-> job[j]] /\ task = [j \in Ids |-> task[j]]
  /\ disk = [j \in Ids |-> disk[j]]
  /\ copy = [j \in Ids |-> copy[j]] /\ orphan = [j \in Ids |-> orphan[j]]
RestOK ==
  /\ tomb \subseteq Ids /\ active \subseteq Ids /\ adrift \subseteq Ids
  /\ slot \in 0..Nobody
  /\ cache \subseteq Nodes
  /\ dispatcher \in BOOLEAN
  /\ stopping \subseteq 0..MaxJobs
  /\ update \in [node : Nodes, phase : {"open", "reserved", "quiet"}]
  /\ events \in 0..MaxEvents

\* The jobs are numbered from 1 on, the active ones that run meet at no node, and an
\* update that may begin found nothing open nor, at the controller, running.
Numbered == \E n \in 0..MaxJobs : {j \in Ids : job[j].kind # "none"} = 1..n
Apart == \A j, k \in active : j # k /\ Unfinished(j) /\ Unfinished(k) => ~Clash(j, k)
QuietOK == update.phase = "quiet" =>
  /\ \A j \in Ids : Reserves(j) /\ Open(j) => update.node \notin Endpoints(j)
  /\ update.node = Controller => \A j \in active : ~Unfinished(j)

\* The inductive invariant.
IInv == Shapes /\ RestOK /\ (\A j \in Ids : JobOK(j)) /\ Numbered /\ Apart /\ QuietOK

-----------------------------------------------------------------------------
LEMMA Constants == Controller \in Nodes /\ Caps \subseteq BOOLEAN /\ MaxJobs \in Nat /\ MaxEvents \in Nat
<1> QED BY ConstantsAssumption DEF ConstantsAssumption

LEMMA IInvTypeOK == IInv => TypeOK
<1> SUFFICES ASSUME IInv PROVE TypeOK
  OBVIOUS
<1>1. \A j \in Ids : JobOK(j)
  BY DEF IInv
<1>2. /\ job \in [Ids -> JobState] /\ task \in [Ids -> TaskState]
      /\ disk \in [Ids -> {"none"} \cup Active \cup Final]
  BY <1>1 DEF IInv, Shapes, JobOK, DiskOK
<1>3. copy \in [Ids -> CopyState] /\ orphan \in [Ids -> OrphanState]
  BY <1>1 DEF IInv, Shapes, JobOK
<1>4. \A j \in Ids : job[j].after < j
  BY <1>1 DEF JobOK
<1>5. \A j \in Ids : job[j].stop # "none" => Unfinished(j) \/ task[j].how = "cut"
  BY <1>1 DEF JobOK, StatusOK, Unfinished
<1>6. RestOK
  BY DEF IInv
<1> QED BY <1>2, <1>3, <1>4, <1>5, <1>6 DEF TypeOK, RestOK

-----------------------------------------------------------------------------
(***************************************************************************)
(* Steps of one job.                                                       *)
(***************************************************************************)
\* What a step of another job does to job k: at most, it cancels k while it is queued.
JobKept(k) ==
  \/ job'[k] = job[k]
  \/ job[k].status = "queued" /\ job'[k] = [job[k] EXCEPT !.status = "canceled"]
AgentKept(k) ==
  /\ copy'[k] = copy[k] /\ orphan'[k] = orphan[k]
  /\ (k \in tomb') = (k \in tomb) /\ (k \in adrift') = (k \in adrift)
Beside(k) == /\ JobKept(k) /\ AgentKept(k) /\ disk'[k] \in {disk[k], job'[k].status}
             /\ task'[k] = task[k] /\ (slot' = k) = (slot = k)

LEMMA WrittenOK ==
  ASSUME NEW b \in JobState, NEW t, StatusOK(b, t)
  PROVE  DiskOK(b, t, b.status)
<1> QED BY DEF DiskOK, StatusOK, JobState

LEMMA BesideOK == ASSUME NEW k \in Ids, JobOK(k), Beside(k) PROVE JobOK(k)'
<1>1. /\ task'[k] = task[k] /\ copy'[k] = copy[k] /\ orphan'[k] = orphan[k]
      /\ (k \in tomb') = (k \in tomb) /\ (k \in adrift') = (k \in adrift)
      /\ (slot' = k) = (slot = k)
  BY DEF Beside, AgentKept
<1>2. CASE job'[k] = job[k]
  <2>1. DiskOK(job'[k], task[k], disk'[k])
    BY <1>2 DEF Beside, JobOK, StatusOK, DiskOK, JobState
  <2> QED BY <1>1, <1>2, <2>1 DEF JobOK
<1>3. CASE job[k].status = "queued" /\ job'[k] = [job[k] EXCEPT !.status = "canceled"]
  <2>1. /\ job'[k] \in JobState /\ job'[k].status = "canceled"
        /\ job'[k].kind = job[k].kind /\ job'[k].after = job[k].after
        /\ job'[k].cancelable = job[k].cancelable /\ job'[k].stop = job[k].stop
        /\ job'[k].to = job[k].to
    BY <1>3 DEF JobOK, JobState, Active, Final
  <2>2. HowOK(job'[k], task[k]) /\ StatusOK(job'[k], task[k])
    BY <1>3, <2>1 DEF JobOK, HowOK, StatusOK, Begun, Final, JobState, TaskState
  <2>3. AgentOK(job'[k], task[k], copy[k], orphan[k], k \in tomb, k \in adrift)
    BY <1>3, <2>1 DEF JobOK, AgentOK
  <2>4. DiskOK(job'[k], task[k], disk'[k])
    <3>1. disk[k] \in Active
      BY <1>3 DEF JobOK, HowOK, StatusOK, DiskOK, Active, Begun
    <3> QED BY <2>1, <2>2, <3>1 DEF Beside, StatusOK, DiskOK, Active, Final
  <2> QED BY <1>1, <2>1, <2>2, <2>3, <2>4 DEF JobOK
<1> QED BY <1>2, <1>3 DEF Beside, JobKept

\* Nothing begins, nothing opens at a node that is held, and no job is another one.
Calm ==
  /\ active' \subseteq active /\ update' = update
  /\ \A k \in Ids : /\ job'[k].kind = job[k].kind
                    /\ job'[k].from = job[k].from /\ job'[k].to = job[k].to
                    /\ Unfinished(k)' => Unfinished(k)
                    /\ Reserves(k)' /\ Open(k)' => Reserves(k) /\ (Open(k) \/ ~Barred(k))

LEMMA CalmOK ==
  ASSUME IInv, Calm
  PROVE  Numbered' /\ Apart' /\ QuietOK'
<1>1. /\ active' \subseteq active /\ update' = update /\ active \subseteq Ids
      /\ \A k \in Ids : /\ job'[k].kind = job[k].kind
                        /\ Endpoints(k)' = Endpoints(k)
                        /\ Unfinished(k)' => Unfinished(k)
                        /\ Reserves(k)' /\ Open(k)' => Reserves(k) /\ (Open(k) \/ ~Barred(k))
  BY DEF Calm, IInv, RestOK, Endpoints
<1>2. {j \in Ids : job'[j].kind # "none"} = {j \in Ids : job[j].kind # "none"}
  BY <1>1
<1>3. Numbered'
  BY <1>2 DEF IInv, Numbered, Ids
<1>4. Apart'
  <2> SUFFICES ASSUME NEW j \in active', NEW k \in active', j # k, Unfinished(j)', Unfinished(k)'
               PROVE  ~Clash(j, k)'
    BY DEF Apart
  <2>1. j \in active /\ k \in active /\ j \in Ids /\ k \in Ids
    BY <1>1
  <2>2. ~Clash(j, k)
    BY <1>1, <2>1 DEF IInv, Apart
  <2> QED BY <1>1, <2>1, <2>2 DEF Clash
<1>5. QuietOK'
  <2> SUFFICES ASSUME update'.phase = "quiet"
               PROVE  /\ \A j \in Ids : Reserves(j)' /\ Open(j)' => update'.node \notin Endpoints(j)'
                      /\ update'.node = Controller => \A j \in active' : ~Unfinished(j)'
    BY DEF QuietOK, Ids
  <2>1. /\ \A j \in Ids : Reserves(j) /\ Open(j) => update.node \notin Endpoints(j)
        /\ update.node = Controller => \A j \in active : ~Unfinished(j)
    BY <1>1 DEF IInv, QuietOK
  <2>2. \A j \in Ids : Reserves(j) /\ update.node \in Endpoints(j) => Barred(j)
    BY <1>1, <2>1 DEF Barred, Held, Known
  <2> QED BY <1>1, <2>1, <2>2
<1> QED BY <1>3, <1>4, <1>5

\* The same of job j, when a step moves that one only.
CalmAt(j) ==
  /\ job'[j].kind = job[j].kind /\ job'[j].from = job[j].from /\ job'[j].to = job[j].to
  /\ Unfinished(j)' => Unfinished(j)
  /\ Reserves(j)' /\ Open(j)' => Reserves(j) /\ (Open(j) \/ ~Barred(j))

LEMMA StepOK ==
  ASSUME IInv, NEW j \in Ids, Shapes', RestOK', JobOK(j)', CalmAt(j),
         \A k \in Ids \ {j} : Beside(k), active' \subseteq active, update' = update
  PROVE  IInv'
<1>1. ASSUME NEW k \in Ids, k # j PROVE JobOK(k)'
  BY <1>1, BesideOK DEF IInv
<1>2. ASSUME NEW k \in Ids, k # j
      PROVE  /\ job'[k].kind = job[k].kind
             /\ job'[k].from = job[k].from /\ job'[k].to = job[k].to
             /\ Unfinished(k)' => Unfinished(k)
             /\ Reserves(k)' /\ Open(k)' => Reserves(k) /\ (Open(k) \/ ~Barred(k))
  <2>1. JobKept(k) /\ task'[k] = task[k] /\ copy'[k] = copy[k] /\ orphan'[k] = orphan[k]
    BY <1>2 DEF Beside, AgentKept
  <2>2. job[k] \in JobState
    BY DEF IInv, JobOK
  <2>3. /\ job'[k].kind = job[k].kind /\ job'[k].from = job[k].from /\ job'[k].to = job[k].to
        /\ job'[k].cancelable = job[k].cancelable
    BY <2>1, <2>2 DEF JobKept, JobState
  <2> QED BY <2>1, <2>3 DEF Unfinished, Open, Reserves, IsDownload, Endpoints
<1>3. Calm
  BY <1>2 DEF Calm, CalmAt
<1>4. Numbered' /\ Apart' /\ QuietOK'
  BY <1>3, CalmOK
<1>5. \A k \in Ids : JobOK(k)'
  BY <1>1
<1> QED BY <1>4, <1>5 DEF IInv, Ids

\* The runner of j ends: with a final status, or queued again.
Ended(j, status) ==
  /\ job' = [k \in Ids |-> job'[k]] /\ \A k \in Ids \ {j} : JobKept(k)
  /\ job'[j] \in {[job[j] EXCEPT !.status = status, !.stop = "none", !.err = e] : e \in BOOLEAN}
  /\ Gone(j) /\ FreeSlot(j) /\ (disk' = disk \/ Written)
  /\ UNCHANGED <<tomb, active>>

LEMMA OverEnded ==
  ASSUME IInv, NEW j \in Ids, NEW status \in Final, Over(j, status), disk' = disk \/ Written
  PROVE  Ended(j, status)
<1>1. job = [k \in Ids |-> job[k]] /\ \A k \in Ids : job[k] \in JobState
  BY DEF IInv, Shapes, JobOK
<1>2. CASE status = "canceled"
  <2>1. job' = [Canceling(job, j) EXCEPT ![j].status = status, ![j].stop = "none", ![j].err = FALSE]
    BY <1>2 DEF Over
  <2>2. /\ job' = [k \in Ids |-> job'[k]]
        /\ job'[j] = [job[j] EXCEPT !.status = status, !.stop = "none", !.err = FALSE]
    BY <1>1, <1>2, <2>1 DEF Canceling, JobState
  <2>3. \A k \in Ids \ {j} : JobKept(k)
    BY <2>1 DEF Canceling, JobKept
  <2> QED BY <2>2, <2>3 DEF Over, Ended
<1>3. CASE status # "canceled"
  <2>1. job' = [job EXCEPT ![j].status = status, ![j].stop = "none", ![j].err = FALSE]
    BY <1>3 DEF Over
  <2>2. /\ job' = [k \in Ids |-> job'[k]]
        /\ job'[j] = [job[j] EXCEPT !.status = status, !.stop = "none", !.err = FALSE]
    BY <1>1, <2>1 DEF JobState
  <2>3. \A k \in Ids \ {j} : JobKept(k)
    BY <2>1, <1>1 DEF JobKept
  <2> QED BY <2>2, <2>3 DEF Over, Ended
<1> QED BY <1>2, <1>3

\* Disturbances are counted, and saves may be one.
LEMMA Counted ==
  ASSUME IInv, Event
  PROVE  events' \in 0..MaxEvents
<1> QED BY Constants DEF IInv, RestOK, Event

LEMMA SavesOK == ASSUME IInv, Saves PROVE (disk' = disk \/ Written) /\ events' \in 0..MaxEvents
<1> QED BY Counted DEF Saves, IInv, RestOK

\* The agents are left to themselves, or nothing of theirs is left.
Leaves(j) ==
  /\ copy' = [copy EXCEPT ![j] = "none"]
  /\ orphan' \in {orphan, [orphan EXCEPT ![j] = Left(j)]}

LEMMA EndedOK ==
  ASSUME IInv, NEW j \in Ids, NEW status \in Final \cup {"queued"}, Ended(j, status),
         task[j].at \in Begun, Leaves(j),
         job[j].kind = "download" /\ j \notin adrift /\ orphan'[j] # "none"
           => (j \in tomb /\ orphan'[j] = "asked") \/ (~job[j].cancelable /\ status = "failed"),
         cache' \subseteq Nodes, events' \in 0..MaxEvents,
         UNCHANGED <<dispatcher, stopping, update, adrift>>
  PROVE  IInv'
<1>1. JobOK(j) /\ Shapes /\ RestOK
  BY DEF IInv
<1>2. /\ task' = [task EXCEPT ![j] = [at |-> "done", how |-> "none"]]
      /\ tomb' = tomb /\ active' = active
      /\ slot' = IF slot = j THEN 0 ELSE slot
      /\ job' = [k \in Ids |-> job'[k]] /\ \A k \in Ids \ {j} : JobKept(k)
  BY DEF Ended, Gone, FreeSlot
<1>3. PICK e \in BOOLEAN : job'[j] = [job[j] EXCEPT !.status = status, !.stop = "none", !.err = e]
  BY DEF Ended
<1>4. /\ job'[j] \in JobState
      /\ job'[j].kind = job[j].kind /\ job'[j].from = job[j].from /\ job'[j].to = job[j].to
      /\ job'[j].after = job[j].after /\ job'[j].cancelable = job[j].cancelable
      /\ job'[j].status = status /\ job'[j].stop = "none"
  BY <1>1, <1>3 DEF JobOK, JobState, Active, Final
<1>5. /\ task'[j] \in TaskState /\ task'[j].at = "done" /\ task'[j].how = "none"
      /\ \A k \in Ids \ {j} : task'[k] = task[k]
      /\ task' = [k \in Ids |-> task'[k]]
  BY <1>1, <1>2 DEF Shapes, JobOK, TaskState
<1>6. /\ copy' = [k \in Ids |-> copy'[k]] /\ copy'[j] = "none"
      /\ orphan' = [k \in Ids |-> orphan'[k]]
      /\ \A k \in Ids \ {j} : copy'[k] = copy[k] /\ orphan'[k] = orphan[k]
  BY <1>1 DEF Leaves, Shapes
<1>7. /\ orphan'[j] \in OrphanState
      /\ orphan'[j] = "live" => Open(j)
  <2>1. orphan'[j] \in {orphan[j], Left(j)}
    BY <1>1 DEF Leaves, Shapes
  <2> QED BY <1>1, <2>1 DEF JobOK, Left, OrphanState, CopyState, Open
<1>8. (slot' = j) = FALSE /\ slot' \in 0..Nobody /\ \A k \in Ids \ {j} : (slot' = k) = (slot = k)
  BY <1>1, <1>2, Constants DEF Ids, RestOK, Nobody
<1>15. /\ disk' = [k \in Ids |-> disk'[k]]
       /\ \A k \in Ids : disk'[k] \in {disk[k], job'[k].status}
  BY <1>1 DEF Ended, Written, Shapes
<1>9. Shapes'
  BY <1>2, <1>5, <1>6, <1>15 DEF Shapes, Ids
<1>10. RestOK'
  BY <1>1, <1>2, <1>8 DEF RestOK, Ids, Nobody
<1>11. job[j].status = "running" /\ job[j].kind # "none"
  BY <1>1 DEF JobOK, StatusOK, Begun, Idle
<1>12. JobOK(j)'
  <2>1. HowOK(job'[j], task'[j])
    BY <1>1, <1>4, <1>5 DEF JobOK, HowOK
  <2>2. StatusOK(job'[j], task'[j])
    BY <1>4, <1>5, <1>11 DEF StatusOK, Begun, Final
  <2>3. AgentOK(job'[j], task'[j], copy'[j], orphan'[j], j \in tomb, j \in adrift)
    BY <1>4, <1>6, <1>11 DEF AgentOK
  <2>4. copy'[j] \in CopyState /\ job'[j].after < j
    BY <1>1, <1>4, <1>6 DEF JobOK, CopyState
  <2>5. SlotOK(task'[j], slot' = j)
    BY <1>8 DEF SlotOK
  <2>6. DiskOK(job'[j], task'[j], disk'[j])
    <3>1. disk[j] \in Active
      BY <1>1, <1>11 DEF JobOK, HowOK, DiskOK, Begun, Active
    <3> QED BY <1>4, <1>11, <1>15, <3>1 DEF DiskOK, Active, Final
  <2>7. j \in adrift => job'[j].to # Controller
    BY <1>1, <1>4 DEF JobOK
  <2> QED BY <1>2, <1>4, <1>5, <1>7, <2>1, <2>2, <2>3, <2>4, <2>5, <2>6, <2>7 DEF JobOK
<1>13. CalmAt(j)
  BY <1>4, <1>5, <1>6, <1>7 DEF CalmAt, Unfinished, Open, Reserves, IsDownload, Endpoints
<1>14. \A k \in Ids \ {j} : Beside(k)
  BY <1>2, <1>5, <1>6, <1>8, <1>15 DEF Beside, AgentKept
<1> QED BY <1>2, <1>9, <1>10, <1>12, <1>13, <1>14, StepOK

-----------------------------------------------------------------------------
(***************************************************************************)
(* The runners that end.                                                   *)
(***************************************************************************)
\* What a job in a state that satisfies the invariant has behind it.
LEMMA Outlived ==
  ASSUME IInv, NEW j \in Ids, task[j].at \in Begun
  PROVE  /\ job[j].kind = "download" /\ j \notin adrift /\ orphan[j] # "none"
              => j \in tomb /\ orphan[j] = "asked"
         /\ task[j].at \notin AtAgent => copy[j] = "none"
         /\ copy = [copy EXCEPT ![j] = copy[j]] /\ cache \subseteq Nodes /\ events \in 0..MaxEvents
<1>1. JobOK(j) /\ Shapes /\ RestOK
  BY DEF IInv
<1> QED BY <1>1 DEF JobOK, AgentOK, StatusOK, Shapes, RestOK

\* A transfer leaves whatever goes on at its agents; a download that was asked to stop
\* only a request that will be refused; one whose agent answered, nothing.
LEMMA AbandonedOK ==
  ASSUME IInv, NEW j \in Ids, NEW status \in Final \cup {"queued"}, Ended(j, status), Abandon(j),
         task[j].at \in Begun,
         \/ job[j].kind = "transfer"
         \/ ~job[j].cancelable /\ status = "failed"
         \/ j \in tomb /\ Silent(j)
         \/ copy[j] \notin {"asked", "live"},
         UNCHANGED <<dispatcher, stopping, update, adrift>>, cache' \subseteq Nodes,
         events' \in 0..MaxEvents
  PROVE  IInv'
<1>1. Leaves(j) /\ orphan' = [orphan EXCEPT ![j] = Left(j)]
  BY DEF Leaves, Abandon
<1>2. JobOK(j) /\ Shapes
  BY DEF IInv
<1>3. orphan'[j] = Left(j)
  BY <1>1, <1>2 DEF Shapes
<1>4. Silent(j) => Left(j) \in {"asked", "none"}
  BY <1>2 DEF Left, Silent, JobOK, OrphanState
<1>5. copy[j] \notin {"asked", "live"} => Left(j) = orphan[j]
  BY <1>2 DEF Left, JobOK, OrphanState
<1> QED BY <1>1, <1>3, <1>4, <1>5, Outlived, EndedOK

LEMMA EndsOK ==
  ASSUME IInv, NEW j \in Ids, NEW status \in Final, Ends(j, status), Same, task[j].at \in Begun,
         \/ job[j].kind = "transfer"
         \/ ~job[j].cancelable /\ status = "failed"
         \/ j \in tomb /\ Silent(j)
         \/ copy[j] \notin {"asked", "live"}
  PROVE  IInv'
<1>1. Ended(j, status) /\ Abandon(j) /\ events' \in 0..MaxEvents
  BY OverEnded, SavesOK DEF Ends
<1>2. UNCHANGED <<dispatcher, stopping, update, adrift>> /\ cache' \subseteq Nodes
  BY Outlived DEF Same
<1> QED BY <1>1, <1>2, AbandonedOK

LEMMA PrepareOK == ASSUME IInv, NEW j \in Ids, Prepare(j) PROVE IInv'
<1>1. PICK status \in Final : Ends(j, status)
  BY DEF Prepare, Final
<1>2. task[j].at \in Begun /\ copy[j] = "none" /\ Same
  BY Outlived DEF Prepare, Begun, AtAgent
<1> QED BY <1>1, <1>2, EndsOK

LEMMA LeaveOK == ASSUME IInv, NEW j \in Ids, Leave(j) PROVE IInv'
<1>1. Ends(j, Outcome(j)) /\ Outcome(j) \in Final /\ task[j].at \in Begun /\ Same
  BY DEF Leave, Outcome, Final, Begun
<1>2. /\ copy[j] # "live" /\ (copy[j] = "asked" => j \in tomb)
      /\ job[j].kind = "download" /\ (orphan[j] = "live" => j \in adrift)
      /\ Left(j) \in {orphan[j], "asked"}
  BY <1>1 DEF IInv, Leave, JobOK, AgentOK, HowOK, StatusOK, Left
<1>3. CASE copy[j] # "asked"
  BY <1>1, <1>2, <1>3, EndsOK
<1>4. CASE copy[j] = "asked"
  <2>1. Ended(j, Outcome(j)) /\ Abandon(j) /\ events' \in 0..MaxEvents
    BY <1>1, OverEnded, SavesOK DEF Ends
  <2>2. Leaves(j)
    BY <2>1 DEF Leaves, Abandon
  <2>3. j \notin adrift => orphan'[j] = "asked"
    BY <1>2, <1>4, <2>1 DEF Abandon, Left, IInv, Shapes
  <2>4. UNCHANGED <<dispatcher, stopping, update, adrift>> /\ cache' \subseteq Nodes
    BY <1>1, Outlived DEF Same
  <2> QED BY <1>1, <1>2, <1>4, <2>1, <2>2, <2>3, <2>4, EndedOK
<1> QED BY <1>3, <1>4

LEMMA RolledBackOK == ASSUME IInv, NEW j \in Ids, RolledBack(j) PROVE IInv'
<1>1. PICK status \in Final : Over(j, status)
  BY DEF RolledBack, Final
<1>2. task[j].at \in Begun /\ job[j].kind = "transfer"
  BY DEF RolledBack, Begun, IInv, JobOK, HowOK
<1>3. /\ cache' \subseteq Nodes /\ UNCHANGED <<dispatcher, stopping, update, adrift>>
      /\ events' \in 0..MaxEvents /\ Ended(j, status)
  BY <1>1, <1>2, Outlived, OverEnded, SavesOK DEF RolledBack
<1>4. CASE copy[j] = "asked"
  BY <1>2, <1>3, <1>4, AbandonedOK DEF RolledBack
<1>5. CASE copy[j] # "asked"
  <2>1. Leaves(j)
    BY <1>5 DEF RolledBack, Consume, Leaves
  <2> QED BY <1>2, <1>3, <2>1, EndedOK
<1> QED BY <1>4, <1>5

LEMMA RollbackFailsOK == ASSUME IInv, NEW j \in Ids, RollbackFails(j) PROVE IInv'
<1>1. Ended(j, "failed")
  BY OverEnded DEF RollbackFails, Final
<1>2. task[j].at \in Begun /\ job[j].kind = "transfer"
  BY DEF RollbackFails, Begun, IInv, JobOK, HowOK
<1>3. /\ Abandon(j) /\ UNCHANGED <<cache, dispatcher, stopping, update, adrift>>
      /\ events' \in 0..MaxEvents /\ cache \subseteq Nodes
  BY <1>2, Counted, Outlived DEF RollbackFails, Same
<1> QED BY <1>1, <1>2, <1>3, AbandonedOK DEF Final

LEMMA StopConfirmedOK == ASSUME IInv, NEW j \in Ids, StopConfirmed(j) PROVE IInv'
<1>1. JobOK(j) /\ Shapes
  BY DEF IInv
<1>2. task[j].at \in Begun /\ job[j].status = "running"
  BY <1>1 DEF StopConfirmed, Begun, JobOK, StatusOK
<1>3. job' = [job EXCEPT ![j] = Requeued(job[j])]
  BY DEF StopConfirmed
<1>4. /\ job' = [k \in Ids |-> job'[k]] /\ \A k \in Ids \ {j} : JobKept(k)
      /\ job'[j] = Requeued(job[j])
  BY <1>1, <1>3 DEF Shapes, JobKept
<1>5. job'[j] = [job[j] EXCEPT !.status = "queued", !.stop = "none", !.err = FALSE]
  BY <1>1, <1>2, <1>4 DEF Requeued, JobOK, JobState
<1>6. Ended(j, "queued")
  BY <1>4, <1>5 DEF Ended, StopConfirmed
<1>7. j \in tomb /\ Silent(j) /\ Abandon(j) /\ Same /\ UNCHANGED events
  BY DEF StopConfirmed
<1> QED BY <1>2, <1>6, <1>7, Outlived, AbandonedOK DEF Same

-----------------------------------------------------------------------------
(***************************************************************************)
(* The runners on their way, and their agents.                             *)
(***************************************************************************)
\* A step that makes job j the record b, its task t, its copy c and its orphan o.
Walk(j, b, t, c, o) ==
  /\ job' = [job EXCEPT ![j] = b] /\ task' = [task EXCEPT ![j] = t]
  /\ copy' = [copy EXCEPT ![j] = c] /\ orphan' = [orphan EXCEPT ![j] = o]
  /\ tomb' \in {tomb, tomb \cup {j}} /\ (slot' = slot \/ (slot = 0 /\ slot' = j))
  /\ active' = active /\ dispatcher' = dispatcher /\ stopping' = stopping
  /\ update' = update /\ adrift' = adrift /\ (disk' = disk \/ Written)
  /\ cache' \subseteq Nodes /\ events' \in 0..MaxEvents
Fits(j, b, t, c, o) ==
  /\ b \in JobState /\ t \in TaskState /\ c \in CopyState /\ o \in OrphanState
  /\ b.kind = job[j].kind /\ b.from = job[j].from /\ b.to = job[j].to /\ b.after = job[j].after
  /\ HowOK(b, t) /\ StatusOK(b, t) /\ AgentOK(b, t, c, o, j \in tomb', j \in adrift)
  /\ SlotOK(t, slot' = j) /\ (DiskOK(b, t, disk[j]) \/ Written)
  /\ t.at \notin {"none", "done"} => Unfinished(j)
  /\ c = "live" \/ o = "live" =>
       /\ Open(j) \/ ~Barred(j)
       /\ b.cancelable = job[j].cancelable \/ job[j].to # Controller \/ job[j].kind # "download"

LEMMA WalkOK ==
  ASSUME IInv, NEW j \in Ids, NEW b, NEW t, NEW c, NEW o,
         Walk(j, b, t, c, o), Fits(j, b, t, c, o)
  PROVE  IInv'
<1>1. JobOK(j) /\ Shapes /\ RestOK
  BY DEF IInv
<1>2. /\ job'[j] = b /\ task'[j] = t /\ copy'[j] = c /\ orphan'[j] = o
      /\ \A k \in Ids \ {j} : /\ job'[k] = job[k] /\ task'[k] = task[k]
                              /\ copy'[k] = copy[k] /\ orphan'[k] = orphan[k]
  BY <1>1 DEF Shapes, Walk
<1>8. disk' = [k \in Ids |-> disk'[k]] /\ \A k \in Ids : disk'[k] \in {disk[k], job'[k].status}
  BY <1>1 DEF Walk, Written, Shapes
<1>3. Shapes'
  BY <1>1, <1>8 DEF Shapes, Ids, Walk
<1>4. RestOK'
  BY <1>1, Constants DEF RestOK, Ids, Walk, Nobody
<1>5. JobOK(j)'
  <2>1. DiskOK(b, t, b.status)
    BY WrittenOK DEF Fits
  <2>2. CASE disk'[j] = b.status
    BY <1>1, <1>2, <2>1, <2>2 DEF JobOK, Walk, Fits
  <2>3. CASE disk'[j] # b.status
    <3>1. disk'[j] = disk[j] /\ ~Written
      BY <1>2, <1>8, <2>3 DEF Written
    <3> QED BY <1>1, <1>2, <3>1 DEF JobOK, Walk, Fits
  <2> QED BY <2>2, <2>3
<1>6. CalmAt(j)
  BY <1>2 DEF CalmAt, Unfinished, Open, Fits, Reserves, IsDownload, Endpoints
<1>7. \A k \in Ids \ {j} : Beside(k)
  BY <1>1, <1>2, <1>8 DEF Beside, JobKept, AgentKept, RestOK, Ids, Walk
<1> QED BY <1>1, <1>3, <1>4, <1>5, <1>6, <1>7, StepOK DEF Walk

\* What is left alone, in the form WalkOK wants it.
LEMMA Standing ==
  ASSUME IInv, NEW j \in Ids
  PROVE  /\ JobOK(j) /\ job[j] \in JobState /\ task[j] \in TaskState
         /\ copy[j] \in CopyState /\ orphan[j] \in OrphanState
         /\ job = [job EXCEPT ![j] = job[j]] /\ task = [task EXCEPT ![j] = task[j]]
         /\ copy = [copy EXCEPT ![j] = copy[j]] /\ orphan = [orphan EXCEPT ![j] = orphan[j]]
         /\ cache \subseteq Nodes /\ events \in 0..MaxEvents /\ slot \in 0..Nobody
<1>1. JobOK(j) /\ Shapes /\ RestOK
  BY DEF IInv
<1> QED BY <1>1 DEF Shapes, RestOK, JobOK

LEMMA CancelRunningOK == ASSUME IInv, NEW j \in Ids, CancelRunning(j) PROVE IInv'
<1> DEFINE b == [job[j] EXCEPT !.stop = "set"]
<1>1. /\ job' = [job EXCEPT ![j] = b] /\ UNCHANGED <<task, copy, orphan, tomb, active, slot, events>>
      /\ job[j].status = "running" /\ job[j].stop = "clear" /\ Same /\ Written
  BY DEF CancelRunning, work
<1>2. /\ b \in JobState /\ b.kind = job[j].kind /\ b.from = job[j].from /\ b.to = job[j].to
      /\ b.after = job[j].after /\ b.status = job[j].status /\ b.cancelable = job[j].cancelable
  BY Standing DEF JobState
<1> HIDE DEF b
<1>3. /\ HowOK(b, task[j]) /\ StatusOK(b, task[j]) /\ SlotOK(task[j], slot = j)
      /\ AgentOK(b, task[j], copy[j], orphan[j], j \in tomb, j \in adrift)
  BY <1>1, <1>2, Standing DEF JobOK, HowOK, StatusOK, AgentOK
<1>4. Walk(j, b, task[j], copy[j], orphan[j])
  BY <1>1, Standing DEF Walk, Same
<1>5. Fits(j, b, task[j], copy[j], orphan[j])
  BY <1>1, <1>2, <1>3, Standing DEF Fits, Unfinished, Open
<1> QED BY <1>4, <1>5, WalkOK

LEMMA BeginsOK ==
  ASSUME IInv, NEW j \in Ids, NEW cancelable \in BOOLEAN, Begins(j, cancelable),
         (At(j, "preparing") /\ Written) \/ (CutOff(j) /\ disk' = disk), events' \in 0..MaxEvents
  PROVE  IInv'
<1> DEFINE b == [job[j] EXCEPT !.status = "running", !.stop = "clear", !.cancelable = cancelable]
<1>1. PICK t : /\ task' = [task EXCEPT ![j] = t] /\ t \in TaskState
               /\ \/ t.at = "preparing" /\ t.how = task[j].how /\ Written
                  \/ t.at = "done" /\ t.how = "cut" /\ disk' = disk
  <2>1. CASE At(j, "preparing") /\ Written
    <3> DEFINE t == [task[j] EXCEPT !.at = "preparing"]
    <3>1. task' = [task EXCEPT ![j] = t]
      BY <2>1 DEF At
    <3>2. t \in TaskState /\ t.at = "preparing" /\ t.how = task[j].how
      BY Standing DEF TaskState
    <3> QED BY <2>1, <3>1, <3>2
  <2>2. CASE CutOff(j) /\ disk' = disk
    <3> DEFINE t == [at |-> "done", how |-> "cut"]
    <3>1. task' = [task EXCEPT ![j] = t]
      BY <2>2 DEF CutOff
    <3>2. t \in TaskState /\ t.at = "done" /\ t.how = "cut"
      BY DEF TaskState
    <3> QED BY <2>2, <3>1, <3>2
  <2> QED BY <2>1, <2>2
<1>2. /\ job' = [job EXCEPT ![j] = b] /\ UNCHANGED <<copy, orphan, tomb, active, slot>>
      /\ task[j].at = "created" /\ Same
  BY DEF Begins
<1>3. /\ b \in JobState /\ b.kind = job[j].kind /\ b.from = job[j].from /\ b.to = job[j].to
      /\ b.after = job[j].after /\ b.status = "running"
  BY Standing DEF JobState, Active
<1> HIDE DEF b
<1>4. /\ job[j].status \in {"queued", "canceled"} /\ task[j].how = "none" /\ copy[j] = "none"
      /\ job[j].kind # "none"
  BY <1>2, Standing DEF JobOK, StatusOK, HowOK, AgentOK, AtAgent
<1>5. HowOK(b, t) /\ StatusOK(b, t) /\ (DiskOK(b, t, disk[j]) \/ Written)
  BY <1>1, <1>3, <1>4, Standing DEF JobOK, HowOK, StatusOK, DiskOK, Begun, Final
<1>6. SlotOK(t, slot = j) /\ AgentOK(b, t, copy[j], orphan[j], j \in tomb, j \in adrift)
  BY <1>1, <1>2, <1>3, <1>4, Standing DEF JobOK, AgentOK, SlotOK, Holding
<1>7. Walk(j, b, t, copy[j], orphan[j])
  BY <1>1, <1>2, Standing DEF Walk, Same
<1>8. orphan[j] = "live" => job[j].to # Controller \/ job[j].kind # "download"
  BY <1>4, Standing DEF JobOK, AgentOK
<1>9. Fits(j, b, t, copy[j], orphan[j])
  BY <1>1, <1>2, <1>3, <1>4, <1>5, <1>6, <1>8, Standing DEF Fits, Unfinished, Open
<1> QED BY <1>7, <1>9, WalkOK

LEMMA BeginOK ==
  ASSUME IInv, NEW j \in Ids, NEW cancelable \in BOOLEAN,
         Begin(j, cancelable) \/ BeginFails(j, cancelable)
  PROVE  IInv'
<1> QED BY BeginsOK, Counted, Standing DEF Begin, BeginFails

LEMMA StartDownloadOK ==
  ASSUME IInv, NEW j \in Ids, NEW cancelable \in BOOLEAN, NEW capped \in Caps,
         StartDownload(j, cancelable, capped)
  PROVE  IInv'
<1> DEFINE b == [job[j] EXCEPT !.cancelable = cancelable]
           t == [at |-> IF capped THEN "queueing" ELSE "working",
                 how |-> IF cancelable THEN "download" ELSE "plain"]
           c == IF capped THEN copy[j] ELSE "asked"
<1>1. /\ job' = [job EXCEPT ![j] = b] /\ task' = [task EXCEPT ![j] = t]
      /\ UNCHANGED <<orphan, tomb, active, slot, rest>>
      /\ task[j].at = "preparing" /\ job[j].kind = "download"
      /\ cancelable # job[j].cancelable => job[j].to # Controller
  BY DEF StartDownload, IsDownload
<1>2. copy' = [copy EXCEPT ![j] = c]
  BY Standing DEF StartDownload, Ask
<1>3. /\ b \in JobState /\ b.kind = "download" /\ b.from = job[j].from /\ b.to = job[j].to
      /\ b.after = job[j].after /\ b.status = job[j].status /\ b.stop = job[j].stop
      /\ b.cancelable = cancelable
      /\ t \in TaskState /\ t.at \in {"queueing", "working"} /\ t.how \in {"download", "plain"}
      /\ t.how = "plain" => ~cancelable
  BY <1>1, Standing DEF JobState, TaskState
<1>4. job[j].status = "running" /\ task[j].how = "none" /\ copy[j] = "none"
  BY <1>1, Standing DEF JobOK, StatusOK, HowOK, AgentOK, AtAgent, Begun
<1>5. c \in CopyState /\ c \in {"none", "asked"} /\ (c # "none" => t.at = "working")
  BY <1>4 DEF CopyState
<1> HIDE DEF b, t, c
<1>6. HowOK(b, t) /\ StatusOK(b, t) /\ DiskOK(b, t, disk[j])
  BY <1>3, <1>4, Standing DEF JobOK, HowOK, StatusOK, DiskOK, Begun
<1>7. slot # j
  BY <1>1, Standing DEF JobOK, SlotOK, Holding
<1>8. AgentOK(b, t, c, orphan[j], j \in tomb, j \in adrift) /\ SlotOK(t, slot = j)
  BY <1>1, <1>3, <1>4, <1>5, <1>7, Standing DEF JobOK, AgentOK, AtAgent, SlotOK
<1>9. Walk(j, b, t, c, orphan[j])
  BY <1>1, <1>2, Standing DEF Walk, rest
<1>10. Fits(j, b, t, c, orphan[j])
  BY <1>1, <1>3, <1>5, <1>6, <1>8, Standing DEF Fits, Unfinished, Open
<1> QED BY <1>9, <1>10, WalkOK

LEMMA StartTransferOK ==
  ASSUME IInv, NEW j \in Ids, NEW how \in {"direct", "stream"}, StartTransfer(j, how)
  PROVE  IInv'
<1> DEFINE t == [at |-> "working", how |-> how]
<1>1. /\ task' = [task EXCEPT ![j] = t] /\ copy' = [copy EXCEPT ![j] = "asked"]
      /\ UNCHANGED <<job, orphan, tomb, active, slot, rest>>
      /\ task[j].at = "preparing" /\ job[j].kind # "download"
  BY DEF StartTransfer, Ask, IsDownload
<1>2. job[j].status = "running" /\ job[j].kind = "transfer" /\ slot # j
  BY <1>1, Standing DEF JobOK, StatusOK, SlotOK, Holding, Begun, JobState, Idle
<1>3. t \in TaskState /\ t.at = "working" /\ t.how = how
  BY DEF TaskState
<1> HIDE DEF t
<1>4. /\ HowOK(job[j], t) /\ StatusOK(job[j], t) /\ SlotOK(t, slot = j)
      /\ DiskOK(job[j], t, disk[j])
  BY <1>1, <1>2, <1>3, Standing DEF JobOK, HowOK, StatusOK, DiskOK, SlotOK, Begun
<1>5. AgentOK(job[j], t, "asked", orphan[j], j \in tomb, j \in adrift)
  BY <1>2, <1>3 DEF AgentOK, AtAgent
<1>6. Walk(j, job[j], t, "asked", orphan[j])
  BY <1>1, Standing DEF Walk, rest
<1>7. Fits(j, job[j], t, "asked", orphan[j])
  BY <1>1, <1>3, <1>4, <1>5, Standing DEF Fits, Unfinished, Open, CopyState
<1> QED BY <1>6, <1>7, WalkOK

\* At most the cancel event and the error of job j differ in b.
SameJob(j, b) ==
  /\ b \in JobState /\ b.kind = job[j].kind /\ b.from = job[j].from /\ b.to = job[j].to
  /\ b.after = job[j].after /\ b.status = job[j].status /\ b.cancelable = job[j].cancelable

\* A runner goes on to another stage: its job b runs on, the agents go on.
Onward(j, b, stage) ==
  /\ SameJob(j, b)
  /\ task[j].at \in Begun /\ stage \in Begun
  /\ HowOK(job[j], [task[j] EXCEPT !.at = stage])
  /\ stage \notin AtAgent => copy[j] = "none"
  /\ stage = "leaving" => copy[j] # "live" /\ (copy[j] = "asked" => j \in tomb)
  /\ SlotOK([task[j] EXCEPT !.at = stage], slot' = j)

LEMMA OnwardOK ==
  ASSUME IInv, NEW j \in Ids, NEW b, NEW stage, NEW c \in CopyState, Onward(j, b, stage),
         Walk(j, b, [task[j] EXCEPT !.at = stage], c, orphan[j]),
         c = copy[j] \/ (c = "asked" /\ stage = "working"), tomb' = tomb
  PROVE  IInv'
<1> DEFINE t == [task[j] EXCEPT !.at = stage]
<1>1. t \in TaskState /\ t.at = stage /\ t.how = task[j].how
  BY Standing DEF TaskState, Onward, Begun
<1>2. /\ b \in JobState /\ b.kind = job[j].kind /\ b.from = job[j].from /\ b.to = job[j].to
      /\ b.after = job[j].after /\ b.status = job[j].status /\ b.cancelable = job[j].cancelable
  BY DEF SameJob, Onward
<1>3. /\ HowOK(job[j], t) /\ SlotOK(t, slot' = j) /\ task[j].at \in Begun /\ stage \in Begun
      /\ stage \notin AtAgent => copy[j] = "none"
      /\ stage = "leaving" => copy[j] # "live" /\ (copy[j] = "asked" => j \in tomb)
  BY DEF Onward
<1> HIDE DEF t
<1>4. HowOK(b, t)
  BY <1>2, <1>3 DEF HowOK
<1>5. StatusOK(b, t) /\ DiskOK(b, t, disk[j])
  BY <1>1, <1>2, <1>3, Standing DEF JobOK, StatusOK, DiskOK, Begun, Idle
<1>6. AgentOK(b, t, c, orphan[j], j \in tomb, j \in adrift)
  <2>1. "working" \in AtAgent
    BY DEF AtAgent
  <2> QED BY <1>1, <1>2, <1>3, <2>1, Standing DEF JobOK, AgentOK
<1>7. Unfinished(j)
  BY <1>3 DEF Unfinished, Begun
<1>8. Fits(j, b, t, c, orphan[j])
  BY <1>1, <1>2, <1>3, <1>4, <1>5, <1>6, <1>7, Standing DEF Fits, Open
<1> QED BY <1>8, WalkOK DEF t

LEMMA GrantSlotOK == ASSUME IInv, NEW j \in Ids, GrantSlot(j) PROVE IInv'
<1> DEFINE t == [task[j] EXCEPT !.at = "granted"]
<1>1. Walk(j, job[j], t, copy[j], orphan[j]) /\ task[j].at = "queueing" /\ tomb' = tomb
  BY Standing DEF GrantSlot, At, Walk, rest
<1>2. Onward(j, job[j], "granted")
  BY <1>1, Standing DEF Onward, SameJob, JobOK, HowOK, AgentOK, SlotOK, TaskState, Begun, AtAgent, Holding
<1> QED BY <1>1, <1>2, Standing, OnwardOK

LEMMA UseSlotOK == ASSUME IInv, NEW j \in Ids, UseSlot(j) PROVE IInv'
<1> DEFINE t == [task[j] EXCEPT !.at = "working"]
<1>1. Walk(j, job[j], t, "asked", orphan[j]) /\ task[j].at = "granted" /\ UNCHANGED <<tomb, slot>>
  BY Standing DEF UseSlot, At, Ask, Walk, rest
<1>2. Onward(j, job[j], "working")
  BY <1>1, Standing DEF Onward, SameJob, JobOK, HowOK, AgentOK, SlotOK, TaskState, Begun, AtAgent, Holding
<1> QED BY <1>1, <1>2, OnwardOK DEF CopyState, AtAgent

\* A runner turns to the agent: to see whether the writer stopped, what landed, to roll back.
Turns(j, b, stage) ==
  /\ SameJob(j, b) /\ job' = [job EXCEPT ![j] = b] /\ At(j, stage)
  /\ UNCHANGED <<copy, orphan, tomb, active, slot>>
  /\ Same /\ (disk' = disk \/ Written) /\ events' \in 0..MaxEvents
  /\ \/ /\ task[j].at \in {"working", "confirming", "stranded"} /\ task[j].how = "download"
        /\ stage \in {"working", "confirming", "stranded"}
     \/ /\ task[j].at \in {"working", "verifying"} /\ task[j].how \in {"direct", "stream"}
        /\ stage \in {"verifying", "rollback"} /\ (stage = "rollback" => task[j].how = "direct")

LEMMA TurnOK == ASSUME IInv, NEW j \in Ids, NEW b, NEW stage, Turns(j, b, stage) PROVE IInv'
<1>1. Walk(j, b, [task[j] EXCEPT !.at = stage], copy[j], orphan[j])
  BY Standing DEF Turns, At, Same, Walk
<1>2. /\ task[j].at \in Begun /\ stage \in Begun /\ stage \in AtAgent /\ stage # "leaving"
      /\ SameJob(j, b) /\ UNCHANGED <<tomb, slot>>
  BY DEF Turns, Begun, AtAgent
<1> DEFINE t == [task[j] EXCEPT !.at = stage]
<1>3. t.at = stage /\ t.how = task[j].how
  BY Standing DEF TaskState
<1> HIDE DEF t
<1>4. HowOK(job[j], t)
  BY <1>3, Standing DEF Turns, JobOK, HowOK
<1>5. SlotOK(t, slot = j)
  BY <1>3, Standing DEF Turns, JobOK, SlotOK, Holding
<1>6. Onward(j, b, stage)
  BY <1>2, <1>4, <1>5 DEF Onward, t
<1> QED BY <1>1, <1>2, <1>6, Standing, OnwardOK

\* What an agent failed or did not confirm is remembered, and the event is set or cleared.
LEMMA Rearmed ==
  ASSUME IInv, NEW j \in Ids, NEW s \in {"clear", "set"}, NEW e \in BOOLEAN
  PROVE  SameJob(j, [job[j] EXCEPT !.stop = s, !.err = e]) /\ SameJob(j, job[j])
<1> QED BY Standing DEF SameJob, JobState

LEMMA UnconfirmedOK == ASSUME IInv, NEW j \in Ids, Unconfirmed(j) PROVE IInv'
<1> DEFINE b == [job[j] EXCEPT !.stop = "clear", !.err = job[j].err]
<1>1. job' = [job EXCEPT ![j] = b] /\ job[j].err \in BOOLEAN
  BY Standing DEF Unconfirmed, JobState
<1>2. SameJob(j, b)
  BY <1>1, Rearmed
<1> HIDE DEF b
<1>3. PICK stage \in {"working", "stranded"} : At(j, stage)
  BY DEF Unconfirmed
<1>4. task[j].at = "confirming" /\ task[j].how = "download"
  BY Standing DEF Unconfirmed, JobOK, HowOK
<1>5. /\ UNCHANGED <<copy, orphan, tomb, active, slot>> /\ Same /\ Written
      /\ events' \in 0..MaxEvents
  BY Counted DEF Unconfirmed
<1> QED BY <1>1, <1>2, <1>3, <1>4, <1>5, TurnOK DEF Turns

\* A download is asked whether it stopped; b says what became of it.
LEMMA AsksToStop ==
  ASSUME IInv, NEW j \in Ids, task[j].at \in {"working", "stranded"}, task[j].how = "download",
         At(j, "confirming"), UNCHANGED <<copy, orphan, tomb, active, slot>>,
         Same, UNCHANGED disk, events' \in 0..MaxEvents,
         job' = job \/ job' = [job EXCEPT ![j].err = TRUE, ![j].stop = "set"]
  PROVE  IInv'
<1>1. CASE job' = job
  <2>1. job' = [job EXCEPT ![j] = job[j]] /\ SameJob(j, job[j])
    BY <1>1, Standing, Rearmed
  <2> QED BY <2>1, TurnOK DEF Turns
<1>2. CASE job' = [job EXCEPT ![j].err = TRUE, ![j].stop = "set"]
  <2> DEFINE b == [job[j] EXCEPT !.stop = "set", !.err = TRUE]
  <2>1. job' = [job EXCEPT ![j] = b]
    BY <1>2, Standing DEF JobState
  <2>2. SameJob(j, b)
    BY Rearmed
  <2> HIDE DEF b
  <2> QED BY <2>1, <2>2, TurnOK DEF Turns
<1> QED BY <1>1, <1>2

\* A transfer goes on to its verification or its rollback.
LEMMA TransferTurns ==
  ASSUME IInv, NEW j \in Ids, NEW stage \in {"verifying", "rollback"},
         task[j].at \in {"working", "verifying"}, task[j].how \in {"direct", "stream"},
         stage = "rollback" => task[j].how = "direct", At(j, stage),
         UNCHANGED <<job, copy, orphan, tomb, active, slot, disk, events>>, Same
  PROVE  IInv'
<1>1. job' = [job EXCEPT ![j] = job[j]] /\ SameJob(j, job[j])
  BY Standing, Rearmed
<1>2. events' \in 0..MaxEvents
  BY Standing
<1> QED BY <1>1, <1>2, TurnOK DEF Turns

\* A download has nothing more to ask of its agent.
LEMMA LeavingOK ==
  ASSUME IInv, NEW j \in Ids, task[j].how = "download",
         task[j].at \in {"queueing", "granted", "working", "confirming"},
         At(j, "leaving"), copy[j] # "live", copy[j] = "asked" => j \in tomb,
         UNCHANGED <<job, copy, orphan, tomb, active, slot, disk, events>>, Same
  PROVE  IInv'
<1>1. Walk(j, job[j], [task[j] EXCEPT !.at = "leaving"], copy[j], orphan[j])
  BY Standing DEF At, Same, Walk
<1>2. Onward(j, job[j], "leaving")
  <2> DEFINE t == [task[j] EXCEPT !.at = "leaving"]
  <2>1. t.at = "leaving" /\ t.how = task[j].how
    BY Standing DEF TaskState
  <2> HIDE DEF t
  <2>2. HowOK(job[j], t) /\ SlotOK(t, slot' = j)
    BY <2>1, Standing DEF JobOK, HowOK, SlotOK, Holding
  <2>3. SameJob(j, job[j])
    BY Standing DEF SameJob
  <2> QED BY <2>2, <2>3 DEF Onward, Begun, AtAgent, t
<1> QED BY <1>1, <1>2, Standing, OnwardOK

\* A relayed transfer is final, and its streams are left to be closed.
LEMMA ClosingOK ==
  ASSUME IInv, NEW j \in Ids, NEW status \in Final, task[j].at \in Begun,
         task[j].how = "stream", Closing(j, status), Same, events' \in 0..MaxEvents
  PROVE  IInv'
<1> DEFINE b == [job[j] EXCEPT !.status = status]
           t == [task[j] EXCEPT !.at = "closing"]
<1>1. /\ b \in JobState /\ b.kind = job[j].kind /\ b.from = job[j].from /\ b.to = job[j].to
      /\ b.after = job[j].after /\ b.status = status /\ b.cancelable = job[j].cancelable
      /\ t \in TaskState /\ t.at = "closing" /\ t.how = "stream"
  BY Standing DEF JobState, TaskState
<1>2. Walk(j, b, t, "none", Left(j))
  BY Standing DEF Closing, At, Abandon, Same, Walk
<1> HIDE DEF b, t
<1>3. job[j].kind = "transfer" /\ job[j].status = "running" /\ disk[j] \in Active
  BY Standing DEF JobOK, HowOK, StatusOK, DiskOK, Begun, Active
<1>4. HowOK(b, t) /\ StatusOK(b, t) /\ DiskOK(b, t, disk[j])
  BY <1>1, <1>3 DEF HowOK, StatusOK, DiskOK, Begun, Active, Final
<1>5. slot' # j
  BY Standing DEF Closing, JobOK, SlotOK
<1>6. /\ AgentOK(b, t, "none", Left(j), j \in tomb', j \in adrift) /\ SlotOK(t, slot' = j)
      /\ Left(j) \in OrphanState /\ (Left(j) = "live" => Open(j))
  BY <1>1, <1>3, <1>5, Standing DEF JobOK, AgentOK, SlotOK, Left, OrphanState, Open
<1>7. Fits(j, b, t, "none", Left(j))
  BY <1>1, <1>4, <1>6 DEF Fits, CopyState, Unfinished, Begun
<1> QED BY <1>2, <1>7, WalkOK

LEMMA ConcludesOK ==
  ASSUME IInv, NEW j \in Ids, NEW status \in Final, Concludes(j, status), Same,
         task[j].at \in {"working", "verifying", "confirming"},
         task[j].how = "download" => copy[j] # "live" /\ (copy[j] = "asked" => j \in tomb),
         task[j].how = "plain" => copy[j] \notin {"asked", "live"} \/ status = "failed"
  PROVE  IInv'
<1>1. task[j].at \in Begun /\ (task[j].at = "verifying" => task[j].how # "download")
  BY Standing DEF JobOK, HowOK, Begun
<1>2. CASE task[j].how = "download" /\ At(j, "leaving")
           /\ UNCHANGED <<job, copy, orphan, tomb, active, slot, disk, events>>
  BY <1>1, <1>2, LeavingOK
<1>3. CASE task[j].how = "stream" /\ Closing(j, status) /\ UNCHANGED events
  BY <1>1, <1>3, Standing, ClosingOK
<1>4. CASE task[j].how \in {"plain", "direct"} /\ Ends(j, status)
  <2>1. \/ job[j].kind = "transfer"
        \/ ~job[j].cancelable /\ status = "failed"
        \/ copy[j] \notin {"asked", "live"}
    BY <1>4, Standing DEF JobOK, HowOK
  <2> QED BY <1>1, <1>4, <2>1, EndsOK
<1> QED BY <1>2, <1>3, <1>4 DEF Concludes

LEMMA OutcomeFinal == ASSUME NEW j \in Ids PROVE Outcome(j) \in Final
<1> QED BY DEF Outcome, Final

LEMMA LeaveSlotOK == ASSUME IInv, NEW j \in Ids, LeaveSlot(j) PROVE IInv'
<1>1. /\ task[j].at \in {"queueing", "granted"} /\ task[j].how = "download" /\ At(j, "leaving")
      /\ UNCHANGED <<job, copy, orphan, tomb, active, slot, disk, events>> /\ Same
  BY DEF LeaveSlot, rest, Same
<1>2. copy[j] = "none"
  BY <1>1, Standing DEF JobOK, AgentOK, AtAgent
<1> QED BY <1>1, <1>2, LeavingOK

\* The streams are closed; whether the status is saved or the runner is cut off, the job
\* is over.
LEMMA ClosedOK ==
  ASSUME IInv, NEW j \in Ids, task[j].at = "closing", Gone(j) \/ CutOff(j),
         \/ (job' = [job EXCEPT ![j].stop = "none"] /\ Gone(j))
         \/ (UNCHANGED job /\ CutOff(j)),
         disk' = disk \/ Written, events' \in 0..MaxEvents,
         Same, UNCHANGED <<copy, orphan, tomb, active, slot>>
  PROVE  IInv'
<1>1. PICK b, t :
        /\ job' = [job EXCEPT ![j] = b] /\ task' = [task EXCEPT ![j] = t]
        /\ b \in JobState /\ b.kind = job[j].kind /\ b.from = job[j].from /\ b.to = job[j].to
        /\ b.after = job[j].after /\ b.status = job[j].status /\ b.cancelable = job[j].cancelable
        /\ t \in TaskState /\ t.at = "done"
        /\ (t.how = "none" /\ b.stop = "none") \/ t.how = "cut"
  <2>1. CASE job' = [job EXCEPT ![j].stop = "none"] /\ Gone(j)
    <3> DEFINE b == [job[j] EXCEPT !.stop = "none"]
               t == [at |-> "done", how |-> "none"]
    <3>1. job' = [job EXCEPT ![j] = b] /\ task' = [task EXCEPT ![j] = t]
      BY <2>1 DEF Gone
    <3>2. /\ b \in JobState /\ b.kind = job[j].kind /\ b.from = job[j].from /\ b.to = job[j].to
          /\ b.after = job[j].after /\ b.status = job[j].status /\ b.cancelable = job[j].cancelable
          /\ b.stop = "none" /\ t \in TaskState /\ t.at = "done" /\ t.how = "none"
      BY Standing DEF JobState, TaskState
    <3> QED BY <3>1, <3>2
  <2>2. CASE UNCHANGED job /\ CutOff(j)
    <3> DEFINE t == [at |-> "done", how |-> "cut"]
    <3>1. job' = [job EXCEPT ![j] = job[j]] /\ task' = [task EXCEPT ![j] = t]
      BY <2>2, Standing DEF CutOff
    <3>2. t \in TaskState /\ t.at = "done" /\ t.how = "cut"
      BY DEF TaskState
    <3> QED BY <3>1, <3>2, Standing
  <2> QED BY <2>1, <2>2
<1>2. /\ job[j].status \in Final /\ job[j].kind = "transfer" /\ task[j].how = "stream"
      /\ copy[j] = "none" /\ slot # j
  BY Standing DEF JobOK, HowOK, StatusOK, AgentOK, SlotOK, AtAgent
<1>3. HowOK(b, t) /\ StatusOK(b, t) /\ DiskOK(b, t, disk[j])
  BY <1>1, <1>2, Standing DEF JobOK, HowOK, StatusOK, DiskOK, Begun, Final
<1>4. AgentOK(b, t, copy[j], orphan[j], j \in tomb, j \in adrift) /\ SlotOK(t, slot' = j)
  BY <1>1, <1>2 DEF AgentOK, SlotOK
<1>5. Walk(j, b, t, copy[j], orphan[j])
  BY <1>1, Standing DEF Walk, Same
<1>6. Fits(j, b, t, copy[j], orphan[j])
  BY <1>1, <1>3, <1>4, Standing DEF Fits, Unfinished, Open
<1> QED BY <1>5, <1>6, WalkOK

LEMMA CloseOK == ASSUME IInv, NEW j \in Ids, Close(j) \/ CloseFails(j) PROVE IInv'
<1>1. CASE Close(j)
  BY <1>1, ClosedOK, SavesOK DEF Close
<1>2. CASE CloseFails(j)
  BY <1>2, ClosedOK, Counted DEF CloseFails
<1> QED BY <1>1, <1>2

LEMMA SaveProgressOK == ASSUME IInv, NEW j \in Ids, SaveProgress(j) PROVE IInv'
<1>1. /\ UNCHANGED <<job, task, copy, orphan, tomb, active, slot, events>> /\ Same
      /\ disk' = [k \in Ids |-> job[k].status]
  BY DEF SaveProgress, work
<1>2. Written
  BY <1>1 DEF Written
<1>3. Walk(j, job[j], task[j], copy[j], orphan[j])
  BY <1>1, <1>2, Standing DEF Walk, Same
<1>4. Fits(j, job[j], task[j], copy[j], orphan[j])
  BY <1>1, <1>2, Standing DEF Fits, JobOK, Unfinished, Open
<1> QED BY <1>3, <1>4, WalkOK

LEMMA AnsweredOK == ASSUME IInv, NEW j \in Ids, Answered(j) PROVE IInv'
<1>1. /\ task[j].at = "working" /\ copy[j] \notin {"asked", "live"} /\ Same
      /\ task[j].how # "none"
  BY Standing DEF Answered, JobOK, HowOK
<1>2. CASE \E status \in Final : Concludes(j, status)
  BY <1>1, <1>2, ConcludesOK
<1>3. CASE /\ task[j].how = "download" /\ At(j, "confirming")
           /\ job' = [job EXCEPT ![j].err = TRUE, ![j].stop = "set"]
           /\ UNCHANGED <<copy, orphan, tomb, active, slot, disk, events>>
  BY <1>1, <1>3, Standing, AsksToStop
<1>4. CASE /\ ~IsDownload(j) /\ At(j, "verifying")
           /\ UNCHANGED <<job, copy, orphan, tomb, active, slot, disk, events>>
  <2>1. task[j].how \in {"direct", "stream"}
    BY <1>1, <1>4, Standing DEF JobOK, HowOK, TaskState, IsDownload
  <2> QED BY <1>1, <1>4, <2>1, TransferTurns
<1> QED BY <1>2, <1>3, <1>4, OutcomeFinal DEF Answered, Final

LEMMA SeeStopOK == ASSUME IInv, NEW j \in Ids, SeeStop(j) PROVE IInv'
<1>1. Same
  BY DEF SeeStop
<1>2. CASE /\ \/ task[j].at = "stranded"
              \/ task[j].at = "working" /\ task[j].how = "download"
           /\ At(j, "confirming")
           /\ UNCHANGED <<job, copy, orphan, tomb, active, slot, disk, events>>
  <2>1. task[j].how = "download"
    BY <1>2, Standing DEF JobOK, HowOK
  <2> QED BY <1>1, <1>2, <2>1, Standing, AsksToStop
<1>3. CASE /\ task[j].at \in {"working", "verifying"} /\ task[j].how = "direct"
           /\ At(j, "rollback")
           /\ UNCHANGED <<job, copy, orphan, tomb, active, slot, disk, events>>
  BY <1>1, <1>3, TransferTurns
<1>4. CASE /\ task[j].at \in {"working", "verifying"} /\ task[j].how = "stream"
           /\ Concludes(j, "canceled")
  BY <1>1, <1>4, ConcludesOK DEF Final
<1> QED BY <1>2, <1>3, <1>4 DEF SeeStop

LEMMA VerifyOK == ASSUME IInv, NEW j \in Ids, Verify(j) PROVE IInv'
<1>1. task[j].at = "verifying" /\ task[j].how \in {"direct", "stream"} /\ Same
  BY Standing DEF Verify, JobOK, HowOK
<1>2. PICK status \in Final : Concludes(j, status)
  BY DEF Verify, Final
<1> QED BY <1>1, <1>2, ConcludesOK

LEMMA ConfirmedOK == ASSUME IInv, NEW j \in Ids, Confirmed(j) PROVE IInv'
<1>1. /\ task[j].at = "confirming" /\ task[j].how = "download" /\ Same
      /\ j \in tomb /\ copy[j] # "live"
  BY Standing DEF Confirmed, Silent, JobOK, HowOK
<1> QED BY <1>1, OutcomeFinal, ConcludesOK DEF Confirmed

LEMMA DroppedOK == ASSUME IInv, NEW j \in Ids, Dropped(j) PROVE IInv'
<1>1. task[j].at = "working" /\ task[j].at \in Begun /\ Same /\ events' \in 0..MaxEvents
  BY Counted DEF Dropped, Begun
<1>2. CASE task[j].how = "download"
  <2>1. /\ At(j, "confirming") /\ UNCHANGED <<copy, orphan, tomb, active, slot, disk>>
        /\ job' = [job EXCEPT ![j].err = TRUE, ![j].stop = "set"]
    BY <1>2 DEF Dropped
  <2> QED BY <1>1, <1>2, <2>1, AsksToStop
<1>3. CASE task[j].how = "stream"
  <2>1. Closing(j, "failed")
    BY <1>3 DEF Dropped
  <2> QED BY <1>1, <1>3, <2>1, ClosingOK DEF Final
<1>4. CASE task[j].how \notin {"download", "stream"}
  <2>1. Over(j, "failed") /\ Abandon(j) /\ Written
    BY <1>4 DEF Dropped
  <2>2. Ended(j, "failed")
    BY <2>1, OverEnded DEF Final
  <2>3. job[j].kind = "transfer" \/ ~job[j].cancelable
    BY <1>1, <1>4, Standing DEF JobOK, HowOK, TaskState
  <2> QED BY <1>1, <2>1, <2>2, <2>3, Standing, AbandonedOK DEF Same, Final
<1> QED BY <1>2, <1>3, <1>4

LEMMA ConfirmAskedOK == ASSUME IInv, NEW j \in Ids, ConfirmAsked(j) PROVE IInv'
<1>1. /\ tomb' = tomb \cup {j} /\ UNCHANGED <<job, task, copy, orphan, active, slot, rest>>
      /\ task[j].at \in Begun
  BY DEF ConfirmAsked, Begun
<1>2. Walk(j, job[j], task[j], copy[j], orphan[j])
  BY <1>1, Standing DEF Walk, rest
<1>3. AgentOK(job[j], task[j], copy[j], orphan[j], TRUE, j \in adrift)
  BY <1>1, Standing DEF JobOK, AgentOK, StatusOK
<1>4. Fits(j, job[j], task[j], copy[j], orphan[j])
  BY <1>1, <1>3, Standing DEF Fits, JobOK, Unfinished, Open
<1> QED BY <1>2, <1>4, WalkOK

\* Something happens at the agents of job j.
LEMMA ServedOK ==
  ASSUME IInv, NEW j \in Ids, NEW c \in CopyState, NEW o \in OrphanState,
         UNCHANGED <<job, disk, task, tomb, active, slot, dispatcher, stopping, update, adrift, events>>,
         copy' = [copy EXCEPT ![j] = c], orphan' = [orphan EXCEPT ![j] = o], cache' \subseteq Nodes,
         c # "none" => copy[j] # "none",
         c = copy[j] \/ c \notin {"asked", "live"} \/ task[j].at # "leaving",
         o # "none" => orphan[j] # "none",
         job[j].kind = "download" /\ j \in tomb /\ o = "live" => orphan[j] = "live",
         c = "live" \/ o = "live" => Open(j) \/ ~Barred(j)
  PROVE  IInv'
<1>1. Walk(j, job[j], task[j], c, o)
  BY Standing DEF Walk
<1>2. AgentOK(job[j], task[j], c, o, j \in tomb, j \in adrift)
  BY Standing DEF JobOK, AgentOK, OrphanState
<1>3. Fits(j, job[j], task[j], c, o)
  BY <1>2, Standing DEF Fits, JobOK, Unfinished
<1> QED BY <1>1, <1>3, WalkOK

\* The request of a download that leaves is refused.
LEMMA AskedLeaving ==
  ASSUME IInv, NEW j \in Ids, task[j].at = "leaving", copy[j] = "asked"
  PROVE  job[j].kind = "download" /\ j \in tomb
<1> QED BY Standing DEF JobOK, HowOK, AgentOK

LEMMA ArriveOK == ASSUME IInv, NEW j \in Ids, Arrive(j) PROVE IInv'
<1>1. /\ UNCHANGED <<job, disk, task, tomb, active, slot, dispatcher, stopping, update, adrift, events>>
      /\ cache' \subseteq Nodes
  BY Standing DEF Arrive, rest
<1>2. Enters(j) => ~Barred(j) /\ ~(job[j].kind = "download" /\ j \in tomb)
  BY DEF Enters, Refuses, IsDownload
<1>3. ASSUME UNCHANGED orphan, NEW c \in {"refused", "broken", "live"}, copy[j] = "asked",
             copy' = [copy EXCEPT ![j] = c], c = "live" => Enters(j)
      PROVE  IInv'
  <2>1. /\ orphan' = [orphan EXCEPT ![j] = orphan[j]] /\ orphan[j] \in OrphanState
        /\ c \notin {"asked", "live"} \/ task[j].at # "leaving"
    BY <1>2, <1>3, Standing, AskedLeaving
  <2>2. c \in CopyState /\ (c = "live" \/ orphan[j] = "live" => Open(j) \/ ~Barred(j))
    BY <1>2, <1>3 DEF CopyState, Open
  <2> QED BY <1>1, <1>3, <2>1, <2>2, ServedOK
<1>4. ASSUME UNCHANGED copy, NEW o \in {"none", "live"}, orphan[j] = "asked",
             orphan' = [orphan EXCEPT ![j] = o], o = "live" => Enters(j)
      PROVE  IInv'
  <2>1. copy' = [copy EXCEPT ![j] = copy[j]] /\ copy[j] \in CopyState
    BY <1>4, Standing
  <2>2. o \in OrphanState /\ (copy[j] = "live" \/ o = "live" => Open(j) \/ ~Barred(j))
    BY <1>2, <1>4 DEF OrphanState, Open
  <2> QED BY <1>1, <1>2, <1>4, <2>1, <2>2, ServedOK
<1>5. CASE copy[j] = "asked" /\ UNCHANGED orphan /\ Enters(j) /\ copy' = [copy EXCEPT ![j] = "live"]
  BY <1>3, <1>5
<1>6. CASE /\ copy[j] = "asked" /\ UNCHANGED orphan
           /\ copy' = [copy EXCEPT ![j] = IF IsDownload(j) /\ j \in tomb
                                          THEN "refused" ELSE "broken"]
  BY <1>3, <1>6
<1>7. CASE orphan[j] = "asked" /\ UNCHANGED copy /\ orphan' = [orphan EXCEPT ![j] = "none"]
  BY <1>4, <1>7
<1>8. CASE orphan[j] = "asked" /\ UNCHANGED copy /\ Enters(j) /\ orphan' = [orphan EXCEPT ![j] = "live"]
  BY <1>4, <1>8
<1> QED BY <1>5, <1>6, <1>7, <1>8 DEF Arrive

LEMMA LandOK == ASSUME IInv, NEW j \in Ids, NEW ok \in BOOLEAN, Land(j, ok) PROVE IInv'
<1>1. /\ UNCHANGED <<job, disk, task, tomb, active, slot, dispatcher, stopping, update, adrift, events>>
      /\ cache' \subseteq Nodes
  BY Standing DEF Land, JobState
<1>2. CASE /\ copy[j] = "live" /\ UNCHANGED orphan
           /\ copy' = [copy EXCEPT ![j] = IF ok THEN "landed"
                                          ELSE IF IsDownload(j) /\ j \in tomb THEN "refused"
                                          ELSE "broken"]
  <2> DEFINE c == IF ok THEN "landed" ELSE IF IsDownload(j) /\ j \in tomb THEN "refused" ELSE "broken"
  <2>1. c \in CopyState /\ copy' = [copy EXCEPT ![j] = c] /\ c \notin {"asked", "live"}
    BY <1>2 DEF CopyState
  <2>2. orphan' = [orphan EXCEPT ![j] = orphan[j]]
    BY <1>2, Standing
  <2>3. copy[j] # "none" /\ Open(j) /\ orphan[j] \in OrphanState
    BY <1>2, Standing DEF Open
  <2> HIDE DEF c
  <2> QED BY <1>1, <2>1, <2>2, <2>3, ServedOK
<1>3. CASE orphan[j] = "live" /\ UNCHANGED copy /\ orphan' = [orphan EXCEPT ![j] = "none"]
  BY <1>1, <1>3, Standing, ServedOK DEF OrphanState, Open
<1> QED BY <1>2, <1>3 DEF Land

LEMMA CancelQueuedOK == ASSUME IInv, NEW j \in Ids, CancelQueued(j) PROVE IInv'
<1>1. /\ job' = Canceling(job, j)
      /\ UNCHANGED <<task, copy, orphan, tomb, active, slot, cache, dispatcher, stopping, update, adrift>>
      /\ (disk' = disk \/ Written) /\ events' \in 0..MaxEvents
      /\ job[j].status = "queued" /\ Shapes /\ RestOK
  BY SavesOK DEF CancelQueued, work, Same, IInv
<1>2. job'[j] = [job[j] EXCEPT !.status = "canceled", !.err = FALSE]
  BY <1>1 DEF Canceling
<1>11. disk' = [k \in Ids |-> disk'[k]] /\ \A k \in Ids : disk'[k] \in {disk[k], job'[k].status}
  BY <1>1 DEF Written, Shapes
<1>3. \A k \in Ids \ {j} : Beside(k)
  BY <1>1, <1>11 DEF Canceling, Beside, JobKept, AgentKept
<1>4. /\ job'[j] \in JobState /\ job'[j].kind = job[j].kind /\ job'[j].from = job[j].from
      /\ job'[j].to = job[j].to /\ job'[j].after = job[j].after /\ job'[j].status = "canceled"
      /\ job'[j].stop = job[j].stop /\ job'[j].cancelable = job[j].cancelable
  BY <1>2, Standing DEF JobState, Final
<1>5. HowOK(job'[j], task[j]) /\ StatusOK(job'[j], task[j]) /\ DiskOK(job'[j], task[j], disk'[j])
  <2>1. disk[j] \in Active
    BY <1>1, Standing DEF JobOK, StatusOK, DiskOK, Active
  <2> QED BY <1>1, <1>4, <1>11, <2>1, Standing DEF JobOK, HowOK, StatusOK, DiskOK, Begun, Active, Final
<1>6. AgentOK(job'[j], task[j], copy[j], orphan[j], j \in tomb, j \in adrift)
  BY <1>1, <1>4, Standing DEF JobOK, AgentOK
<1>7. JobOK(j)'
  BY <1>1, <1>4, <1>5, <1>6, Standing DEF JobOK
<1>8. CalmAt(j)
  BY <1>1, <1>4 DEF CalmAt, Unfinished, Open, Reserves, IsDownload, Endpoints
<1>9. Shapes'
  BY <1>1, <1>11 DEF Shapes, Canceling, Ids
<1>10. RestOK' /\ active' \subseteq active /\ update' = update
  BY <1>1 DEF RestOK, Ids
<1> QED BY <1>3, <1>7, <1>8, <1>9, <1>10, StepOK

-----------------------------------------------------------------------------
(***************************************************************************)
(* The queue and its dispatcher.                                           *)
(***************************************************************************)
\* The next number is that of no job.
LEMMA LastIsLast ==
  ASSUME IInv
  PROVE  Last \in 0..MaxJobs /\ \A j \in Ids : job[j].kind # "none" <=> j <= Last
<1>1. PICK n \in 0..MaxJobs : {j \in Ids : job[j].kind # "none"} = 1..n
  BY DEF IInv, Numbered
<1>2. n \in Nat /\ n <= MaxJobs
  BY <1>1, Constants
<1>3. Cardinality(1..n) = n
  BY <1>2, FS_Interval
<1>4. Last = n
  BY <1>1, <1>3 DEF Last
<1> QED BY <1>1, <1>2, <1>4 DEF Ids

\* A number that no job has yet.
LEMMA Unused ==
  ASSUME IInv, NEW j \in Ids, job[j].kind = "none"
  PROVE  /\ task[j] = Idle /\ copy[j] = "none" /\ orphan[j] = "none" /\ slot # j
         /\ j \notin adrift
<1> QED BY Standing DEF JobOK, StatusOK, AgentOK, SlotOK, AtAgent, Holding, Idle

LEMMA NewJobOK ==
  ASSUME IInv, NEW j \in Ids, job[j].kind = "none", UNCHANGED work, Written, Same,
         job'[j] \in JobState, job'[j].kind # "none", job'[j].status = "queued",
         job'[j].stop = "none", job'[j].after < j
  PROVE  JobOK(j)'
<1>1. /\ task'[j] = Idle /\ copy'[j] = "none" /\ orphan'[j] = "none" /\ slot' # j
      /\ UNCHANGED <<tomb, adrift>> /\ j \notin adrift /\ disk'[j] = job'[j].status
  BY Unused DEF work, Same, Written
<1>2. task'[j].at = "none" /\ task'[j].how = "none" /\ task'[j] \in TaskState
  BY <1>1 DEF Idle, TaskState
<1>3. /\ HowOK(job'[j], task'[j]) /\ StatusOK(job'[j], task'[j]) /\ SlotOK(task'[j], slot' = j)
      /\ DiskOK(job'[j], task'[j], disk'[j])
  BY <1>1, <1>2, WrittenOK DEF HowOK, StatusOK, SlotOK, Begun
<1>4. AgentOK(job'[j], task'[j], copy'[j], orphan'[j], j \in tomb', j \in adrift')
  BY <1>1 DEF AgentOK
<1> QED BY <1>1, <1>2, <1>3, <1>4 DEF JobOK, CopyState, OrphanState

\* The jobs up to n are new.
LEMMA QueuedOK ==
  ASSUME IInv, UNCHANGED <<work, events>>, Written, Same, job' = [k \in Ids |-> job'[k]],
         NEW n \in 0..MaxJobs, Last <= n,
         \A k \in Ids : k <= Last \/ k > n => job'[k] = job[k],
         \A k \in Ids : Last < k /\ k <= n =>
           /\ job'[k] \in JobState /\ job'[k].kind # "none" /\ job'[k].status = "queued"
           /\ job'[k].stop = "none" /\ job'[k].after < k
  PROVE  IInv'
<1>1. /\ Shapes /\ RestOK /\ Apart /\ QuietOK /\ \A j \in Ids : JobOK(j)
      /\ UNCHANGED <<task, copy, orphan, tomb, active, slot, cache, dispatcher, stopping, update,
                     adrift, events>>
      /\ disk' = [j \in Ids |-> job'[j].status]
  BY DEF IInv, work, Same, Written
<1>2. Last \in 0..MaxJobs /\ \A j \in Ids : job[j].kind # "none" <=> j <= Last
  BY LastIsLast
<1>3. Shapes' /\ RestOK'
  BY <1>1 DEF Shapes, RestOK, Ids
<1>4. ASSUME NEW j \in Ids PROVE JobOK(j)'
  <2>1. CASE job'[j] = job[j]
    <3>1. DiskOK(job'[j], task'[j], disk'[j])
      BY <1>1, <2>1, WrittenOK DEF JobOK
    <3> QED BY <1>1, <2>1, <3>1 DEF JobOK
  <2>2. CASE job'[j] # job[j]
    <3>1. Last < j /\ j <= n
      BY <1>2, <2>2, Constants DEF Ids
    <3>2. job[j].kind = "none"
      BY <1>2, <3>1, Constants DEF Ids
    <3> QED BY <3>1, <3>2, NewJobOK
  <2> QED BY <2>1, <2>2
<1>5. \A j \in Ids : job'[j].kind # "none" <=> j <= n
  BY <1>2, Constants DEF Ids
<1>6. Numbered'
  <2>1. {j \in Ids : job'[j].kind # "none"} = 1..n
    BY <1>5, Constants DEF Ids
  <2> QED BY <2>1 DEF Numbered, Ids
<1>7. \A j \in Ids : Unfinished(j) \/ Open(j) => job'[j] = job[j]
  BY <1>2, Unused, Constants DEF Unfinished, Open, Idle, Ids
<1>8. Apart'
  <2> SUFFICES ASSUME NEW j \in active, NEW k \in active, j # k, Unfinished(j), Unfinished(k)
               PROVE  ~Clash(j, k)'
    BY <1>1 DEF Apart, Unfinished
  <2>1. job'[j] = job[j] /\ job'[k] = job[k] /\ ~Clash(j, k)
    BY <1>1, <1>7 DEF Apart, RestOK
  <2> QED BY <2>1 DEF Clash, Endpoints
<1>9. QuietOK'
  BY <1>1, <1>7 DEF QuietOK, Open, Unfinished, Reserves, IsDownload, Endpoints, Ids
<1> QED BY <1>3, <1>4, <1>6, <1>8, <1>9 DEF IInv, Ids

\* The jobs that are queued.
LEMMA NewJobs ==
  ASSUME NEW s \in Nodes, NEW t \in Nodes, NEW dep \in 0..MaxJobs
  PROVE  /\ NewDownload(s) \in JobState /\ NewDownload(s).kind = "download"
         /\ NewDownload(s).status = "queued" /\ NewDownload(s).stop = "none"
         /\ NewDownload(s).after = 0
         /\ NewTransfer(s, t, dep) \in JobState /\ NewTransfer(s, t, dep).kind = "transfer"
         /\ NewTransfer(s, t, dep).status = "queued" /\ NewTransfer(s, t, dep).stop = "none"
         /\ NewTransfer(s, t, dep).after = dep
<1>1. Controller \in Nodes /\ 0 \in 0..MaxJobs
  BY Constants
<1>2. NoJob \in JobState /\ NoJob.stop = "none" /\ NoJob.after = 0
  BY <1>1 DEF NoJob, JobState
<1>3. /\ NewDownload(s) \in JobState /\ NewDownload(s).kind = "download"
      /\ NewDownload(s).status = "queued" /\ NewDownload(s).stop = "none"
      /\ NewDownload(s).after = 0
  BY <1>2 DEF NewDownload, JobState, Active
<1>4. /\ NewTransfer(s, t, dep) \in JobState /\ NewTransfer(s, t, dep).kind = "transfer"
      /\ NewTransfer(s, t, dep).status = "queued" /\ NewTransfer(s, t, dep).stop = "none"
      /\ NewTransfer(s, t, dep).after = dep
  BY <1>2 DEF NewTransfer, JobState, Active
<1> QED BY <1>3, <1>4

LEMMA OneQueuedOK ==
  ASSUME IInv, NEW b \in JobState, b.kind # "none", b.status = "queued", b.stop = "none", b.after = 0,
         Last < MaxJobs, job' = [job EXCEPT ![Last + 1] = b],
         UNCHANGED <<work, events>>, Written, Same
  PROVE  IInv'
<1>1. Last \in 0..MaxJobs /\ MaxJobs \in Nat
  BY LastIsLast, Constants
<1>2. Last + 1 \in Ids /\ Last + 1 \in 0..MaxJobs /\ Last <= Last + 1
  BY <1>1 DEF Ids
<1>3. job' = [k \in Ids |-> job'[k]] /\ job'[Last + 1] = b
      /\ \A k \in Ids \ {Last + 1} : job'[k] = job[k]
  BY <1>2 DEF IInv, Shapes
<1>4. \A k \in Ids : k <= Last \/ k > Last + 1 => job'[k] = job[k]
  BY <1>1, <1>3 DEF Ids
<1>5. \A k \in Ids : Last < k /\ k <= Last + 1 =>
        /\ job'[k] \in JobState /\ job'[k].kind # "none" /\ job'[k].status = "queued"
        /\ job'[k].stop = "none" /\ job'[k].after < k
  BY <1>1, <1>3 DEF Ids
<1> QED BY <1>2, <1>3, <1>4, <1>5, QueuedOK

LEMMA QueueTransferOK ==
  ASSUME IInv, NEW s \in Nodes, NEW t \in Nodes, QueueTransfer(s, t)
  PROVE  IInv'
<1>1. 0 \in 0..MaxJobs
  BY Constants
<1>2. /\ NewTransfer(s, t, 0) \in JobState /\ NewTransfer(s, t, 0).kind # "none"
      /\ NewTransfer(s, t, 0).status = "queued" /\ NewTransfer(s, t, 0).stop = "none"
      /\ NewTransfer(s, t, 0).after = 0
  BY <1>1, NewJobs
<1>3. /\ Last < MaxJobs /\ job' = [job EXCEPT ![Last + 1] = NewTransfer(s, t, 0)]
      /\ UNCHANGED <<work, events>> /\ Written /\ Same
  BY DEF QueueTransfer
<1> QED BY <1>2, <1>3, OneQueuedOK

LEMMA QueueDownloadOK == ASSUME IInv, NEW n \in Nodes, QueueDownload(n) PROVE IInv'
<1>1. 0 \in 0..MaxJobs
  BY Constants
<1>2. /\ NewDownload(n) \in JobState /\ NewDownload(n).kind # "none"
      /\ NewDownload(n).status = "queued" /\ NewDownload(n).stop = "none" /\ NewDownload(n).after = 0
  BY <1>1, NewJobs
<1>3. /\ Last < MaxJobs /\ job' = [job EXCEPT ![Last + 1] = NewDownload(n)]
      /\ UNCHANGED <<work, events>> /\ Written /\ Same
  BY DEF QueueDownload
<1> QED BY <1>2, <1>3, OneQueuedOK

LEMMA QueueBothOK ==
  ASSUME IInv, NEW n \in Nodes, NEW t \in Nodes, QueueDownloadAndTransfer(n, t)
  PROVE  IInv'
<1>1. /\ Last + 1 < MaxJobs /\ UNCHANGED <<work, events>> /\ Written /\ Same
      /\ job' = [job EXCEPT ![Last + 1] = NewDownload(n), ![Last + 2] = NewTransfer(n, t, Last + 1)]
  BY DEF QueueDownloadAndTransfer
<1>2. Last \in 0..MaxJobs /\ MaxJobs \in Nat
  BY LastIsLast, Constants
<1>3. /\ Last + 1 \in Ids /\ Last + 2 \in Ids /\ Last + 2 \in 0..MaxJobs /\ Last <= Last + 2
      /\ Last + 1 # Last + 2 /\ Last + 1 \in 0..MaxJobs /\ 0 < Last + 1 /\ Last + 1 < Last + 2
  BY <1>1, <1>2 DEF Ids
<1>4. /\ job' = [k \in Ids |-> job'[k]]
      /\ job'[Last + 1] = NewDownload(n) /\ job'[Last + 2] = NewTransfer(n, t, Last + 1)
      /\ \A k \in Ids \ {Last + 1, Last + 2} : job'[k] = job[k]
  BY <1>1, <1>3 DEF IInv, Shapes
<1>5. \A k \in Ids : k <= Last \/ k > Last + 2 => job'[k] = job[k]
  BY <1>2, <1>4 DEF Ids
<1>6. \A k \in Ids : Last < k /\ k <= Last + 2 => k = Last + 1 \/ k = Last + 2
  BY <1>2 DEF Ids
<1>7. \A k \in Ids : Last < k /\ k <= Last + 2 =>
        /\ job'[k] \in JobState /\ job'[k].kind # "none" /\ job'[k].status = "queued"
        /\ job'[k].stop = "none" /\ job'[k].after < k
  BY <1>3, <1>4, <1>6, NewJobs
<1> QED BY <1>1, <1>3, <1>4, <1>5, <1>7, QueuedOK

\* A job whose runner is being created is queued and at rest; a runner that is reaped
\* leaves a job that runs only if it was cut off.
LEMMA PickedOK ==
  ASSUME NEW j \in Ids, JobOK(j), job[j].status = "queued", task[j].at # "created",
         job'[j] = job[j], task'[j] = [at |-> "created", how |-> "none"],
         disk'[j] \in {disk[j], job'[j].status}, UNCHANGED <<copy, orphan, tomb, slot, adrift>>
  PROVE  JobOK(j)'
<1>1. /\ job'[j] = job[j] /\ task'[j].at = "created" /\ task'[j].how = "none"
      /\ task'[j] \in TaskState
  BY DEF TaskState
<1>5. task[j].at \in {"none", "done"} /\ task[j].how # "cut" /\ job[j].kind # "none"
  BY DEF JobOK, StatusOK, TaskState, Begun, Final
<1>2. copy[j] = "none" /\ slot # j /\ job[j].stop = "none" /\ disk[j] \in Active
  BY <1>5 DEF JobOK, StatusOK, AgentOK, SlotOK, DiskOK, AtAgent, Holding, Active
<1>3. HowOK(job[j], task'[j]) /\ StatusOK(job[j], task'[j]) /\ SlotOK(task'[j], slot = j)
  BY <1>1, <1>2, <1>5 DEF HowOK, StatusOK, SlotOK, Begun
<1>6. DiskOK(job[j], task'[j], disk'[j])
  BY <1>1, <1>2, <1>5 DEF DiskOK, Active, Final
<1>4. AgentOK(job[j], task'[j], copy[j], orphan[j], j \in tomb, j \in adrift)
  BY <1>2 DEF JobOK, AgentOK
<1> QED BY <1>1, <1>3, <1>4, <1>6 DEF JobOK

LEMMA ReapedOK ==
  ASSUME NEW j \in Ids, JobOK(j), task[j].at \in {"none", "done"},
         job'[j] = job[j]
           \/ (job[j].status = "queued" /\ job'[j] = [job[j] EXCEPT !.status = "failed"]),
         task'[j] \in {task[j], Reaped(j)}, disk'[j] \in {disk[j], job'[j].status},
         UNCHANGED <<copy, orphan, tomb, slot, adrift>>
  PROVE  JobOK(j)'
<1>1. copy[j] = "none" /\ slot # j /\ task[j] \in TaskState
  BY DEF JobOK, AgentOK, SlotOK, AtAgent, Holding
<1>2. /\ task'[j] \in TaskState /\ task'[j].at \in {"none", "done"}
      /\ task'[j].how \in {"none", task[j].how}
      /\ task[j].how = "cut" => task'[j].how = "cut"
      /\ job[j].kind = "none" => task'[j] = Idle
  BY <1>1 DEF JobOK, StatusOK, Reaped, Idle, TaskState
<1>3. /\ job'[j] \in JobState /\ job'[j].kind = job[j].kind /\ job'[j].after = job[j].after
      /\ job'[j].cancelable = job[j].cancelable /\ job'[j].stop = job[j].stop
      /\ job'[j].status = job[j].status \/ (job[j].status = "queued" /\ job'[j].status = "failed")
      /\ job'[j].to = job[j].to
  BY DEF JobOK, JobState, Final
<1>4. HowOK(job'[j], task'[j]) /\ SlotOK(task'[j], slot = j)
  BY <1>1, <1>2, <1>3 DEF JobOK, HowOK, SlotOK
<1>7. StatusOK(job'[j], task'[j])
  BY <1>2, <1>3 DEF JobOK, StatusOK, Begun, Final
<1>6. DiskOK(job'[j], task'[j], disk'[j])
  <2>1. CASE disk'[j] = job'[j].status
    BY <1>3, <1>7, <2>1, WrittenOK
  <2>2. CASE disk'[j] = disk[j]
    BY <1>2, <1>3, <2>2 DEF JobOK, StatusOK, DiskOK, Active, Final
  <2> QED BY <2>1, <2>2
<1>5. AgentOK(job'[j], task'[j], copy[j], orphan[j], j \in tomb, j \in adrift)
  BY <1>1, <1>3 DEF JobOK, AgentOK
<1> QED BY <1>2, <1>3, <1>4, <1>5, <1>6, <1>7 DEF JobOK

LEMMA DispatchOK == ASSUME IInv, Dispatch PROVE IInv'
<1>1. /\ Shapes /\ RestOK /\ Apart /\ QuietOK /\ \A j \in Ids : JobOK(j)
      /\ UNCHANGED <<copy, orphan, tomb, slot, cache, dispatcher, update, adrift, events>>
      /\ \A j \in Ids : task[j].at # "created"
      /\ stopping' = stopping \ (active \ Kept)
      /\ disk' = [j \in Ids |-> disk'[j]] /\ \A j \in Ids : disk'[j] \in {disk[j], job'[j].status}
  BY DEF IInv, Dispatch, Written, Shapes
<1>2. PICK picked \in IF Held(Controller) THEN {{}} ELSE {P \in SUBSET Ready : Picks(P)} :
        /\ active' = Kept \cup picked
        /\ task' = [j \in Ids |-> IF j \in picked THEN [at |-> "created", how |-> "none"]
                                  ELSE IF j \in active \ Kept THEN Reaped(j) ELSE task[j]]
  BY DEF Dispatch
<1>3. /\ picked \subseteq Ready /\ (Held(Controller) => picked = {})
      /\ \A j \in picked, k \in Kept \cup picked : k \in Kept \/ k < j => ~Clash(j, k)
  BY <1>2 DEF Picks
<1>4. job' = [j \in Ids |-> IF Doomed(j) /\ ~Held(Controller)
                            THEN [job[j] EXCEPT !.status = "failed"] ELSE job[j]]
  BY DEF Dispatch
<1>5. \A j \in picked : j \in Ids /\ job[j].status = "queued" /\ ~Doomed(j)
  BY <1>3 DEF Ready, Doomed
<1>6. \A j \in Kept : j \in Ids /\ j \in active /\ Unfinished(j)
  BY <1>1 DEF Kept, RestOK
<1>7. ASSUME NEW j \in Ids PROVE JobOK(j)'
  <2>1. job'[j] = job[j] \/ (Doomed(j) /\ job'[j] = [job[j] EXCEPT !.status = "failed"])
    BY <1>4
  <2>2. CASE j \in picked
    <3>1. task'[j] = [at |-> "created", how |-> "none"] /\ job'[j] = job[j]
      BY <1>2, <1>5, <2>1, <2>2
    <3> QED BY <1>1, <1>5, <2>2, <3>1, PickedOK
  <2>3. CASE j \notin picked /\ ~Unfinished(j)
    <3>1. task'[j] \in {task[j], Reaped(j)}
      BY <1>2, <2>3
    <3>2. task[j].at \in {"none", "done"} /\ (Doomed(j) => job[j].status = "queued")
      BY <2>3 DEF Unfinished, Doomed
    <3> QED BY <1>1, <2>1, <3>1, <3>2, ReapedOK
  <2>4. CASE j \notin picked /\ Unfinished(j)
    <3>1. task'[j] = task[j]
      BY <1>2, <2>4 DEF Kept
    <3>2. job[j].status # "queued"
      BY <1>1, <2>4 DEF JobOK, StatusOK, Begun, Final, Unfinished, TaskState
    <3>3. job'[j] = job[j]
      BY <2>1, <3>2 DEF Doomed
    <3>4. DiskOK(job'[j], task'[j], disk'[j])
      BY <1>1, <3>1, <3>3, WrittenOK DEF JobOK
    <3> QED BY <1>1, <3>1, <3>3, <3>4 DEF JobOK
  <2> QED BY <2>2, <2>3, <2>4
<1>8. \A j \in Ids : /\ Endpoints(j)' = Endpoints(j) /\ job'[j].kind = job[j].kind
                     /\ job'[j].cancelable = job[j].cancelable
  <2> SUFFICES ASSUME NEW j \in Ids
               PROVE  /\ Endpoints(j)' = Endpoints(j) /\ job'[j].kind = job[j].kind
                      /\ job'[j].cancelable = job[j].cancelable
    OBVIOUS
  <2>1. job'[j] = job[j] \/ job'[j] = [job[j] EXCEPT !.status = "failed"]
    BY <1>4
  <2>2. job[j] \in JobState
    BY <1>1 DEF JobOK
  <2> QED BY <2>1, <2>2 DEF JobState, Endpoints
<1>9. Shapes'
  BY <1>1, <1>2, <1>4 DEF Shapes, Ids
<1>10. RestOK'
  BY <1>1, <1>2, <1>5, <1>6 DEF RestOK, Ids
<1>11. Numbered'
  <2>1. {j \in Ids : job'[j].kind # "none"} = {j \in Ids : job[j].kind # "none"}
    BY <1>8
  <2> QED BY <2>1 DEF IInv, Numbered, Ids
<1>12. Apart'
  <2> SUFFICES ASSUME NEW j \in active', NEW k \in active', j # k PROVE ~Clash(j, k)'
    BY DEF Apart
  <2>1. j \in Kept \cup picked /\ k \in Kept \cup picked /\ j \in Ids /\ k \in Ids
    BY <1>2, <1>5, <1>6
  <2>2. Clash(j, k) <=> Clash(k, j)
    BY DEF Clash
  <2>3. j < k \/ k < j
    BY <2>1, Constants DEF Ids
  <2>4. j \in Kept /\ k \in Kept => ~Clash(j, k)
    BY <1>1, <1>6 DEF Apart
  <2>5. ~Clash(j, k)
    BY <1>3, <2>1, <2>2, <2>3, <2>4
  <2> QED BY <1>8, <2>1, <2>5 DEF Clash
<1>13. QuietOK'
  <2> SUFFICES ASSUME update.phase = "quiet"
               PROVE  /\ \A j \in Ids : Reserves(j) /\ Open(j) => update.node \notin Endpoints(j)
                      /\ update.node = Controller => active' = {}
    BY <1>1, <1>8 DEF QuietOK, Open, Unfinished, Reserves, IsDownload, Ids
  <2>1. update.node = Controller => Held(Controller) /\ Kept = {}
    BY <1>1 DEF QuietOK, Held, Kept
  <2> QED BY <1>1, <1>2, <1>3, <2>1 DEF QuietOK
<1> QED BY <1>7, <1>9, <1>10, <1>11, <1>12, <1>13 DEF IInv, Ids

LEMMA DispatchFailsOK == ASSUME IInv, NEW j \in Ids, DispatchFails(j) PROVE IInv'
<1>1. /\ job' = [job EXCEPT ![j].status = "failed"] /\ job[j].status = "queued"
      /\ UNCHANGED <<task, copy, orphan, tomb, active, slot, disk, cache, stopping, update, adrift>>
      /\ dispatcher' = FALSE /\ events' \in 0..MaxEvents /\ task[j].at # "created"
      /\ Shapes /\ RestOK
  BY Counted DEF DispatchFails, Doomed, work, IInv
<1>2. /\ job'[j] = [job[j] EXCEPT !.status = "failed"]
      /\ \A k \in Ids \ {j} : job'[k] = job[k]
  BY <1>1 DEF Shapes
<1>3. task[j].at \in {"none", "done"}
  BY <1>1, Standing DEF JobOK, StatusOK, TaskState, Begun, Final
<1>4. JobOK(j)'
  BY <1>1, <1>2, <1>3, Standing, ReapedOK
<1>5. CalmAt(j)
  BY <1>1, <1>2, Standing DEF CalmAt, Unfinished, Open, Reserves, IsDownload, Endpoints, JobState
<1>6. \A k \in Ids \ {j} : Beside(k)
  BY <1>1, <1>2 DEF Beside, JobKept, AgentKept
<1>7. Shapes' /\ RestOK'
  BY <1>1 DEF Shapes, RestOK, Ids
<1> QED BY <1>1, <1>4, <1>5, <1>6, <1>7, StepOK

-----------------------------------------------------------------------------
(***************************************************************************)
(* Updates, stops and starts of the queue, and crashes.                    *)
(***************************************************************************)
LEMMA StandingJobs ==
  ASSUME IInv, UNCHANGED <<job, disk, task, copy, orphan, tomb, slot, adrift>>
  PROVE  Shapes' /\ Numbered' /\ \A j \in Ids : JobOK(j)'
<1> QED BY DEF IInv, Shapes, Numbered, JobOK, Ids

LEMMA UpdatesOK ==
  ASSUME IInv, (\E n \in Nodes : ReserveUpdate(n)) \/ StartUpdate \/ EndUpdate
  PROVE  IInv'
<1>1. /\ UNCHANGED <<job, disk, task, copy, orphan, tomb, active, slot, cache, dispatcher,
                     stopping, adrift>>
      /\ events' \in 0..MaxEvents
  BY Counted DEF ReserveUpdate, StartUpdate, EndUpdate, work, IInv, RestOK
<1>2. update' \in [node : Nodes, phase : {"open", "reserved", "quiet"}]
  BY Constants DEF ReserveUpdate, StartUpdate, EndUpdate, NoUpdate, IInv, RestOK
<1>3. Shapes' /\ Numbered' /\ \A j \in Ids : JobOK(j)'
  BY <1>1, StandingJobs
<1>4. RestOK'
  BY <1>1, <1>2 DEF IInv, RestOK, Ids
<1>5. Apart'
  BY <1>1 DEF IInv, Apart, Unfinished, Clash, Endpoints
<1>6. QuietOK'
  <2> SUFFICES ASSUME update'.phase = "quiet"
               PROVE  /\ \A j \in Ids : Reserves(j) /\ Open(j) => update'.node \notin Endpoints(j)
                      /\ update'.node = Controller => \A j \in active : ~Unfinished(j)
    BY <1>1 DEF QuietOK, Open, Unfinished, Reserves, IsDownload, Endpoints, Ids
  <2>1. StartUpdate
    BY DEF ReserveUpdate, EndUpdate, NoUpdate
  <2>2. update'.node = update.node
    BY <2>1 DEF StartUpdate, IInv, RestOK
  <2> QED BY <2>1, <2>2 DEF StartUpdate
<1> QED BY <1>3, <1>4, <1>5, <1>6 DEF IInv, Ids

LEMMA StartStopEndsOK == ASSUME IInv, Start \/ StopEnds PROVE IInv'
<1>1. RestOK /\ 0 \in 0..MaxJobs
  BY Constants DEF IInv
<1>2. UNCHANGED <<job, disk, task, copy, orphan, tomb, slot, cache, update, adrift, events>>
  BY DEF Start, StopEnds, work
<1>3. active' = active \/ active' = {}
  BY DEF Start, StopEnds, work
<1>4. dispatcher' \in BOOLEAN /\ stopping' \subseteq 0..MaxJobs
  BY <1>1 DEF Start, StopEnds, NotStopping, RestOK
<1>5. Shapes' /\ \A j \in Ids : JobOK(j)'
  BY <1>2, StandingJobs
<1>6. RestOK'
  BY <1>1, <1>2, <1>3, <1>4 DEF RestOK, Ids
<1>7. Calm
  BY <1>2, <1>3 DEF Calm, Unfinished, Open, Reserves, IsDownload, Endpoints
<1> QED BY <1>5, <1>6, <1>7, CalmOK DEF IInv, Ids

\* A cancelled task leaves job j where the queue finds it again, or cuts it off.
LEMMA LeftOK ==
  ASSUME NEW j \in Ids, JobOK(j), Requeues(j) \/ Vanishes(j),
         job'[j] = IF Requeues(j) THEN Requeued(job[j])
                   ELSE IF task[j].at = "rollback" THEN [job[j] EXCEPT !.stop = "none"] ELSE job[j],
         task'[j] = [at |-> "done", how |-> IF Cut(j) THEN "cut" ELSE "none"],
         copy'[j] = "none", orphan'[j] = Left(j), disk'[j] \in {disk[j], job'[j].status},
         UNCHANGED <<tomb, adrift>>, slot' # j
  PROVE  JobOK(j)'
<1>1. /\ task'[j] \in TaskState /\ task'[j].at = "done"
      /\ task'[j].how = IF Cut(j) THEN "cut" ELSE "none"
  BY DEF TaskState
<1>2. /\ Requeues(j) => job[j].status = "running" /\ ~Cut(j)
      /\ ~Requeues(j) => \/ task[j].at = "created" /\ ~Cut(j)
                         \/ task[j].at \in {"rollback", "closing"} /\ Cut(j)
  BY DEF Requeues, Vanishes, Cut, JobOK, StatusOK, Begun
<1>3. /\ job'[j] \in JobState /\ job'[j].kind = job[j].kind /\ job'[j].after = job[j].after
      /\ job'[j].cancelable = job[j].cancelable /\ (~Cut(j) => job'[j].stop = "none")
      /\ job'[j].status = IF Requeues(j) THEN "queued" ELSE job[j].status
      /\ job'[j].to = job[j].to
  <2>1. CASE Requeues(j)
    <3>1. job'[j] = [job[j] EXCEPT !.status = "queued", !.stop = "none", !.err = FALSE]
      BY <1>2, <2>1 DEF Requeued, JobOK, JobState
    <3> QED BY <2>1, <3>1 DEF JobOK, JobState, Active
  <2>2. CASE ~Requeues(j)
    BY <1>2, <2>2 DEF JobOK, StatusOK, JobState
  <2> QED BY <2>1, <2>2
<1>4. job[j].kind # "none"
  BY DEF Requeues, Vanishes, JobOK, StatusOK, Idle
<1>12. ~Requeues(j) => IF Cut(j) THEN job[j].status \in Final \cup {"running"}
                                 ELSE job[j].status \in {"queued", "canceled"}
  BY <1>2 DEF JobOK, StatusOK, Begun
<1>5. HowOK(job'[j], task'[j])
  BY <1>1 DEF HowOK
<1>6. StatusOK(job'[j], task'[j])
  BY <1>1, <1>2, <1>3, <1>4, <1>12 DEF JobOK, StatusOK, Begun, Final
<1>13. DiskOK(job'[j], task'[j], disk'[j])
  <2>1. task[j].how # "cut"
    BY DEF Requeues, Vanishes, JobOK, HowOK
  <2> QED BY <1>1, <1>2, <1>3, <1>6, <1>12, <2>1, WrittenOK DEF JobOK, DiskOK, Active, Final
<1>7. job[j].kind = "download" => copy[j] = "none" \/ task[j].at = "leaving"
  BY DEF Requeues, Vanishes, JobOK, AgentOK, HowOK, AtAgent
<1>8. job[j].kind = "download" =>
        \/ orphan'[j] = orphan[j]
        \/ j \in tomb /\ (orphan'[j] = "asked" \/ orphan[j] = "live")
  BY <1>7 DEF JobOK, AgentOK, Left
<1>9. job[j].kind = "download" => job[j].status # "failed"
  BY <1>12 DEF Requeues, Vanishes, JobOK, HowOK, StatusOK, Begun
<1>10. AgentOK(job'[j], task'[j], copy'[j], orphan'[j], j \in tomb, j \in adrift)
  BY <1>1, <1>3, <1>4, <1>8, <1>9 DEF JobOK, AgentOK
<1>11. copy'[j] \in CopyState /\ orphan'[j] \in OrphanState /\ SlotOK(task'[j], slot' = j)
  BY DEF JobOK, Left, CopyState, OrphanState, SlotOK
<1>14. job'[j].after < j /\ (j \in adrift' => job'[j].to # Controller)
  BY <1>3 DEF JobOK
<1> QED BY <1>1, <1>3, <1>5, <1>6, <1>10, <1>11, <1>13, <1>14 DEF JobOK

LEMMA StopOK == ASSUME IInv, Stop PROVE IInv'
<1> DEFINE told == {j \in active : Unfinished(j)}
           gone == {j \in told : Requeues(j) \/ Vanishes(j)}
<1>1. /\ Shapes /\ RestOK /\ (\A j \in Ids : JobOK(j)) /\ UNCHANGED <<tomb, active, cache, update, adrift>>
      /\ events' \in 0..MaxEvents /\ dispatcher' = FALSE /\ stopping' = told
  BY Counted DEF IInv, Stop
<1>2. /\ job' = [j \in Ids |-> IF j \in told /\ Requeues(j) THEN Requeued(job[j])
                               ELSE IF j \in gone /\ task[j].at = "rollback"
                               THEN [job[j] EXCEPT !.stop = "none"] ELSE job[j]]
      /\ task' = [j \in Ids |-> IF j \in gone
                                THEN [at |-> "done", how |-> IF Cut(j) THEN "cut" ELSE "none"]
                                ELSE IF j \in told /\ Lingers(j) THEN [task[j] EXCEPT !.at = "stopping"]
                                ELSE task[j]]
      /\ orphan' = [j \in Ids |-> IF j \in gone THEN Left(j) ELSE orphan[j]]
      /\ copy' = [j \in Ids |-> IF j \in gone THEN "none" ELSE copy[j]]
      /\ slot \notin gone => slot' = slot
      /\ slot \in gone => slot' \in {0, Nobody}
      /\ disk' = disk \/ Written
  BY DEF Stop
<1>3. gone \subseteq told /\ told \subseteq Ids
      /\ (\A j \in told : Requeues(j) \/ Vanishes(j) => j \in gone)
      /\ (\A j \in gone : Requeues(j) \/ Vanishes(j)) /\ (\A j \in told : Unfinished(j))
  BY <1>1 DEF RestOK
<1> HIDE DEF gone, told
<1>4. /\ \A j \in Ids : (j \in gone => slot' # j) /\ (j \notin gone => (slot' = j) = (slot = j))
      /\ slot' \in 0..Nobody
  BY <1>1, <1>2, Constants DEF RestOK, Ids, Nobody
<1>9. disk' = [j \in Ids |-> disk'[j]] /\ \A j \in Ids : disk'[j] \in {disk[j], job'[j].status}
  BY <1>1, <1>2 DEF Written, Shapes
<1>5. ASSUME NEW j \in Ids
      PROVE  /\ JobOK(j)' /\ job'[j].kind = job[j].kind /\ job'[j].from = job[j].from
             /\ job'[j].to = job[j].to /\ job'[j].cancelable = job[j].cancelable
             /\ (Unfinished(j)' => Unfinished(j)) /\ (Open(j)' => Open(j))
  <2>1. CASE j \in gone
    <3>1. /\ job'[j] = IF Requeues(j) THEN Requeued(job[j])
                       ELSE IF task[j].at = "rollback" THEN [job[j] EXCEPT !.stop = "none"] ELSE job[j]
          /\ task'[j] = [at |-> "done", how |-> IF Cut(j) THEN "cut" ELSE "none"]
          /\ copy'[j] = "none" /\ orphan'[j] = Left(j)
      BY <1>2, <1>3, <2>1
    <3>2. JobOK(j)'
      BY <1>1, <1>3, <1>4, <1>9, <2>1, <3>1, LeftOK
    <3>3. /\ job'[j].kind = job[j].kind /\ job'[j].from = job[j].from /\ job'[j].to = job[j].to
          /\ job'[j].cancelable = job[j].cancelable
      BY <1>1, <3>1 DEF Requeued, JobOK, JobState
    <3>4. task'[j].at = "done" /\ (Open(j)' => Open(j))
      BY <1>1, <3>1 DEF Open, Left
    <3> QED BY <3>2, <3>3, <3>4 DEF Unfinished
  <2>2. CASE j \notin gone /\ j \in told /\ Lingers(j)
    <3>1. /\ job'[j] = job[j] /\ task'[j] = [task[j] EXCEPT !.at = "stopping"]
          /\ copy'[j] = copy[j] /\ orphan'[j] = orphan[j] /\ (slot' = j) = (slot = j)
      BY <1>2, <1>3, <1>4, <2>2
    <3>2. /\ task'[j] \in TaskState /\ task'[j].at = "stopping" /\ task'[j].how = task[j].how
          /\ task[j].at \in {"confirming", "stranded", "working"} /\ task[j].how = "download"
      BY <1>1, <2>2, <3>1 DEF Lingers, JobOK, HowOK, TaskState
    <3>3. HowOK(job[j], task'[j]) /\ StatusOK(job[j], task'[j])
      BY <1>1, <3>2 DEF JobOK, HowOK, StatusOK, Begun
    <3>4. AgentOK(job[j], task'[j], copy[j], orphan[j], j \in tomb, j \in adrift)
      BY <1>1, <3>2 DEF JobOK, AgentOK, AtAgent
    <3>5. SlotOK(task'[j], slot = j)
      BY <1>1, <3>2 DEF JobOK, SlotOK, Holding
    <3>7. DiskOK(job'[j], task'[j], disk'[j])
      BY <1>1, <1>9, <3>1, <3>2, <3>3, WrittenOK DEF JobOK, DiskOK
    <3>6. JobOK(j)'
      BY <1>1, <3>1, <3>2, <3>3, <3>4, <3>5, <3>7 DEF JobOK
    <3> QED BY <1>3, <2>2, <3>1, <3>6 DEF Open
  <2>3. CASE j \notin gone /\ ~(j \in told /\ Lingers(j))
    <3>1. /\ job'[j] = job[j] /\ task'[j] = task[j]
          /\ copy'[j] = copy[j] /\ orphan'[j] = orphan[j] /\ (slot' = j) = (slot = j)
      BY <1>2, <1>3, <1>4, <2>3
    <3>2. DiskOK(job'[j], task'[j], disk'[j])
      BY <1>1, <1>9, <3>1, WrittenOK DEF JobOK
    <3> QED BY <1>1, <3>1, <3>2 DEF JobOK, Open, Unfinished
  <2> QED BY <2>1, <2>2, <2>3
<1>6. Calm
  BY <1>1, <1>5 DEF Calm, Reserves, IsDownload, Endpoints
<1>7. Shapes'
  BY <1>2, <1>9 DEF Shapes, Ids
<1>8. RestOK'
  <2>1. told \subseteq 0..MaxJobs
    BY <1>3, Constants DEF Ids
  <2> QED BY <1>1, <1>4, <2>1 DEF RestOK, Ids, Nobody
<1> QED BY <1>5, <1>6, <1>7, <1>8, CalmOK DEF IInv, Ids

LEMMA CrashOK == ASSUME IInv, Crash PROVE IInv'
<1> DEFINE outlives == [j \in Ids |-> IF job[j].to = Controller THEN "none" ELSE Left(j)]
<1>1. /\ Shapes /\ RestOK /\ \A j \in Ids : JobOK(j)
      /\ events' \in 0..MaxEvents
  BY Counted DEF IInv, Crash
<1>10. /\ \A j \in Ids : job'[j] = [job[j] EXCEPT !.status = Reloaded(j), !.stop = "none", !.err = FALSE]
       /\ job' = [j \in Ids |-> job'[j]]
  BY DEF Crash
<1>2. /\ disk' = [j \in Ids |-> job'[j].status]
      /\ task' = [j \in Ids |-> Idle] /\ copy' = [j \in Ids |-> "none"] /\ orphan' = outlives
      /\ active' = {} /\ slot' = 0 /\ dispatcher' = TRUE /\ stopping' = NotStopping
      /\ update' = IF update.node = Controller THEN NoUpdate ELSE update
      /\ adrift' = adrift \cup {j \in Ids : outlives[j] # "none"}
      /\ UNCHANGED <<tomb, cache>>
  BY DEF Crash, Written
<1>3. /\ \A j \in Ids : outlives[j] \in {"none", Left(j)}
      /\ outlives = [j \in Ids |-> outlives[j]]
  OBVIOUS
<1> HIDE DEF outlives
<1>4. ASSUME NEW j \in Ids
      PROVE  /\ JobOK(j)' /\ job'[j].kind = job[j].kind /\ Endpoints(j)' = Endpoints(j)
             /\ job'[j].cancelable = job[j].cancelable /\ (Open(j)' => Open(j))
  <2>1. /\ task'[j] = Idle /\ copy'[j] = "none" /\ orphan'[j] \in {"none", Left(j)} /\ slot' # j
        /\ orphan'[j] # "none" => j \in adrift'
    <3>1. 0 # j
      BY DEF Ids
    <3> QED BY <1>2, <1>3, <3>1
  <2>2. task'[j] \in TaskState /\ task'[j].at = "none" /\ task'[j].how = "none"
    BY <2>1 DEF Idle, TaskState
  <2>3. /\ job'[j] \in JobState /\ job'[j].kind = job[j].kind /\ job'[j].after = job[j].after
        /\ job'[j].from = job[j].from /\ job'[j].to = job[j].to /\ job'[j].stop = "none"
        /\ job'[j].cancelable = job[j].cancelable
        /\ job'[j].status = Reloaded(j) /\ Reloaded(j) \in {"none", "queued"} \cup Final
        /\ Reloaded(j) = "none" <=> job[j].kind = "none"
    <3>1. Reloaded(j) \in {"none", "queued"} \cup Final /\ (Reloaded(j) = "none" <=> job[j].kind = "none")
      BY <1>1 DEF JobOK, DiskOK, Reloaded, Active, Final
    <3>2. job'[j] = [job[j] EXCEPT !.status = Reloaded(j), !.stop = "none", !.err = FALSE]
      BY <1>10
    <3> HIDE DEF Reloaded
    <3> QED BY <1>1, <3>1, <3>2 DEF JobOK, JobState, Active
  <2>4. HowOK(job'[j], task'[j]) /\ StatusOK(job'[j], task'[j]) /\ SlotOK(task'[j], slot' = j)
    BY <1>1, <2>1, <2>2, <2>3 DEF JobOK, HowOK, StatusOK, SlotOK, Begun, Final
  <2>8. DiskOK(job'[j], task'[j], disk'[j])
    BY <1>2, <2>3, <2>4, WrittenOK
  <2>9. /\ job[j].kind = "none" => j \notin adrift'
        /\ j \in adrift' => job[j].to # Controller
    <3>1. job[j].kind = "none" => Left(j) = "none" /\ j \notin adrift
      BY <1>1 DEF JobOK, AgentOK, StatusOK, AtAgent, Idle, Left
    <3>2. outlives[j] = IF job[j].to = Controller THEN "none" ELSE Left(j)
      BY DEF outlives
    <3>3. j \in adrift' <=> j \in adrift \/ outlives[j] # "none"
      BY <1>2
    <3>4. j \in adrift => job[j].to # Controller
      BY <1>1 DEF JobOK
    <3> QED BY <3>1, <3>2, <3>3, <3>4
  <2>5. /\ orphan'[j] \in OrphanState /\ (Open(j)' => Open(j))
        /\ job[j].kind = "none" => orphan'[j] = "none"
    BY <1>1, <2>1 DEF JobOK, StatusOK, AgentOK, AtAgent, Idle, Left, Open, OrphanState
  <2>6. AgentOK(job'[j], task'[j], copy'[j], orphan'[j], j \in tomb, j \in adrift')
    BY <2>1, <2>2, <2>3, <2>5, <2>9 DEF AgentOK
  <2>7. JobOK(j)'
    BY <1>1, <1>2, <2>1, <2>2, <2>3, <2>4, <2>5, <2>6, <2>8, <2>9 DEF JobOK, CopyState
  <2> QED BY <2>3, <2>5, <2>7 DEF Endpoints
<1>5. Shapes'
  <2>1. disk' = [j \in Ids |-> disk'[j]]
    BY <1>2
  <2> QED BY <1>2, <1>3, <1>10, <2>1 DEF Shapes, Ids
<1>6. RestOK'
  <2>1. update' \in [node : Nodes, phase : {"open", "reserved", "quiet"}]
    BY <1>1, <1>2, Constants DEF NoUpdate, RestOK
  <2>2. 0 \in 0..MaxJobs
    BY Constants
  <2>3. adrift' \subseteq Ids
    BY <1>1, <1>2 DEF RestOK
  <2>4. slot' \in 0..Nobody
    BY <1>2, Constants DEF Nobody
  <2>5. stopping' \subseteq 0..MaxJobs /\ active' \subseteq Ids /\ dispatcher' \in BOOLEAN
    BY <1>2, <2>2 DEF NotStopping
  <2> QED BY <1>1, <1>2, <2>1, <2>3, <2>4, <2>5 DEF RestOK, Ids, Nobody
<1>7. Numbered'
  <2>1. {j \in Ids : job'[j].kind # "none"} = {j \in Ids : job[j].kind # "none"}
    BY <1>4
  <2> QED BY <2>1 DEF IInv, Numbered, Ids
<1>8. Apart'
  BY <1>2 DEF Apart
<1>9. QuietOK'
  <2> SUFFICES ASSUME update'.phase = "quiet"
               PROVE  \A j \in Ids : Reserves(j)' /\ Open(j)' => update'.node \notin Endpoints(j)'
    BY <1>2 DEF QuietOK, Ids
  <2>1. update' = update
    BY <1>2 DEF NoUpdate
  <2> QED BY <1>4, <2>1 DEF IInv, QuietOK, Reserves, IsDownload
<1> QED BY <1>4, <1>5, <1>6, <1>7, <1>8, <1>9 DEF IInv, Ids

-----------------------------------------------------------------------------
(***************************************************************************)
(* The invariant, and what follows from it.                                *)
(***************************************************************************)
LEMMA InitIInv == Init => IInv
<1> SUFFICES ASSUME Init PROVE IInv
  OBVIOUS
<1>1. /\ job = [j \in Ids |-> NoJob] /\ task = [j \in Ids |-> Idle]
      /\ disk = [j \in Ids |-> "none"]
      /\ copy = [j \in Ids |-> "none"] /\ orphan = [j \in Ids |-> "none"]
      /\ tomb = {} /\ active = {} /\ slot = 0 /\ adrift = {}
      /\ cache \subseteq Nodes /\ dispatcher = TRUE /\ stopping = {0} /\ update = NoUpdate /\ events = 0
  BY DEF Init, NotStopping
<1>2. /\ 0 \in 0..MaxJobs /\ 0 \in 0..MaxEvents
      /\ NoUpdate \in [node : Nodes, phase : {"open", "reserved", "quiet"}]
  BY Constants DEF NoUpdate
<1>3. /\ NoJob \in JobState /\ NoJob.kind = "none" /\ NoJob.status = "none"
      /\ NoJob.stop = "none" /\ NoJob.after = 0
  BY <1>2, Constants DEF NoJob, JobState
<1>4. Idle \in TaskState /\ Idle.at = "none" /\ Idle.how = "none"
  BY DEF Idle, TaskState
<1>5. ASSUME NEW j \in Ids PROVE JobOK(j)
  <2>1. job[j] = NoJob /\ task[j] = Idle /\ copy[j] = "none" /\ orphan[j] = "none" /\ slot # j /\ 0 < j
        /\ disk[j] = "none" /\ j \notin adrift
    BY <1>1, Constants DEF Ids
  <2> QED BY <1>3, <1>4, <2>1, WrittenOK DEF JobOK, HowOK, StatusOK, AgentOK, SlotOK, CopyState, OrphanState, Begun
<1>6. Shapes
  BY <1>1 DEF Shapes
<1>7. RestOK
  BY <1>1, <1>2, Constants DEF RestOK, Nobody
<1>8. Numbered
  <2>1. {j \in Ids : job[j].kind # "none"} = {}
    BY <1>1, <1>3
  <2>2. 1..0 = {}
    OBVIOUS
  <2> QED BY <1>2, <2>1, <2>2 DEF Numbered
<1>9. Apart
  BY <1>1 DEF Apart
<1>10. QuietOK
  BY <1>1 DEF QuietOK, NoUpdate
<1> QED BY <1>5, <1>6, <1>7, <1>8, <1>9, <1>10 DEF IInv

LEMMA RunsOK == ASSUME IInv, NEW j \in Ids, Runs(j) PROVE IInv'
<1>1. CASE \E cancelable \in BOOLEAN : Begin(j, cancelable)
  BY <1>1, BeginOK
<1>2. CASE \E cancelable \in BOOLEAN, capped \in Caps : StartDownload(j, cancelable, capped)
  BY <1>2, StartDownloadOK
<1>3. CASE \E how \in {"direct", "stream"} : StartTransfer(j, how)
  BY <1>3, StartTransferOK
<1>4. CASE Prepare(j) \/ GrantSlot(j) \/ LeaveSlot(j) \/ UseSlot(j)
  BY <1>4, PrepareOK, GrantSlotOK, LeaveSlotOK, UseSlotOK
<1>5. CASE Answered(j) \/ SeeStop(j) \/ Verify(j)
  BY <1>5, AnsweredOK, SeeStopOK, VerifyOK
<1>6. CASE ConfirmAsked(j) \/ Confirmed(j) \/ RolledBack(j) \/ StopConfirmed(j)
  BY <1>6, ConfirmAskedOK, ConfirmedOK, RolledBackOK, StopConfirmedOK
<1>7. CASE SaveProgress(j) \/ Leave(j) \/ Close(j)
  BY <1>7, SaveProgressOK, LeaveOK, CloseOK
<1> QED BY <1>1, <1>2, <1>3, <1>4, <1>5, <1>6, <1>7 DEF Runs

LEMMA NextIInv == IInv /\ [Next]_vars => IInv'
<1> SUFFICES ASSUME IInv, [Next]_vars PROVE IInv'
  OBVIOUS
<1>1. CASE UNCHANGED vars
  <2>1. Shapes' /\ Numbered' /\ \A j \in Ids : JobOK(j)'
    BY <1>1, StandingJobs DEF vars
  <2>2. RestOK'
    BY <1>1 DEF vars, IInv, RestOK, Ids
  <2>3. Apart' /\ QuietOK'
    BY <1>1 DEF vars, IInv, Apart, QuietOK, Open, Unfinished, Reserves, IsDownload, Clash, Endpoints, Ids
  <2> QED BY <2>1, <2>2, <2>3 DEF IInv, Ids
<1>2. CASE \E s, t \in Nodes : QueueTransfer(s, t) \/ QueueDownloadAndTransfer(s, t)
  BY <1>2, QueueTransferOK, QueueBothOK
<1>3. CASE \E n \in Nodes : QueueDownload(n)
  BY <1>3, QueueDownloadOK
<1>4. ASSUME NEW j \in Ids, CancelQueued(j) \/ CancelRunning(j) \/ Runs(j) \/ Serves(j) PROVE IInv'
  BY <1>4, CancelQueuedOK, CancelRunningOK, RunsOK, ArriveOK, LandOK DEF Serves
<1>5. ASSUME NEW j \in Ids,
             \/ Dropped(j) \/ Unconfirmed(j) \/ RollbackFails(j)
             \/ \E cancelable \in BOOLEAN : BeginFails(j, cancelable)
             \/ DispatchFails(j) \/ CloseFails(j)
      PROVE  IInv'
  BY <1>5, DroppedOK, UnconfirmedOK, RollbackFailsOK, BeginOK, DispatchFailsOK, CloseOK
<1>6. CASE Dispatch
  BY <1>6, DispatchOK
<1>7. CASE (\E n \in Nodes : ReserveUpdate(n)) \/ StartUpdate \/ EndUpdate
  BY <1>7, UpdatesOK
<1>8. CASE Stop \/ StopEnds \/ Start \/ Crash
  BY <1>8, StopOK, StartStopEndsOK, CrashOK
<1>9. CASE Quiescent
  BY <1>1, <1>9 DEF Quiescent
<1> QED BY <1>1, <1>2, <1>3, <1>4, <1>5, <1>6, <1>7, <1>8, <1>9 DEF Next

\* What the place of a runner tells about its job holds of every reachable state.
THEOREM InductiveInvariant == Spec => []IInv
<1> QED BY InitIInv, NextIInv, PTL DEF Spec

\* Every variable has its type, a job depends on an older one, and a cancel event is
\* registered only while a runner would see it (_cancel_events).
THEOREM TypeCorrect == Spec => []TypeOK
<1> QED BY InductiveInvariant, IInvTypeOK, PTL

\* A download that can be canceled never has a final status while a writer of it lives,
\* unless its controller died in between (_await_download_with_cancel).
THEOREM FinalMeansStopped == Spec => []TerminalMeansStopped
<1>1. IInv => TerminalMeansStopped
  BY DEF IInv, JobOK, AgentOK, TerminalMeansStopped, IsDownload
<1> QED BY <1>1, InductiveInvariant, PTL

\* One node carries a single one of the transfers the dispatcher knows (_dispatch_loop,
\* _busy_nodes).
THEOREM NodesCarryOneTransfer == Spec => []OneTransferPerNode
<1>1. IInv => OneTransferPerNode
  <2> SUFFICES ASSUME IInv, NEW j \in active, NEW k \in active, j # k,
                      copy[j] = "live", copy[k] = "live"
               PROVE  Endpoints(j) \cap Endpoints(k) = {}
    BY DEF OneTransferPerNode
  <2>1. j \in Ids /\ k \in Ids
    BY DEF IInv, RestOK
  <2>2. Unfinished(j) /\ Unfinished(k)
    BY <2>1, Standing DEF JobOK, AgentOK, AtAgent, Unfinished
  <2> QED BY <2>2 DEF IInv, Apart, Clash
<1> QED BY <1>1, InductiveInvariant, PTL

\* A job that holds the dispatch slot is about to dispatch, waits for its agent or is
\* leaving, and a job that counts as running has a task that will end it, unless its
\* runner was cut off by a raising first save or in its rollback (_run_download,
\* _run_transfer, _cancellable_dispatch_slot).
THEOREM NoJobLeftBehind == Spec => []NothingLeftBehind
<1>1. IInv => NothingLeftBehind
  <2> SUFFICES ASSUME IInv PROVE NothingLeftBehind
    OBVIOUS
  <2>1. slot \in Ids => task[slot].at \in {"granted", "working", "confirming", "stranded",
                                           "stopping", "leaving"}
    BY Standing DEF JobOK, SlotOK, Holding
  <2>2. ASSUME NEW j \in Ids, job[j].status = "running"
        PROVE  Unfinished(j) \/ task[j].how = "cut"
    BY <2>2, Standing DEF JobOK, StatusOK, Begun, Unfinished
  <2> QED BY <2>1, <2>2 DEF NothingLeftBehind
<1> QED BY <1>1, InductiveInvariant, PTL

\* An update that waited for the transfers of its node finds no file of it open until it
\* is over, except by a download of the controller itself that a stop() has dropped
\* (_reserve_stream, wait_for_transfers).
THEOREM UpdatesFindNothingOpen == Spec => []UpdateFindsNothingOpen
<1>1. IInv => UpdateFindsNothingOpen
  <2> SUFFICES ASSUME IInv, update.phase = "quiet", NEW j \in Ids,
                      update.node \in Endpoints(j), Open(j)
               PROVE  ~Reserves(j) /\ ~Known(j)
    BY DEF UpdateFindsNothingOpen
  <2>1. ~Reserves(j)
    BY DEF IInv, QuietOK
  <2>2. update.node = Controller
    BY <2>1 DEF Reserves
  <2> QED BY <2>1, <2>2 DEF IInv, QuietOK, Known
<1> QED BY <1>1, InductiveInvariant, PTL

-----------------------------------------------------------------------------
(***************************************************************************)
(* A final status stays.                                                   *)
(***************************************************************************)
FinalStep ==
  \A j \in Ids : job[j].status \in Final =>
    \/ job'[j].status = job[j].status
    \/ task[j].at = "created"
    \/ disk[j] # job[j].status /\ job'[j].status = "queued"

\* A step of a runner that has begun leaves the final jobs alone.
LEMMA BegunFinal ==
  ASSUME IInv, NEW j \in Ids, task[j].at \in Begun,
         \/ job' = job
         \/ \E status \in Final : Over(j, status)
         \/ \A k \in Ids \ {j} : job'[k] = job[k]
  PROVE  FinalStep
<1>1. job[j].status \notin Final
  BY Standing DEF JobOK, StatusOK, Final
<1>2. ASSUME NEW status \in Final, Over(j, status), NEW k \in Ids \ {j}, job[k].status \in Final
      PROVE  job'[k] = job[k]
  <2>1. Canceling(job, j)[k] = job[k]
    BY <1>2 DEF Canceling, Final
  <2>2. Canceling(job, j) = [i \in Ids |-> Canceling(job, j)[i]] /\ job = [i \in Ids |-> job[i]]
    BY DEF Canceling, IInv, Shapes
  <2> QED BY <1>2, <2>1, <2>2 DEF Over
<1>3. \A k \in Ids \ {j} : job[k].status \in Final => job'[k] = job[k]
  BY <1>2
<1> QED BY <1>1, <1>3 DEF FinalStep

LEMMA ConcludesFinal ==
  ASSUME IInv, NEW j \in Ids, task[j].at \in Begun, NEW status \in Final, Concludes(j, status)
  PROVE  FinalStep
<1>1. CASE UNCHANGED job
  BY <1>1, BegunFinal
<1>2. CASE Closing(j, status)
  <2>1. \A k \in Ids \ {j} : job'[k] = job[k]
    BY <1>2 DEF Closing, IInv, Shapes
  <2> QED BY <2>1, BegunFinal
<1>3. CASE Ends(j, status)
  BY <1>3, BegunFinal DEF Ends
<1> QED BY <1>1, <1>2, <1>3 DEF Concludes

LEMMA RunsFinal == ASSUME IInv, NEW j \in Ids, Runs(j) PROVE FinalStep
<1>1. Shapes
  BY DEF IInv
<1>2. CASE \E cancelable \in BOOLEAN : Begin(j, cancelable)
  <2>1. task[j].at = "created" /\ \A k \in Ids \ {j} : job'[k] = job[k]
    BY <1>1, <1>2 DEF Begin, Begins, Shapes
  <2> QED BY <2>1 DEF FinalStep
<1>3. CASE \E cancelable \in BOOLEAN, capped \in Caps : StartDownload(j, cancelable, capped)
  <2>1. task[j].at \in Begun /\ \A k \in Ids \ {j} : job'[k] = job[k]
    BY <1>1, <1>3 DEF StartDownload, Shapes, Begun
  <2> QED BY <2>1, BegunFinal
<1>4. CASE \/ \E how \in {"direct", "stream"} : StartTransfer(j, how)
           \/ SaveProgress(j) \/ GrantSlot(j) \/ LeaveSlot(j) \/ UseSlot(j) \/ ConfirmAsked(j)
  <2>1. job' = job
    BY <1>4 DEF StartTransfer, SaveProgress, GrantSlot, LeaveSlot, UseSlot, ConfirmAsked
  <2> QED BY <2>1 DEF FinalStep
<1>5. CASE Prepare(j) \/ Leave(j) \/ RolledBack(j)
  <2>1. task[j].at \in Begun
    BY <1>5 DEF Prepare, Leave, RolledBack, Begun
  <2>2. \E status \in Final : Over(j, status)
    BY <1>5, OutcomeFinal DEF Prepare, Leave, RolledBack, Ends, Final
  <2> QED BY <2>1, <2>2, BegunFinal
<1>6. CASE Answered(j) \/ SeeStop(j) \/ Verify(j) \/ Confirmed(j)
  <2>1. task[j].at \in Begun
    BY <1>6 DEF Answered, SeeStop, Verify, Confirmed, Begun
  <2>2. \/ job' = job
        \/ \E status \in Final : Concludes(j, status)
        \/ job' = [job EXCEPT ![j].err = TRUE, ![j].stop = "set"]
    BY <1>6, OutcomeFinal DEF Answered, SeeStop, Verify, Confirmed, Final
  <2>3. \/ job' = job
        \/ \E status \in Final : Concludes(j, status)
        \/ \A k \in Ids \ {j} : job'[k] = job[k]
    BY <1>1, <2>2 DEF Shapes
  <2> QED BY <2>1, <2>3, BegunFinal, ConcludesFinal
<1>7. CASE StopConfirmed(j)
  <2>1. task[j].at \in Begun /\ \A k \in Ids \ {j} : job'[k] = job[k]
    BY <1>1, <1>7 DEF StopConfirmed, Begun, Shapes
  <2> QED BY <2>1, BegunFinal
<1>8. CASE Close(j)
  <2>1. job' = [job EXCEPT ![j].stop = "none"]
    BY <1>8 DEF Close
  <2>2. \A k \in Ids : job'[k].status = job[k].status
    BY <1>1, <2>1, Standing DEF Shapes, JobState
  <2> QED BY <2>2 DEF FinalStep
<1> QED BY <1>2, <1>3, <1>4, <1>5, <1>6, <1>7, <1>8 DEF Runs

LEMMA QueueFinal ==
  ASSUME IInv, NEW s \in Nodes, NEW t \in Nodes,
         QueueTransfer(s, t) \/ QueueDownloadAndTransfer(s, t) \/ QueueDownload(s)
  PROVE  FinalStep
<1>1. Last \in 0..MaxJobs /\ \A j \in Ids : job[j].kind # "none" <=> j <= Last
  BY LastIsLast
<1>2. \A k \in Ids \ {Last + 1, Last + 2} : job'[k] = job[k]
  BY <1>1 DEF QueueTransfer, QueueDownloadAndTransfer, QueueDownload, IInv, Shapes
<1>3. \A k \in Ids : job[k].status \in Final => k # Last + 1 /\ k # Last + 2
  <2> SUFFICES ASSUME NEW k \in Ids, job[k].status \in Final PROVE k # Last + 1 /\ k # Last + 2
    OBVIOUS
  <2>1. job[k].kind # "none"
    BY Standing DEF JobOK, StatusOK, Final
  <2> QED BY <1>1, <2>1, Constants DEF Ids
<1> QED BY <1>2, <1>3 DEF FinalStep

LEMMA FinalStays == IInv /\ [Next]_vars => [FinalStep]_vars
<1> SUFFICES ASSUME IInv, Next PROVE FinalStep
  OBVIOUS
<1>1. Shapes /\ \A j \in Ids : JobOK(j)
  BY DEF IInv
<1>2. CASE \E s, t \in Nodes : QueueTransfer(s, t) \/ QueueDownloadAndTransfer(s, t)
  BY <1>2, QueueFinal
<1>3. CASE \E n \in Nodes : QueueDownload(n)
  BY <1>3, QueueFinal
<1>4. ASSUME NEW j \in Ids, CancelQueued(j) PROVE FinalStep
  BY <1>4 DEF CancelQueued, Canceling, FinalStep, Final
<1>5. ASSUME NEW j \in Ids, CancelRunning(j) PROVE FinalStep
  BY <1>1, <1>5 DEF CancelRunning, Shapes, FinalStep, Final
<1>6. ASSUME NEW j \in Ids, Runs(j) \/ Serves(j) PROVE FinalStep
  BY <1>6, RunsFinal DEF Serves, Arrive, Land, FinalStep
<1>7. ASSUME NEW j \in Ids, Dropped(j) \/ Unconfirmed(j) \/ RollbackFails(j) PROVE FinalStep
  <2>1. task[j].at \in Begun
    BY <1>7 DEF Dropped, Unconfirmed, RollbackFails, Begun
  <2>2. \/ \E status \in Final : Over(j, status)
        \/ \A k \in Ids \ {j} : job'[k] = job[k]
    BY <1>1, <1>7 DEF Dropped, Closing, Unconfirmed, RollbackFails, Shapes, Final
  <2> QED BY <2>1, <2>2, BegunFinal
<1>12. ASSUME NEW j \in Ids,
              \/ \E cancelable \in BOOLEAN : BeginFails(j, cancelable)
              \/ DispatchFails(j) \/ CloseFails(j)
       PROVE  FinalStep
  <2>1. CASE \E cancelable \in BOOLEAN : BeginFails(j, cancelable)
    <3>1. task[j].at = "created" /\ \A k \in Ids \ {j} : job'[k] = job[k]
      BY <1>1, <2>1 DEF BeginFails, Begins, Shapes
    <3> QED BY <3>1 DEF FinalStep
  <2>2. CASE DispatchFails(j)
    <3>1. job[j].status = "queued" /\ \A k \in Ids \ {j} : job'[k] = job[k]
      BY <1>1, <2>2 DEF DispatchFails, Doomed, Shapes
    <3> QED BY <3>1 DEF FinalStep, Final
  <2>3. CASE CloseFails(j)
    BY <2>3 DEF CloseFails, FinalStep
  <2> QED BY <1>12, <2>1, <2>2, <2>3
<1>8. CASE Dispatch
  <2>1. \A j \in Ids : job'[j] = job[j] \/ job[j].status = "queued"
    BY <1>8 DEF Dispatch, Doomed
  <2> QED BY <2>1 DEF FinalStep, Final
<1>9. CASE Stop
  <2>1. \A j \in Ids : \/ job'[j] = job[j] \/ job'[j] = [job[j] EXCEPT !.stop = "none"]
                       \/ Requeues(j)
    BY <1>9 DEF Stop
  <2>2. \A j \in Ids : Requeues(j) => job[j].status = "running"
    BY <1>1 DEF Requeues, JobOK, StatusOK, Begun
  <2>3. \A j \in Ids : job'[j] = [job[j] EXCEPT !.stop = "none"] => job'[j].status = job[j].status
    BY <1>1 DEF JobOK, JobState
  <2> QED BY <2>1, <2>2, <2>3 DEF FinalStep, Final
<1>10. CASE Crash
  <2> SUFFICES ASSUME NEW j \in Ids, job[j].status \in Final
               PROVE  \/ job'[j].status = job[j].status
                      \/ disk[j] # job[j].status /\ job'[j].status = "queued"
    BY DEF FinalStep
  <2>1. job'[j] = [job[j] EXCEPT !.status = Reloaded(j), !.stop = "none", !.err = FALSE]
    BY <1>10 DEF Crash
  <2>2. job'[j].status = Reloaded(j)
    BY <1>1, <2>1 DEF JobOK, JobState
  <2>3. disk[j] \in Active \/ disk[j] = job[j].status
    BY <1>1 DEF JobOK, DiskOK
  <2> QED BY <2>2, <2>3 DEF Reloaded, Active, Final
<1>11. CASE (\E n \in Nodes : ReserveUpdate(n)) \/ StartUpdate \/ EndUpdate \/ StopEnds \/ Start \/ Quiescent
  <2>1. job' = job
    BY <1>11 DEF ReserveUpdate, StartUpdate, EndUpdate, StopEnds, Start, Quiescent, vars
  <2> QED BY <2>1 DEF FinalStep
<1> QED BY <1>2, <1>3, <1>4, <1>5, <1>6, <1>7, <1>8, <1>9, <1>10, <1>11, <1>12 DEF Next

\* A status that is final stays, through late answers, stops and restarts, except that a
\* job canceled before the first turn of its task runs after all, and that a restart takes
\* up again what the queue file still counts as unfinished.
THEOREM StatusesStayFinal == Spec => FinalIsFinal
<1> QED BY InductiveInvariant, FinalStays, PTL DEF Spec, FinalIsFinal, FinalStep
=============================================================================
