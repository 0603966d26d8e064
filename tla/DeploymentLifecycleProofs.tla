---------------------- MODULE DeploymentLifecycleProofs ----------------------
(***************************************************************************)
(* A recovery begins from rest, a recorded stop outlasts the monitors, and *)
(* what is reported stopped is down, for any finite set of ranks and any   *)
(* bounds on requests, faults and crashes.                                 *)
(***************************************************************************)
EXTENDS DeploymentLifecycle, SequenceTheorems, TLAPS

\* A launch of the current card is under way, and nothing overtook it.
Pending(by) == launch[by].id # 0 /\ launch[by].id = card.id /\ card.id \notin raced

\* Launches are of this card or of an earlier one, each of one of its own.
LaunchesOK ==
  /\ \A by \in Launchers :
       launch[by].id <= card.id /\ (launch[by].id = 0 => launch[by] = NoLaunch)
  /\ launch["user"].id = launch["resumer"].id => launch["user"].id = 0

\* Who works under the lock works on a card, a start on one that should run, and a
\* rank that was asked to stop is waited for, stopped or failed.
LockOK ==
  /\ hold.op \notin {"free", "resumeLaunch"} => card.on
  /\ hold.op = "start" => card.desired = "running"
  /\ hold.op \in {"stop", "recoverStop"} => Ranks \subseteq hold.todo \cup hold.ok \cup hold.fail

\* A launch that nothing overtook keeps the monitors away: its card is launching, or
\* in error while it is undone.
PendingOK ==
  \A by \in Launchers : Pending(by) =>
    /\ hold.op \in {"free", "remove", "resumeLaunch"}
    /\ card.on => card.status \in {"launching", "error"} /\ card.desired = "running"
    /\ hold.op = "resumeLaunch" => card.on

\* What the holder of the lock has stopped stays down while it holds the lock.
SettledOK ==
  card.id \notin raced =>
    /\ hold.op \in {"stop", "reconcile"} => \A r \in hold.ok : box[r] \notin {"creating", "running"}
    /\ hold.op = "recoverStop" => \A r \in hold.ok : box[r] \in {"absent", "stopped"}
    /\ hold.op = "recoverStart" => \A r \in hold.todo : box[r] \in {"absent", "stopped"}

\* TypeOK, variable by variable.
Card == [on : BOOLEAN, id : Nat, status : Statuses, desired : {"running", "stopped"}]
Boxes == [Ranks -> BoxStates]
Launch == [id : Nat, st : [Ranks -> LaunchStates]]
Holds == [by : {"none", "user", "health", "retry", "stopper", "resumer"},
          op : {"free", "resumeLaunch"} \cup Stops \cup Starts \cup Removes, id : Nat,
          todo : SUBSET Ranks, ok : SUBSET Ranks, fail : SUBSET Ranks]
Hold == {h \in Holds : h.op \in {"free", "resumeLaunch"} => h.todo = {}}
Retry == [task : {"none", "created", "queued"}, attempts : Nat, healthy : BOOLEAN,
          seen : {"none", "up", "down"}]
Tasks == /\ health \in {"idle", "reconcile", "probe", "recover"}
         /\ stopper \in Nat /\ resumer \in {"check", "queued", "done"}
Counts == raced \subseteq Nat /\ user \in 0..MaxUser /\ events \in 0..MaxEvents
          /\ crashes \in 0..MaxCrashes
Typed ==
  /\ card \in Card /\ box \in Boxes /\ launch \in [Launchers -> Launch]
  /\ lockq \in Seq(Request) /\ hold \in Hold /\ failedStop \subseteq Ranks
  /\ retry \in Retry /\ Tasks /\ Counts

\* The inductive invariant: the types, the parts, and two of the properties.
Core == LaunchesOK /\ LockOK /\ PendingOK /\ SettledOK /\ StopOutlastsMonitors /\ StoppedMeansDown
IInv == Typed /\ Core

core == <<card, box, launch, hold, raced>>

-----------------------------------------------------------------------------
\* What the assumption on the constants gives.
LEMMA Constants ==
  Local \in Ranks /\ MaxUser \in Nat /\ MaxEvents \in Nat /\ MaxCrashes \in Nat
<1> QED BY ConstantsAssumption DEF ConstantsAssumption

\* The types, variable by variable, are those of TypeOK.
LEMMA TypedMeansTypeOK == Typed => TypeOK
<1> QED BY DEF Typed, TypeOK, Card, Boxes, Launch, Hold, Holds, Retry, Tasks, Counts

\* A step that raises events, or not.
LEMMA Counting ==
  ASSUME Counts, raced' = raced \/ raced' = raced \cup Unwritten, user' = user,
         crashes' = crashes, Same \/ Event, launch \in [Launchers -> Launch]
  PROVE  Counts'
<1>1. Unwritten \subseteq Nat
  BY DEF Unwritten, Launch
<1>2. events' \in 0..MaxEvents
  BY Constants DEF Counts, Same, Event
<1> QED BY <1>1, <1>2 DEF Counts

\* One more request in the queue of the lock, and the first one taken.
LEMMA Asking ==
  ASSUME lockq \in Seq(Request), NEW by \in {"user", "health", "retry", "stopper", "resumer"},
         NEW op \in {"start", "stop", "remove", "reconcile", "recover", "resume"},
         NEW id \in Nat, Ask(by, op, id)
  PROVE  lockq' \in Seq(Request)
<1>1. [by |-> by, op |-> op, id |-> id] \in Request
  BY DEF Request
<1> QED BY <1>1, AppendProperties DEF Ask

LEMMA Taking ==
  ASSUME lockq \in Seq(Request), NEW op, Turn(op)
  PROVE  /\ Asker \in Request /\ Asker.op = op
         /\ lockq' \in Seq(Request) /\ hold.op = "free"
<1> QED BY HeadTailProperties DEF Turn, Asker

\* What the holder of the lock gathers, and what is set free.
LEMMA Holding ==
  ASSUME Typed
  PROVE  /\ Free \in Hold
         /\ \A q \in Request : \A op \in Stops \cup Starts \cup Removes : Gathering(q, op) \in Hold
         /\ \A op \in Stops \cup Starts \cup Removes : Gathering(hold, op) \in Hold
<1> QED BY DEF Typed, Hold, Holds, Free, Gathering, Request, Stops, Starts, Removes

\* One rank of a launch moves on.
LEMMA Progress ==
  ASSUME launch \in [Launchers -> Launch], NEW by \in Launchers, NEW r \in Ranks,
         NEW x \in LaunchStates, launch' = [launch EXCEPT ![by].st[r] = x]
  PROVE  /\ launch' \in [Launchers -> Launch]
         /\ launch'[by] = [launch[by] EXCEPT !.st[r] = x]
         /\ \A o \in Launchers : o # by => launch'[o] = launch[o]
<1>1. launch' = [launch EXCEPT ![by] = [launch[by] EXCEPT !.st[r] = x]]
  OBVIOUS
<1>2. launch[by] \in Launch
  OBVIOUS
<1>3. [launch[by] EXCEPT !.st[r] = x] \in Launch
  BY <1>2 DEF Launch
<1> QED BY <1>1, <1>3

\* A status is written.
LEMMA Writing ==
  ASSUME card \in Card, NEW s \in Statuses
  PROVE  /\ [card EXCEPT !.status = s] \in Card
         /\ [card EXCEPT !.status = s].on = card.on
         /\ [card EXCEPT !.status = s].id = card.id
         /\ [card EXCEPT !.status = s].desired = card.desired
         /\ [card EXCEPT !.status = s].status = s
<1> QED BY DEF Card

\* A card is created, or dropped.
LEMMA NewCards ==
  ASSUME NEW id \in Nat
  PROVE  /\ NewCard(id) \in Card /\ NoCard(id) \in Card
         /\ NewCard(id).on /\ ~NoCard(id).on
         /\ NewCard(id).id = id /\ NoCard(id).id = id
         /\ NewCard(id).status = "launching" /\ NewCard(id).desired = "running"
<1> QED BY DEF NewCard, NoCard, Card, Statuses

\* The first state: no card, no container, no task.
LEMMA InitIInv == Init => IInv
<1> SUFFICES ASSUME Init PROVE IInv
  OBVIOUS
<1>1. Typed
  <2>1. card \in Card /\ hold \in Hold
    BY NewCards DEF Init, Free, Hold, Holds
  <2>2. NoLaunch \in Launch
    BY DEF NoLaunch, Launch, LaunchStates
  <2>3. launch \in [Launchers -> Launch] /\ lockq \in Seq(Request)
    BY <2>2 DEF Init
  <2>4. box \in Boxes /\ retry \in Retry /\ Tasks /\ Counts
    BY Constants DEF Init, NoRetry, Boxes, BoxStates, Retry, Tasks, Counts
  <2> QED BY <2>1, <2>3, <2>4 DEF Typed, Init
<1>2. LaunchesOK /\ LockOK
  BY DEF Init, LaunchesOK, LockOK, NoCard, NoLaunch, Free, Launchers
<1>3. PendingOK /\ SettledOK /\ StopOutlastsMonitors /\ StoppedMeansDown
  BY DEF Init, PendingOK, Pending, SettledOK, StopOutlastsMonitors, StoppedMeansDown, NoCard,
     NoLaunch, Free, Launchers
<1> QED BY <1>1, <1>2, <1>3 DEF IInv, Core

-----------------------------------------------------------------------------
\* The crash retry of a new card.
LEMMA Renewing == ASSUME Typed PROVE Renewed \in Retry /\ NoRetry \in Retry
<1> QED BY DEF Typed, Renewed, NoRetry, Retry

\* What becomes of the tasks when a request is over.
LEMMA Going ==
  ASSUME Typed, NEW by, AfterRequest(by), stopper' \in Nat
  PROVE  retry' \in Retry /\ Tasks'
<1>1. retry' \in Retry
  BY DEF AfterRequest, Typed, Retry
<1>2. Tasks'
  BY DEF AfterRequest, Typed, Tasks
<1> QED BY <1>1, <1>2

\* A launch begins, or is over.
LEMMA Launched ==
  ASSUME launch \in [Launchers -> Launch], NEW by \in Launchers, NEW id \in Nat
  PROVE  /\ [launch EXCEPT ![by] = Launching(id)] \in [Launchers -> Launch]
         /\ [launch EXCEPT ![by] = NoLaunch] \in [Launchers -> Launch]
<1>1. NoLaunch \in Launch /\ Launching(id) \in Launch
  BY DEF NoLaunch, Launching, Launch, LaunchStates
<1> QED BY <1>1

\* A launch hears of one of its ranks.
LEMMA Hearing ==
  ASSUME launch \in [Launchers -> Launch], NEW r \in Ranks, NEW what \in LaunchStates
  PROVE  Hears(r, what) \in [Launchers -> Launch]
<1>1. \A by \in Launchers : [launch[by] EXCEPT !.st[r] = what] \in Launch
  BY DEF Launch
<1> QED BY <1>1 DEF Hears

\* create_deployment keeps the types.
LEMMA TypedLaunches == ASSUME Typed, Create \/ Launches PROVE Typed'
<1>1. CASE Create
  <2>1. card' \in Card /\ launch' \in [Launchers -> Launch] /\ retry' \in Retry
    BY <1>1, NewCards, Renewing, Launched DEF Create, Typed, Card, Launchers
  <2> QED BY <1>1, <2>1 DEF Create, Typed, Tasks, Counts, monitors, counters
<1>2. ASSUME NEW by \in Launchers, LaunchOk(by) \/ LaunchUndone(by) PROVE Typed'
  <2>1. card' \in Card
    BY <1>2, Writing DEF LaunchOk, LaunchUndone, Writes, Typed, Statuses
  <2>2. launch' \in [Launchers -> Launch] /\ hold' \in Hold
    BY <1>2, Launched, Holding DEF LaunchOk, LaunchUndone, LaunchOver, Typed
  <2>3. Tasks' /\ Counts'
    BY <1>2 DEF LaunchOk, LaunchUndone, LaunchOver, Typed, Tasks, Counts, counters
  <2>4. UNCHANGED <<box, lockq, failedStop, retry>>
    BY <1>2 DEF LaunchOk, LaunchUndone
  <2> QED BY <2>1, <2>2, <2>3, <2>4 DEF Typed
<1>3. ASSUME NEW by \in Launchers, LaunchFails(by) PROVE Typed'
  <2>1. card' \in Card
    BY <1>3, Writing DEF LaunchFails, Writes, Typed, Statuses
  <2>2. launch' \in [Launchers -> Launch]
    BY <1>3 DEF LaunchFails, Typed, Launch, LaunchStates
  <2> QED BY <1>3, <2>1, <2>2 DEF LaunchFails, Typed, Tasks, Counts, monitors, counters
<1>4. ASSUME NEW by \in Launchers, NEW r \in Ranks,
             BeginMember(by, r) \/ EndStray(by, r) \/ Undo(by, r) PROVE Typed'
  <2>1. launch' \in [Launchers -> Launch]
    BY <1>4, Progress DEF BeginMember, EndStray, Undo, Typed, LaunchStates
  <2>2. box' \in Boxes
    BY <1>4 DEF BeginMember, EndStray, Undo, Typed, Boxes, BoxStates
  <2>3. Counts'
    BY <1>4, Counting DEF BeginMember, EndStray, Undo, Typed, rest, counters, Same
  <2>4. UNCHANGED <<card, lockq, hold, failedStop, retry>> /\ Tasks'
    BY <1>4 DEF BeginMember, EndStray, Undo, Typed, Tasks, monitors
  <2> QED BY <2>1, <2>2, <2>3, <2>4 DEF Typed
<1> QED BY <1>1, <1>2, <1>3, <1>4 DEF Launches

\* A rank has answered the holder of the lock.
Answered(r, h) == h = [hold EXCEPT !.todo = @ \ {r}, !.ok = @ \cup {r}]
Refused(r, h) == h = [hold EXCEPT !.todo = @ \ {r}, !.fail = @ \cup {r}]

LEMMA Answering ==
  ASSUME hold \in Hold, NEW r \in hold.todo, NEW h
  PROVE  /\ Answered(r, h) \/ Refused(r, h) =>
              /\ h \in Hold /\ h.todo = hold.todo \ {r}
              /\ h.op = hold.op /\ h.id = hold.id /\ h.by = hold.by
         /\ Answered(r, h) => h.ok = hold.ok \cup {r} /\ h.fail = hold.fail
         /\ Refused(r, h) => h.ok = hold.ok /\ h.fail = hold.fail \cup {r}
<1>1. hold \in Holds /\ r \in Ranks /\ (hold.op \in {"free", "resumeLaunch"} => hold.todo = {})
  BY DEF Hold, Holds
<1>2. ASSUME Answered(r, h) \/ Refused(r, h)
      PROVE  /\ h \in Hold /\ h.todo = hold.todo \ {r}
             /\ h.op = hold.op /\ h.id = hold.id /\ h.by = hold.by
  <2>1. h.todo = hold.todo \ {r} /\ h.op = hold.op /\ h.id = hold.id /\ h.by = hold.by
    BY <1>1, <1>2 DEF Answered, Refused, Holds
  <2>2. CASE Answered(r, h)
    <3>1. h \in Holds
      BY <1>1, <2>2 DEF Answered, Holds
    <3> QED BY <1>1, <2>1, <3>1 DEF Hold
  <2>3. CASE Refused(r, h)
    <3>1. h \in Holds
      BY <1>1, <2>3 DEF Refused, Holds
    <3> QED BY <1>1, <2>1, <3>1 DEF Hold
  <2> QED BY <1>2, <2>2, <2>3
<1>3. Answered(r, h) => h.ok = hold.ok \cup {r} /\ h.fail = hold.fail
  BY <1>1 DEF Answered, Holds
<1>4. Refused(r, h) => h.ok = hold.ok /\ h.fail = hold.fail \cup {r}
  BY <1>1 DEF Refused, Holds
<1> QED BY <1>2, <1>3, <1>4

\* So do the agents and their answers,
LEMMA TypedMembers == ASSUME Typed, Members PROVE Typed'
<1>1. ASSUME NEW r \in Ranks, EndMember(r) PROVE Typed'
  <2>1. launch' \in [Launchers -> Launch]
    BY <1>1, Hearing DEF EndMember, Typed, LaunchStates
  <2>2. box' \in Boxes
    BY <1>1 DEF EndMember, Typed, Boxes, BoxStates
  <2>3. Counts'
    BY <1>1, Counting DEF EndMember, Typed, rest
  <2>4. UNCHANGED <<card, lockq, hold, failedStop, retry>> /\ Tasks'
    BY <1>1 DEF EndMember, Typed, Tasks, monitors
  <2> QED BY <2>1, <2>2, <2>3, <2>4 DEF Typed
<1>2. ASSUME NEW r \in Ranks, MemberAction(r) PROVE Typed'
  <2>1. hold' \in Hold
    <3>1. Answered(r, hold') \/ Refused(r, hold')
      BY <1>2 DEF MemberAction, Answered, Refused
    <3> QED BY <1>2, <3>1, Answering DEF MemberAction, Typed
  <2>2. box' \in Boxes
    <3>1. Effect(hold.op, r) \in BoxStates
      <4>1. hold.op \in Stops \cup Starts \cup Removes
        BY <1>2 DEF MemberAction, Typed, Hold, Holds
      <4> QED BY <4>1 DEF Effect, BoxStates, Typed, Boxes
    <3>2. (Accepts(hold.op, r) /\ box' = [box EXCEPT ![r] = Effect(hold.op, r)]) \/ UNCHANGED box
      BY <1>2 DEF MemberAction
    <3> QED BY <3>1, <3>2 DEF Typed, Boxes
  <2>3. Counts'
    BY <1>2, Counting DEF MemberAction, Typed, rest
  <2>4. UNCHANGED <<card, launch, lockq, failedStop, retry>> /\ Tasks'
    BY <1>2 DEF MemberAction, Typed, Tasks, monitors
  <2> QED BY <2>1, <2>2, <2>3, <2>4 DEF Typed
<1> QED BY <1>1, <1>2 DEF Members

\* so does whoever takes the lock,
LEMMA TypedBegins == ASSUME Typed, Begins PROVE Typed'
<1>1. CASE BeginStop
  <2>1. Asker \in Request /\ lockq' \in Seq(Request)
    BY <1>1, Taking DEF BeginStop, Typed
  <2>2. card' \in Card
    BY <1>1 DEF BeginStop, Typed, Card, Statuses
  <2>3. hold' \in Hold /\ Counts'
    BY <1>1, <2>1, Holding, Counting DEF BeginStop, Stops, Typed, Same
  <2> QED BY <1>1, <2>1, <2>2, <2>3 DEF BeginStop, Typed, Tasks, monitors
<1>2. CASE BeginStart
  <2>1. Asker \in Request /\ lockq' \in Seq(Request)
    BY <1>2, Taking DEF BeginStart, Typed
  <2>2. card' \in Card
    BY <1>2 DEF BeginStart, Typed, Card
  <2>3. hold' \in Hold /\ Counts'
    BY <1>2, <2>1, Holding, Counting DEF BeginStart, Starts, Typed, Same
  <2> QED BY <1>2, <2>1, <2>2, <2>3 DEF BeginStart, Typed, Tasks, monitors
<1>3. CASE BeginRemove
  <2>1. Asker \in Request /\ lockq' \in Seq(Request)
    BY <1>3, Taking DEF BeginRemove, Typed
  <2>2. hold' \in Hold
    BY <1>3, <2>1, Holding DEF BeginRemove, Removes
  <2> QED BY <1>3, <2>1, <2>2 DEF BeginRemove, Typed, Tasks, Counts, monitors, counters
<1>4. CASE NotFound
  <2>1. lockq' \in Seq(Request) /\ stopper' \in Nat
    BY <1>4, Taking DEF NotFound, Typed, Tasks
  <2>2. retry' \in Retry /\ Tasks'
    BY <1>4, <2>1, Going DEF NotFound
  <2> QED BY <1>4, <2>1, <2>2 DEF NotFound, Typed, Counts, counters
<1>5. CASE BeginRecover
  <2>1. Asker \in Request /\ lockq' \in Seq(Request)
    BY <1>5, Taking DEF BeginRecover, Typed
  <2>2. card' \in Card /\ hold' \in Hold
    BY <1>5, <2>1, Holding, Writing DEF BeginRecover, Stops, Statuses, Typed
  <2> QED BY <1>5, <2>1, <2>2 DEF BeginRecover, Typed, Tasks, Counts, counters
<1>6. CASE BeginResume
  <2>1. Asker \in Request /\ lockq' \in Seq(Request)
    BY <1>6, Taking DEF BeginResume, Typed
  <2>2. hold' \in Hold
    BY <1>6, <2>1, Holding DEF BeginResume, Removes, Typed
  <2>3. card' \in Card
    <3>1. ASSUME NEW s \in {"recovering", "error"}, card' = [card EXCEPT !.status = s]
          PROVE  card' \in Card
      BY <3>1, Writing DEF Statuses, Typed
    <3> QED BY <1>6, <3>1 DEF BeginResume, Typed
  <2>4. Counts'
    BY <1>6, Counting DEF BeginResume, Typed, Same
  <2> QED BY <1>6, <2>1, <2>2, <2>3, <2>4 DEF BeginResume, Typed, Tasks
<1>7. ASSUME NEW u \in SUBSET Ranks, BeginReconcile(u) PROVE Typed'
  <2>1. lockq' \in Seq(Request)
    BY <1>7, Taking DEF BeginReconcile, Typed
  <2>2. hold' \in Hold
    BY <1>7 DEF BeginReconcile, Stops, Typed, Card, Hold, Holds
  <2>3. Counts'
    BY <1>7, Counting DEF BeginReconcile, Typed, rest
  <2> QED BY <1>7, <2>1, <2>2, <2>3 DEF BeginReconcile, Typed, Tasks
<1> QED BY <1>1, <1>2, <1>3, <1>4, <1>5, <1>6, <1>7 DEF Begins

\* and whoever gives it back,
LEMMA TypedEnds == ASSUME Typed, Ends PROVE Typed'
<1>1. CASE EndStop
  <2>1. card' \in Card /\ hold' \in Hold /\ stopper' \in Nat
    BY <1>1, Writing, Holding DEF EndStop, Statuses, Typed, Tasks, Hold, Holds
  <2>2. retry' \in Retry /\ Tasks'
    BY <1>1, <2>1, Going DEF EndStop
  <2> QED BY <1>1, <2>1, <2>2 DEF EndStop, Typed, Counts, counters
<1>2. CASE EndStart
  <2>1. card' \in Card /\ hold' \in Hold /\ stopper' \in Nat
    BY <1>2, Writing, Holding DEF EndStart, Statuses, Typed, Tasks
  <2>2. retry' \in Retry /\ Tasks'
    BY <1>2, <2>1, Going DEF EndStart
  <2> QED BY <1>2, <2>1, <2>2 DEF EndStart, Typed, Counts, counters
<1>3. CASE EndRemove
  <2>1. card' \in Card
    <3>1. card.id \in Nat
      BY DEF Typed, Card
    <3> QED BY <1>3, <3>1, Writing, NewCards DEF EndRemove, Statuses, Typed
  <2>2. hold' \in Hold /\ stopper' \in Nat
    BY <1>3, Holding DEF EndRemove, Typed, Tasks
  <2>3. retry' \in Retry /\ Tasks'
    BY <1>3, <2>2, Going DEF EndRemove
  <2> QED BY <1>3, <2>1, <2>2, <2>3 DEF EndRemove, Typed, Counts, counters
<1>4. CASE EndReconcile
  <2>1. card' \in Card
    BY <1>4, Writing DEF EndReconcile, Statuses, Typed
  <2>2. hold' \in Hold /\ stopper' \in Nat
    BY <1>4, Holding DEF EndReconcile, Typed, Tasks
  <2>3. retry' \in Retry /\ Tasks'
    BY <1>4, <2>2, Going DEF EndReconcile
  <2>4. failedStop' \subseteq Ranks
    BY <1>4 DEF EndReconcile, Typed, Hold, Holds
  <2> QED BY <1>4, <2>1, <2>2, <2>3, <2>4 DEF EndReconcile, Typed, Counts, counters
<1>5. CASE EndRecoverStop
  <2>1. card' \in Card /\ hold' \in Hold
    BY <1>5, Writing, Holding DEF EndRecoverStop, Statuses, Starts, Typed
  <2> QED BY <1>5, <2>1 DEF EndRecoverStop, Typed, Tasks, Counts, counters
<1>6. CASE EndRecoverStart
  <2>1. card' \in Card /\ hold' \in Hold
    BY <1>6, Writing, Holding DEF EndRecoverStart, Statuses, Typed
  <2> QED BY <1>6, <2>1 DEF EndRecoverStart, Typed, Tasks, Counts, counters
<1>7. CASE EndResumeRemove
  <2>1. card' \in Card
    <3>1. card.id \in Nat
      BY DEF Typed, Card
    <3>2. CASE card' = NoCard(card.id)
      BY <3>1, <3>2, NewCards
    <3>3. ASSUME NEW s \in {"recovering", "error"}, card' = [card EXCEPT !.status = s]
          PROVE  card' \in Card
      BY <3>3, Writing DEF Statuses, Typed
    <3> QED BY <1>7, <3>2, <3>3 DEF EndResumeRemove
  <2>2. hold' \in Hold
    <3>1. CASE hold' = [hold EXCEPT !.op = "resumeLaunch"]
      <4>1. hold \in Holds /\ hold.todo = {}
        BY <1>7 DEF EndResumeRemove, Gathered, Typed, Hold
      <4>2. hold' \in Holds /\ hold'.todo = {}
        BY <3>1, <4>1 DEF Holds
      <4> QED BY <4>2 DEF Hold
    <3>2. CASE hold' = Free
      BY <3>2, Holding
    <3> QED BY <1>7, <3>1, <3>2 DEF EndResumeRemove
  <2> QED BY <1>7, <2>1, <2>2 DEF EndResumeRemove, Typed, Tasks, Counts, counters
<1>8. CASE ResumeLaunch
  <2>1. card.id \in Nat /\ card.id + 1 \in Nat
    BY DEF Typed, Card
  <2>2. card' \in Card
    BY <1>8, <2>1, NewCards, Writing DEF ResumeLaunch, Statuses, Card
  <2>3. launch' \in [Launchers -> Launch] /\ box' \in Boxes
    BY <1>8, <2>1, Launched DEF ResumeLaunch, Launchers, Typed, Boxes, BoxStates
  <2>4. hold' \in Hold /\ retry' \in Retry /\ failedStop' \subseteq Ranks /\ Tasks'
    BY <1>8, Holding, Renewing DEF ResumeLaunch, Typed, Tasks
  <2>5. Counts'
    BY <1>8, Counting DEF ResumeLaunch, Typed, rest
  <2> QED BY <1>8, <2>2, <2>3, <2>4, <2>5 DEF ResumeLaunch, Typed
<1> QED BY <1>1, <1>2, <1>3, <1>4, <1>5, <1>6, <1>7, <1>8 DEF Ends

\* The periodic tasks, and what happens to the controller and the containers.
Monitoring == HealthTick \/ Probe \/ Observe \/ RetryTick \/ RetryTurn \/ StopperPass \/ ResumerPass
Surroundings == \/ Crash
                \/ \E dead \in SUBSET Ranks : Exit(dead)
                \/ \E r \in Ranks : Revive(r)

\* so do the periodic tasks,
LEMMA TypedMonitoring == ASSUME Typed, Monitoring PROVE Typed'
<1>0. card.id \in Nat
  BY DEF Typed, Card
<1>1. CASE HealthTick
  <2>1. lockq' \in Seq(Request)
    BY <1>0, <1>1, Asking DEF HealthTick, Typed
  <2> QED BY <1>1, <2>1 DEF HealthTick, Typed, Tasks, Counts, counters
<1>2. CASE Probe
  <2>1. lockq' \in Seq(Request)
    BY <1>0, <1>2, Asking DEF Probe, Typed
  <2>2. Counts'
    BY <1>2, Counting DEF Probe, Typed, rest
  <2> QED BY <1>2, <2>1, <2>2 DEF Probe, Typed, Tasks
<1>3. CASE Observe
  <2>1. Verdict \in {"none", "up", "down"}
    BY DEF Verdict
  <2>2. retry' \in Retry
    BY <1>3, <2>1 DEF Observe, Typed, Retry
  <2> QED BY <1>3, <2>2 DEF Observe, Typed, Tasks, Counts, counters
<1>4. CASE RetryTick
  <2>1. retry' \in Retry
    <3>1. retry \in Retry /\ [NoRetry EXCEPT !.task = retry.task] \in Retry
      BY DEF NoRetry, Typed, Retry
    <3>2. \A b \in BOOLEAN : [retry EXCEPT !.attempts = 0, !.healthy = b] \in Retry
      BY <3>1 DEF Retry
    <3>3. \A n \in Nat : [retry EXCEPT !.attempts = n, !.task = "created"] \in Retry
      BY <3>1 DEF Retry
    <3>4. retry.attempts + 1 \in Nat
      BY <3>1 DEF Retry
    <3> QED BY <1>4, <3>1, <3>2, <3>3, <3>4 DEF RetryTick
  <2> QED BY <1>4, <2>1 DEF RetryTick, Typed, Tasks, Counts, counters
<1>5. CASE RetryTurn
  <2>1. lockq' \in Seq(Request) /\ retry' \in Retry
    BY <1>0, <1>5, Asking DEF RetryTurn, Typed, Retry
  <2> QED BY <1>5, <2>1 DEF RetryTurn, Typed, Tasks, Counts, counters
<1>6. CASE StopperPass
  <2>1. lockq' \in Seq(Request)
    BY <1>6, Asking DEF StopperPass, Typed, Tasks
  <2> QED BY <1>6, <2>1 DEF StopperPass, Typed, Tasks, Counts, counters
<1>7. CASE ResumerPass
  <2>1. lockq' \in Seq(Request)
    BY <1>0, <1>7, Asking DEF ResumerPass, Typed
  <2> QED BY <1>7, <2>1 DEF ResumerPass, Typed, Tasks, Counts, counters
<1> QED BY <1>1, <1>2, <1>3, <1>4, <1>5, <1>6, <1>7 DEF Monitoring

\* so do the requests of the user,
LEMMA TypedUser ==
  ASSUME Typed, NEW op \in {"start", "stop", "remove"}, UserAsks(op)
  PROVE  Typed'
<1>1. lockq' \in Seq(Request)
  <2>1. card.id \in Nat
    BY DEF Typed, Card
  <2> QED BY <2>1, Asking DEF UserAsks, Typed
<1>2. Counts'
  BY Constants DEF UserAsks, Typed, Counts
<1> QED BY <1>1, <1>2 DEF UserAsks, Typed, Tasks, monitors

\* and so do crashes of the controller and of the servers.
LEMMA TypedSurroundings == ASSUME Typed, Surroundings PROVE Typed'
<1>1. CASE Crash
  <2>1. box' \in Boxes
    BY <1>1 DEF Crash, Typed, Boxes, BoxStates
  <2>2. NoLaunch \in Launch
    BY DEF NoLaunch, Launch, LaunchStates
  <2>3. launch' \in [Launchers -> Launch] /\ lockq' \in Seq(Request)
    BY <1>1, <2>2 DEF Crash
  <2>4. hold' \in Hold /\ retry' \in Retry /\ Tasks'
    BY <1>1, Holding, Renewing DEF Crash, Typed, Tasks, Card
  <2>5. Counts'
    <3>1. Unwritten \subseteq Nat
      BY DEF Unwritten, Typed, Launch
    <3> QED BY <1>1, <3>1, Constants DEF Crash, Typed, Counts
  <2>6. card' \in Card
    BY <1>1 DEF Crash, Typed, Card, Statuses
  <2> QED BY <1>1, <2>1, <2>3, <2>4, <2>5, <2>6 DEF Crash, Typed
<1>2. ASSUME NEW dead \in SUBSET Ranks, Exit(dead) PROVE Typed'
  <2>1. box' \in Boxes
    BY <1>2 DEF Exit, Typed, Boxes, BoxStates
  <2>2. Counts'
    BY <1>2, Counting DEF Exit, Typed, rest
  <2> QED BY <1>2, <2>1, <2>2 DEF Exit, Typed, Tasks, monitors
<1>3. ASSUME NEW r \in Ranks, Revive(r) PROVE Typed'
  <2>1. box' \in Boxes
    BY <1>3 DEF Revive, Typed, Boxes, BoxStates
  <2> QED BY <1>3, <2>1 DEF Revive, Typed, Tasks, Counts, monitors, counters
<1> QED BY <1>1, <1>2, <1>3 DEF Surroundings

\* The actions in the groups the lemmas treat.
LEMMA NextCases ==
  Next <=> \/ Create \/ Launches \/ Members \/ Begins \/ Ends \/ Monitoring
           \/ \E op \in {"start", "stop", "remove"} : UserAsks(op)
           \/ Surroundings
<1> QED BY Zenon DEF Next, Work, Monitoring, Surroundings

\* Each step keeps the types.
LEMMA TypedNext == ASSUME Typed, [Next]_vars PROVE Typed'
<1>1. CASE UNCHANGED vars
  BY <1>1 DEF vars, monitors, counters, Typed, Tasks, Counts
<1>2. CASE Next
  BY <1>2, NextCases, TypedLaunches, TypedMembers, TypedBegins, TypedEnds, TypedMonitoring,
     TypedUser, TypedSurroundings, Zenon
<1> QED BY <1>1, <1>2

-----------------------------------------------------------------------------
\* A step that touches neither the card, its containers, a launch nor the lock's holder.
LEMMA Quiet == ASSUME Core, UNCHANGED core PROVE Core'
<1> QED BY DEF Core, core, LaunchesOK, LockOK, PendingOK, Pending, SettledOK,
           StopOutlastsMonitors, StoppedMeansDown

\* A launch that has sent something has a card of its own.
LEMMA Underway ==
  ASSUME Typed, LaunchesOK, NEW by \in Launchers, NEW r \in Ranks, launch[by].st[r] # "idle"
  PROVE  launch[by].id # 0
<1> QED BY DEF LaunchesOK, NoLaunch

\* A step of launches that only moves their ranks on.
LEMMA Moving ==
  ASSUME Core, UNCHANGED <<card, hold, raced>>,
         \A by \in Launchers : /\ launch'[by].id = launch[by].id
                               /\ launch[by].id = 0 => launch'[by] = launch[by]
  PROVE  LaunchesOK' /\ LockOK' /\ PendingOK' /\ StopOutlastsMonitors'
<1> USE DEF Core
<1>1. LaunchesOK'
  BY DEF LaunchesOK, Launchers
<1>2. PendingOK'
  BY DEF PendingOK, Pending
<1> QED BY <1>1, <1>2 DEF LockOK, StopOutlastsMonitors

\* Nothing the freed lock could contradict.
LEMMA Freed == ASSUME hold' = Free PROVE LockOK' /\ SettledOK' /\ StopOutlastsMonitors'
<1> QED BY DEF Free, LockOK, SettledOK, StopOutlastsMonitors

\* Containers that only go down, or come back by Docker's own hand.
LEMMA Sinking ==
  ASSUME Typed, Core, UNCHANGED <<card, hold, raced>>,
         \A r \in Ranks : \/ box'[r] = box[r] \/ box'[r] = "absent"
                          \/ box[r] \in Up /\ box'[r] = "exited"
                          \/ box[r] = "exited" /\ box'[r] = "revived"
                          \/ box[r] = "creating" /\ box'[r] = "running"
  PROVE  SettledOK' /\ StoppedMeansDown'
<1> USE DEF Core
<1>1. StoppedMeansDown'
  BY DEF StoppedMeansDown, Up
<1>2. SettledOK'
  BY DEF SettledOK, Typed, Hold, Holds, Up
<1> QED BY <1>1, <1>2

\* The user launches: the new card has an identity no launch had.
LEMMA CoreCreate == ASSUME IInv, Create PROVE Core'
<1> USE DEF IInv, Core
<1>1. card.id \in Nat /\ card'.id = card.id + 1 /\ card'.on
      /\ card'.status = "launching" /\ card'.desired = "running"
  BY NewCards DEF Create, Typed, Card
<1>2. hold.op = "free" /\ UNCHANGED <<hold, box, raced>>
  BY DEF Create, LockOK, counters
<1>3. /\ launch'["user"] = Launching(card.id + 1)
      /\ launch'["resumer"] = launch["resumer"]
  BY DEF Create, Typed, Launchers
<1>4. LaunchesOK'
  <2>1. launch["resumer"].id \in Nat /\ launch["resumer"].id <= card.id
    BY DEF LaunchesOK, Launchers, Typed, Launch
  <2> QED BY <1>1, <1>3, <2>1 DEF LaunchesOK, Launchers, Launching
<1>5. LockOK' /\ SettledOK' /\ StopOutlastsMonitors'
  BY <1>2 DEF LockOK, SettledOK, StopOutlastsMonitors
<1>6. PendingOK' /\ StoppedMeansDown'
  BY <1>1, <1>2 DEF PendingOK, StoppedMeansDown
<1> QED BY <1>4, <1>5, <1>6

\* A launch moves on at one rank: only a launch of the current card fills its nodes.
LEMMA CoreMembers ==
  ASSUME IInv, NEW by \in Launchers, NEW r \in Ranks,
         BeginMember(by, r) \/ EndStray(by, r) \/ Undo(by, r)
  PROVE  Core'
<1> USE DEF IInv, Core
<1>1. UNCHANGED <<card, hold, raced>>
  BY DEF BeginMember, EndStray, Undo, rest, counters
<1>2. launch[by].id # 0
  BY Underway DEF BeginMember, EndStray, Undo
<1>3. /\ launch'[by].id = launch[by].id
      /\ \A o \in Launchers : o # by => launch'[o] = launch[o]
  <2>1. PICK x \in LaunchStates : launch' = [launch EXCEPT ![by].st[r] = x]
    BY DEF BeginMember, EndStray, Undo, LaunchStates
  <2>2. launch[by] \in Launch
    BY DEF Typed
  <2> QED BY <2>1, <2>2, Progress DEF Typed, Launch
<1>4. LaunchesOK' /\ LockOK' /\ PendingOK' /\ StopOutlastsMonitors'
  BY <1>1, <1>2, <1>3, Moving
<1>5. SettledOK' /\ StoppedMeansDown'
  <2>1. CASE BeginMember(by, r) /\ box' # box
    <3>1. Current(by)
      BY <2>1 DEF BeginMember
    <3>2. card.id \in raced \/ Pending(by)
      BY <1>2, <3>1 DEF Current, Pending
    <3>3. CASE card.id \in raced
      BY <1>1, <3>3 DEF SettledOK, StoppedMeansDown
    <3>4. CASE Pending(by)
      BY <1>1, <3>4 DEF SettledOK, StoppedMeansDown, PendingOK
    <3> QED BY <3>2, <3>3, <3>4
  <2>2. CASE ~(BeginMember(by, r) /\ box' # box)
    <3>1. \A o \in Ranks : box'[o] = box[o] \/ box'[o] = "absent"
      BY <2>2 DEF BeginMember, EndStray, Undo, Typed, Boxes
    <3> QED BY <1>1, <3>1, Sinking
  <2> QED BY <2>1, <2>2
<1> QED BY <1>4, <1>5

\* The agent of a rank ends its part of a launch.
LEMMA CoreEndMember == ASSUME IInv, NEW r \in Ranks, EndMember(r) PROVE Core'
<1> USE DEF IInv, Core
<1>1. UNCHANGED <<card, hold, raced>>
  BY DEF EndMember, rest
<1>2. ASSUME NEW by \in Launchers
      PROVE  launch'[by].id = launch[by].id /\ (launch[by].id = 0 => launch'[by] = launch[by])
  <2>1. PICK what \in LaunchStates : launch' = Hears(r, what)
    BY DEF EndMember, LaunchStates
  <2>2. CASE Current(by) /\ launch[by].st[r] = "sent"
    <3>1. launch[by].id # 0
      BY <2>2, Underway
    <3>2. launch'[by] = [launch[by] EXCEPT !.st[r] = what] /\ launch[by] \in Launch
      BY <2>1, <2>2 DEF Hears, Typed
    <3> QED BY <3>1, <3>2 DEF Launch
  <2>3. CASE ~(Current(by) /\ launch[by].st[r] = "sent")
    BY <2>1, <2>3 DEF Hears
  <2> QED BY <2>2, <2>3
<1>3. LaunchesOK' /\ LockOK' /\ PendingOK' /\ StopOutlastsMonitors'
  BY <1>1, <1>2, Moving
<1>4. \A o \in Ranks : \/ box'[o] = box[o] \/ box'[o] = "absent"
                       \/ box[o] = "creating" /\ box'[o] = "running"
  BY DEF EndMember, Typed, Boxes
<1> QED BY <1>1, <1>3, <1>4, Sinking

\* A launch writes its status: the card is its own or stays as it is.
LEMMA CoreWritten ==
  ASSUME IInv, NEW by \in Launchers,
         LaunchOk(by) \/ LaunchFails(by) \/ LaunchUndone(by)
  PROVE  Core'
<1> USE DEF IInv, Core
<1>1. launch[by].id # 0
  <2>1. launch[by] # NoLaunch
    BY DEF LaunchOk, LaunchFails, LaunchUndone, Heard
  <2> QED BY <2>1 DEF LaunchesOK
<1>2. UNCHANGED <<box, raced>>
  BY DEF LaunchOk, LaunchFails, LaunchUndone, counters
<1>3. hold' = hold \/ hold' = Free
  BY DEF LaunchOk, LaunchFails, LaunchUndone, LaunchOver
<1>4. /\ card'.on = card.on /\ card'.id = card.id /\ card'.desired = card.desired
      /\ card' = card \/ (Current(by) /\ card'.status \in {"starting", "error", "recovering"})
      /\ LaunchFails(by) => card' = card \/ card'.status = "error"
  <2>1. \A s \in {"starting", "error", "recovering"} :
          Writes(by, s) => \/ card' = card
                           \/ Current(by) /\ card' = [card EXCEPT !.status = s]
    BY DEF Writes
  <2>2. \/ card' = card
        \/ /\ Current(by)
           /\ \E s \in {"starting", "error", "recovering"} : card' = [card EXCEPT !.status = s]
    BY <2>1 DEF LaunchOk, LaunchFails, LaunchUndone
  <2>3. LaunchFails(by) => card' = card \/ card' = [card EXCEPT !.status = "error"]
    BY <2>1 DEF LaunchFails
  <2>4. card \in Card /\ {"starting", "error", "recovering"} \subseteq Statuses
    BY DEF Typed, Statuses
  <2>5. \A s \in {"starting", "error", "recovering"} : card' = [card EXCEPT !.status = s] =>
          /\ card'.on = card.on /\ card'.id = card.id /\ card'.desired = card.desired
          /\ card'.status = s
    BY <2>4, Writing
  <2>6. CASE card' = card
    BY <2>6
  <2>7. CASE card' # card
    BY <2>2, <2>3, <2>5, <2>7
  <2> QED BY <2>6, <2>7
<1>5. /\ \A o \in Launchers : o # by => launch'[o] = launch[o]
      /\ \/ launch'[by] = NoLaunch
         \/ LaunchFails(by) /\ launch'[by].id = launch[by].id
  <2>1. CASE LaunchFails(by)
    BY <2>1 DEF LaunchFails, Typed, Launch
  <2>2. CASE ~LaunchFails(by)
    BY <2>2 DEF LaunchOk, LaunchUndone, LaunchOver, Typed
  <2> QED BY <2>1, <2>2
<1>6. LaunchesOK'
  <2>1. NoLaunch.id = 0 /\ card.id \in Nat
    BY DEF NoLaunch, Typed, Card
  <2> QED BY <1>1, <1>4, <1>5, <2>1 DEF LaunchesOK, Launchers
<1>7. LockOK' /\ SettledOK' /\ StopOutlastsMonitors'
  <2>1. CASE hold' = Free
    BY <2>1, Freed
  <2>2. CASE hold' = hold
    BY <1>2, <1>4, <2>2 DEF LockOK, SettledOK, StopOutlastsMonitors
  <2> QED BY <1>3, <2>1, <2>2
<1>8. PendingOK'
  <2> SUFFICES ASSUME NEW o \in Launchers, Pending(o)'
               PROVE  /\ hold'.op \in {"free", "remove", "resumeLaunch"}
                      /\ card'.on => card'.status \in {"launching", "error"}
                                     /\ card'.desired = "running"
                      /\ hold'.op = "resumeLaunch" => card'.on
    BY DEF PendingOK
  <2>1. Pending(o) /\ (o = by => LaunchFails(by))
    BY <1>2, <1>4, <1>5 DEF Pending, NoLaunch
  <2>2. o # by => ~Current(by)
    BY <1>1, <2>1 DEF LaunchesOK, Launchers, Pending, Current
  <2>3. card' = card \/ card'.status = "error"
    BY <1>4, <2>1, <2>2
  <2> QED BY <1>3, <1>4, <2>1, <2>3 DEF PendingOK, Free
<1>9. StoppedMeansDown'
  BY <1>2, <1>4 DEF StoppedMeansDown
<1> QED BY <1>6, <1>7, <1>8, <1>9

\* A rank answers the holder of the lock.
LEMMA CoreMemberAction == ASSUME IInv, NEW r \in Ranks, MemberAction(r) PROVE Core'
<1> USE DEF IInv, Core
<1>1. UNCHANGED <<card, launch, raced>>
  BY DEF MemberAction, rest
<1>2. Answered(r, hold') \/ Refused(r, hold')
  BY DEF MemberAction, Answered, Refused
<1>3. /\ r \in hold.todo /\ hold'.op = hold.op /\ hold'.todo = hold.todo \ {r}
      /\ \/ hold'.ok = hold.ok \cup {r} /\ hold'.fail = hold.fail
         \/ hold'.ok = hold.ok /\ hold'.fail = hold.fail \cup {r}
  BY <1>2, Answering DEF MemberAction, Typed
<1>4. \/ box' = box
      \/ Accepts(hold.op, r) /\ box' = [box EXCEPT ![r] = Effect(hold.op, r)]
  BY DEF MemberAction
<1>5. hold'.ok # hold.ok => box' = [box EXCEPT ![r] = Effect(hold.op, r)]
  <2>1. \/ Answered(r, hold') /\ box' = [box EXCEPT ![r] = Effect(hold.op, r)]
        \/ Refused(r, hold')
    BY DEF MemberAction, Answered, Refused
  <2> QED BY <1>3, <2>1, Answering DEF Typed
<1>6. LaunchesOK' /\ PendingOK' /\ StopOutlastsMonitors'
  BY <1>1, <1>3 DEF LaunchesOK, PendingOK, Pending, StopOutlastsMonitors
<1>7. LockOK'
  BY <1>1, <1>3 DEF LockOK
<1>8. hold.op \in Stops \cup Removes => Effect(hold.op, r) \in {"absent", "stopped"}
  BY DEF Effect, Stops, Starts, Removes
<1>9. SettledOK'
  BY <1>1, <1>3, <1>4, <1>5, <1>8 DEF SettledOK, Typed, Boxes, Hold, Holds, Stops
<1>10. StoppedMeansDown'
  <2>1. card.on /\ card.desired = "stopped" => hold.op \in Stops \cup Removes
    <3>1. hold.op \in Stops \cup Starts \cup Removes
      BY <1>3 DEF Typed, Hold, Holds
    <3> QED BY <3>1 DEF Starts, LockOK, StopOutlastsMonitors
  <2> QED BY <1>1, <1>4, <1>8, <2>1 DEF StoppedMeansDown, Typed, Boxes
<1> QED BY <1>6, <1>7, <1>9, <1>10

\* Whoever takes the lock with launches under way overtakes them all.
LEMMA Overtaking ==
  ASSUME UNCHANGED launch, raced' = raced \cup Unwritten
  PROVE  \A by \in Launchers : ~Pending(by)'
<1> QED BY DEF Pending, Unwritten

\* Launches that no one begins or ends.
LEMMA Standing ==
  ASSUME LaunchesOK, UNCHANGED launch, card'.id = card.id
  PROVE  LaunchesOK'
<1> QED BY DEF LaunchesOK

\* The lock is taken.
LEMMA CoreBegins == ASSUME IInv, Begins PROVE Core'
<1> USE DEF IInv, Core
<1>1. CASE BeginStop
  <2>1. /\ card'.on /\ card'.id = card.id /\ card'.status = "stopping"
        /\ hold'.op = "stop" /\ hold'.todo = Ranks /\ hold'.ok = {}
    BY <1>1 DEF BeginStop, Found, Gathering, Typed, Card
  <2>2. LaunchesOK' /\ PendingOK'
    BY <1>1, <2>1, Overtaking, Standing DEF BeginStop, PendingOK
  <2> QED BY <2>1, <2>2 DEF LockOK, SettledOK, StopOutlastsMonitors, StoppedMeansDown
<1>2. CASE BeginStart
  <2>1. /\ card'.on /\ card'.id = card.id /\ card'.desired = "running" /\ hold'.op = "start"
    BY <1>2 DEF BeginStart, Found, Gathering, Typed, Card
  <2>2. LaunchesOK' /\ PendingOK'
    BY <1>2, <2>1, Overtaking, Standing DEF BeginStart, PendingOK
  <2> QED BY <2>1, <2>2 DEF LockOK, SettledOK, StopOutlastsMonitors, StoppedMeansDown
<1>3. CASE BeginRemove
  <2>1. /\ card.on /\ UNCHANGED <<card, box, launch, raced>> /\ hold'.op = "remove"
    BY <1>3 DEF BeginRemove, Found, Gathering, counters
  <2>2. PendingOK'
    BY <2>1 DEF PendingOK, Pending
  <2> QED BY <2>1, <2>2, Standing DEF LockOK, SettledOK, StopOutlastsMonitors, StoppedMeansDown
<1>4. CASE NotFound
  BY <1>4, Quiet DEF NotFound, core, counters
<1>5. CASE BeginRecover
  <2>1. CASE StillWatched
    <3>1. \A by \in Launchers : ~Pending(by)
      BY <2>1 DEF PendingOK, StillWatched, Watched
    <3>2. /\ card'.on /\ card'.id = card.id /\ card'.desired # "stopped"
          /\ hold'.op = "recoverStop" /\ hold'.todo = Ranks /\ hold'.ok = {}
      BY <1>5, <2>1 DEF BeginRecover, StillWatched, Watched, Gathering, Typed, Card
    <3>3. UNCHANGED <<box, launch, raced>>
      BY <1>5 DEF BeginRecover, counters
    <3>4. PendingOK'
      BY <3>1, <3>2, <3>3 DEF PendingOK, Pending
    <3> QED BY <3>2, <3>3, <3>4, Standing
            DEF LockOK, SettledOK, StopOutlastsMonitors, StoppedMeansDown
  <2>2. CASE ~StillWatched
    BY <1>5, <2>2, Quiet DEF BeginRecover, core, counters
  <2> QED BY <2>1, <2>2
<1>6. CASE BeginResume
  <2>1. UNCHANGED <<box, launch>> /\ raced' = raced \cup Unwritten /\ hold.op = "free"
    BY <1>6 DEF BeginResume, Turn
  <2>2. \/ card' = card /\ hold' = hold
        \/ /\ card.on /\ card.desired # "stopped"
           /\ \E s \in {"recovering", "error"} : card' = [card EXCEPT !.status = s]
           /\ hold' = hold \/ hold' = Gathering(Asker, "resumeRemove")
    BY <1>6 DEF BeginResume, StillInterrupted, Interrupted
  <2>3. hold'.op \in {"free", "resumeRemove"}
    BY <2>1, <2>2 DEF Gathering
  <2>4. CASE card' = card /\ hold' = hold
    <3>1. LaunchesOK' /\ PendingOK'
      BY <2>1, <2>4, Overtaking, Standing DEF PendingOK
    <3> QED BY <2>1, <2>4, <3>1 DEF LockOK, SettledOK, StopOutlastsMonitors, StoppedMeansDown
  <2>5. CASE ~(card' = card /\ hold' = hold)
    <3>1. /\ card'.on /\ card'.id = card.id /\ card'.desired # "stopped"
      <4>1. PICK s \in {"recovering", "error"} : card' = [card EXCEPT !.status = s]
        BY <2>2, <2>5
      <4> QED BY <2>2, <2>5, <4>1 DEF Typed, Card
    <3>2. LaunchesOK' /\ PendingOK'
      BY <2>1, <3>1, Overtaking, Standing DEF PendingOK
    <3> QED BY <2>3, <3>1, <3>2 DEF LockOK, SettledOK, StopOutlastsMonitors, StoppedMeansDown
  <2> QED BY <2>4, <2>5
<1>7. ASSUME NEW u \in SUBSET Ranks, BeginReconcile(u) PROVE Core'
  <2>1. UNCHANGED <<card, box, launch, raced>>
    BY <1>7 DEF BeginReconcile, rest
  <2>2. CASE StopPending
    <3>1. \A by \in Launchers : ~Pending(by)
      BY <2>2 DEF PendingOK, StopPending
    <3>2. hold'.op = "reconcile" /\ \A r \in hold'.ok : box[r] \notin {"creating", "running"}
      BY <1>7, <2>2 DEF BeginReconcile, Down
    <3>3. PendingOK'
      BY <2>1, <3>1 DEF PendingOK, Pending
    <3> QED BY <2>1, <2>2, <3>2, <3>3, Standing
            DEF LockOK, SettledOK, StopOutlastsMonitors, StoppedMeansDown, StopPending
  <2>3. CASE ~StopPending
    BY <1>7, <2>1, <2>3, Quiet DEF BeginReconcile, core
  <2> QED BY <2>2, <2>3
<1> QED BY <1>1, <1>2, <1>3, <1>4, <1>5, <1>6, <1>7 DEF Begins

\* The holder of the lock is done with a card that no launch has pending, or puts it in
\* error: what it reports stopped has to be down.
LEMMA Finishing ==
  ASSUME IInv, UNCHANGED <<box, launch, raced>>, hold' = Free,
         card'.id = card.id /\ card'.on = card.on /\ card'.desired = card.desired,
         (\A by \in Launchers : ~Pending(by)) \/ card'.status = "error",
         \/ card'.status # "stopped" \/ card' = card
         \/ card.id \in raced \/ \A r \in Ranks : box[r] \notin {"creating", "running"}
  PROVE  Core'
<1> USE DEF IInv, Core
<1>1. LaunchesOK'
  BY Standing
<1>2. PendingOK'
  BY DEF PendingOK, Pending, Free
<1>3. StoppedMeansDown'
  BY DEF StoppedMeansDown
<1> QED BY <1>1, <1>2, <1>3, Freed

\* Work that no launch under way allows.
LEMMA Unlaunched ==
  ASSUME PendingOK, hold.op \notin {"free", "remove", "resumeLaunch"}
  PROVE  \A by \in Launchers : ~Pending(by)
<1> QED BY DEF PendingOK

\* A new status of the same card.
Restated == \E s \in Statuses : card' = [card EXCEPT !.status = s]

\* It changes nothing else.
LEMMA Restating ==
  ASSUME Typed, Restated
  PROVE  card'.id = card.id /\ card'.on = card.on /\ card'.desired = card.desired
<1>1. PICK s \in Statuses : card' = [card EXCEPT !.status = s]
  BY DEF Restated
<1> QED BY <1>1 DEF Typed, Card

\* A card is reported stopped once every rank was confirmed.
LEMMA CoreEndStopped == ASSUME IInv, EndStop \/ EndReconcile PROVE Core'
<1> USE DEF IInv, Core
<1>1. UNCHANGED <<box, launch, raced>> /\ hold' = Free /\ hold.todo = {}
  BY DEF EndStop, EndReconcile, Gathered, counters
<1>2. card' = card \/ Restated
  BY DEF EndStop, EndReconcile, Restated, Statuses
<1>3. card'.id = card.id /\ card'.on = card.on /\ card'.desired = card.desired
  BY <1>2, Restating
<1>4. \A by \in Launchers : ~Pending(by)
  BY Unlaunched DEF EndStop, EndReconcile, Gathered
<1>5. card'.status # "stopped" \/ card' = card \/ hold.ok = Ranks
  <2>1. CASE EndStop
    <3>1. hold.fail = {} => hold.ok = Ranks
      BY <1>1, <2>1 DEF EndStop, Gathered, LockOK, Typed, Hold, Holds
    <3> QED BY <2>1, <3>1 DEF EndStop, Typed, Card
  <2>2. CASE EndReconcile
    BY <2>2 DEF EndReconcile
  <2> QED BY <2>1, <2>2
<1>6. card.id \in raced \/ (\A r \in hold.ok : box[r] \notin {"creating", "running"})
  BY DEF EndStop, EndReconcile, Gathered, SettledOK
<1> QED BY <1>1, <1>3, <1>4, <1>5, <1>6, Finishing

\* The lock is given back, or passes from one gather to the next.
LEMMA CoreEnds == ASSUME IInv, Ends PROVE Core'
<1> USE DEF IInv, Core
<1>1. CASE EndStop \/ EndReconcile
  BY <1>1, CoreEndStopped
<1>2. CASE EndStart \/ EndRecoverStart
  <2>1. UNCHANGED <<box, launch, raced>> /\ hold' = Free
    BY <1>2 DEF EndStart, EndRecoverStart, counters
  <2>2. Restated /\ card'.status # "stopped"
    BY <1>2 DEF EndStart, EndRecoverStart, Restated, Statuses, Typed, Card
  <2>3. \A by \in Launchers : ~Pending(by)
    BY <1>2, Unlaunched DEF EndStart, EndRecoverStart, Gathered
  <2> QED BY <2>1, <2>2, <2>3, Restating, Finishing
<1>3. CASE EndRemove
  <2>1. UNCHANGED <<box, launch, raced>> /\ hold' = Free
    BY <1>3 DEF EndRemove, counters
  <2>2. CASE hold.fail = {}
    <3>1. card'.id = card.id /\ ~card'.on
      BY <1>3, <2>2 DEF EndRemove, NoCard
    <3>2. PendingOK'
      BY <2>1, <3>1 DEF PendingOK, Free
    <3> QED BY <2>1, <3>1, <3>2, Standing, Freed DEF StoppedMeansDown
  <2>3. CASE hold.fail # {}
    <3>1. Restated /\ card'.status = "error"
      BY <1>3, <2>3 DEF EndRemove, Restated, Statuses, Typed, Card
    <3> QED BY <2>1, <3>1, Restating, Finishing
  <2> QED BY <2>2, <2>3
<1>4. CASE EndRecoverStop
  <2>1. UNCHANGED <<box, launch, raced>> /\ hold.op = "recoverStop" /\ hold.todo = {}
    BY <1>4 DEF EndRecoverStop, Gathered, counters
  <2>2. \A by \in Launchers : ~Pending(by)
    BY <2>1, Unlaunched
  <2>3. CASE hold.fail = {}
    <3>1. card' = card /\ hold'.op = "recoverStart" /\ hold'.todo = Ranks
      BY <1>4, <2>3 DEF EndRecoverStop, Gathering
    <3>2. Ranks \subseteq hold.ok
      BY <2>1, <2>3 DEF LockOK
    <3>3. SettledOK'
      BY <2>1, <3>1, <3>2 DEF SettledOK
    <3>4. PendingOK'
      BY <2>1, <2>2, <3>1 DEF PendingOK, Pending
    <3> QED BY <2>1, <3>1, <3>3, <3>4, Standing
            DEF LockOK, StopOutlastsMonitors, StoppedMeansDown
  <2>4. CASE hold.fail # {}
    <3>1. Restated /\ card'.status # "stopped" /\ hold' = Free
      BY <1>4, <2>4 DEF EndRecoverStop, Restated, Statuses, Typed, Card
    <3> QED BY <2>1, <2>2, <3>1, Restating, Finishing
  <2> QED BY <2>3, <2>4
<1>5. CASE EndResumeRemove
  <2>1. UNCHANGED <<box, launch, raced>> /\ hold.op = "resumeRemove"
    BY <1>5 DEF EndResumeRemove, Gathered, counters
  <2>2. \A by \in Launchers : ~Pending(by)
    BY <2>1, Unlaunched
  <2>3. CASE hold.fail = {}
    <3>1. card'.id = card.id /\ ~card'.on /\ hold'.op = "resumeLaunch"
      BY <1>5, <2>3 DEF EndResumeRemove, NoCard, Typed, Hold, Holds
    <3>2. PendingOK'
      BY <2>1, <2>2, <3>1 DEF PendingOK, Pending
    <3> QED BY <2>1, <3>1, <3>2, Standing
            DEF LockOK, SettledOK, StopOutlastsMonitors, StoppedMeansDown
  <2>4. CASE hold.fail # {}
    <3>1. Restated /\ card'.status # "stopped" /\ hold' = Free
      <4>1. PICK s \in {"recovering", "error"} : card' = [card EXCEPT !.status = s]
        BY <1>5, <2>4 DEF EndResumeRemove
      <4> QED BY <1>5, <2>4, <4>1 DEF EndResumeRemove, Restated, Statuses, Typed, Card
    <3> QED BY <2>1, <2>2, <3>1, Restating, Finishing
  <2> QED BY <2>3, <2>4
<1>6. CASE ResumeLaunch
  <2>1. hold.op = "resumeLaunch" /\ ~card.on /\ card.id \in Nat /\ UNCHANGED raced
    BY <1>6 DEF ResumeLaunch, rest, Typed, Card
  <2>2. CASE card' = NewCard(card.id + 1) /\ UNCHANGED hold
             /\ launch' = [launch EXCEPT !["resumer"] = Launching(card.id + 1)]
    <3>1. launch'["resumer"] = Launching(card.id + 1) /\ launch'["user"] = launch["user"]
      BY <2>2 DEF Typed, Launchers
    <3>2. /\ card'.id = card.id + 1 /\ card'.on
          /\ card'.status = "launching" /\ card'.desired = "running"
      BY <2>1, <2>2, NewCards
    <3>3. LaunchesOK'
      <4>1. launch["user"].id \in Nat /\ launch["user"].id <= card.id
        BY DEF LaunchesOK, Launchers, Typed, Launch
      <4> QED BY <2>1, <3>1, <3>2, <4>1 DEF LaunchesOK, Launchers, Launching
    <3>4. PendingOK'
      BY <2>1, <2>2, <3>2 DEF PendingOK
    <3> QED BY <2>1, <2>2, <3>2, <3>3, <3>4
            DEF LockOK, SettledOK, StopOutlastsMonitors, StoppedMeansDown
  <2>3. CASE hold' = Free /\ UNCHANGED <<launch, box>>
             /\ \E s \in {"recovering", "error"} :
                  card' = [NewCard(card.id) EXCEPT !.status = s]
    <3>1. card'.id = card.id /\ card'.desired = "running"
      BY <2>3 DEF NewCard
    <3>2. \A by \in Launchers : ~Pending(by)
      BY <2>1 DEF PendingOK
    <3>3. PendingOK'
      BY <2>1, <2>3, <3>1, <3>2 DEF PendingOK, Pending
    <3> QED BY <2>1, <2>3, <3>1, <3>3, Standing, Freed DEF StoppedMeansDown
  <2> QED BY <1>6, <2>2, <2>3 DEF ResumeLaunch
<1> QED BY <1>1, <1>2, <1>3, <1>4, <1>5, <1>6 DEF Ends

\* The controller dies, servers die, Docker brings them back.
LEMMA CoreSurroundings == ASSUME IInv, Surroundings PROVE Core'
<1> USE DEF IInv, Core
<1>1. CASE Crash
  <2>1. /\ hold' = Free /\ raced \subseteq raced'
        /\ launch' = [by \in Launchers |-> NoLaunch]
    BY <1>1 DEF Crash
  <2>2. /\ card'.on = card.on /\ card'.id = card.id /\ card'.desired = card.desired
        /\ card'.status = "stopped" => card.status = "stopped"
        /\ card.id \in Nat
    BY <1>1 DEF Crash, Typed, Card
  <2>3. LaunchesOK' /\ PendingOK'
    BY <2>1, <2>2 DEF LaunchesOK, PendingOK, Pending, NoLaunch, Launchers
  <2>4. StoppedMeansDown'
    <3>1. \A r \in Ranks : box'[r] = box[r] \/ box[r] = "creating"
      BY <1>1 DEF Crash, Typed, Boxes
    <3> QED BY <2>1, <2>2, <3>1 DEF StoppedMeansDown
  <2> QED BY <2>1, <2>3, <2>4, Freed
<1>2. ASSUME NEW dead \in SUBSET Ranks, Exit(dead) PROVE Core'
  <2>1. UNCHANGED <<card, hold, raced, launch>>
    BY <1>2 DEF Exit, rest
  <2>2. LaunchesOK' /\ LockOK' /\ PendingOK' /\ StopOutlastsMonitors'
    BY <2>1, Moving
  <2>3. \A r \in Ranks : box'[r] = box[r] \/ (box[r] \in Up /\ box'[r] = "exited")
    BY <1>2 DEF Exit, Typed, Boxes
  <2> QED BY <2>1, <2>2, <2>3, Sinking
<1>3. ASSUME NEW r \in Ranks, Revive(r) PROVE Core'
  <2>1. UNCHANGED <<card, hold, raced, launch>>
    BY <1>3 DEF Revive, counters
  <2>2. LaunchesOK' /\ LockOK' /\ PendingOK' /\ StopOutlastsMonitors'
    BY <2>1, Moving
  <2>3. \A o \in Ranks : box'[o] = box[o] \/ (box[o] = "exited" /\ box'[o] = "revived")
    BY <1>3 DEF Revive, Typed, Boxes
  <2> QED BY <2>1, <2>2, <2>3, Sinking
<1> QED BY <1>1, <1>2, <1>3 DEF Surroundings

\* Each step keeps the parts.
LEMMA CoreNext == ASSUME IInv, [Next]_vars PROVE Core'
<1>1. CASE UNCHANGED vars
  BY <1>1, Quiet DEF vars, counters, core, IInv
<1>2. CASE Create
  BY <1>2, CoreCreate
<1>3. CASE Launches
  BY <1>3, CoreWritten, CoreMembers DEF Launches
<1>4. CASE Members
  BY <1>4, CoreEndMember, CoreMemberAction DEF Members
<1>5. CASE Begins \/ Ends
  BY <1>5, CoreBegins, CoreEnds
<1>6. CASE Monitoring
  <2>1. UNCHANGED core
    BY <1>6 DEF Monitoring, HealthTick, Probe, Observe, RetryTick, RetryTurn, StopperPass,
                ResumerPass, core, counters, rest
  <2> QED BY <2>1, Quiet DEF IInv
<1>7. ASSUME NEW op \in {"start", "stop", "remove"}, UserAsks(op) PROVE Core'
  BY <1>7, Quiet DEF UserAsks, core, IInv
<1>8. CASE Surroundings
  BY <1>8, CoreSurroundings
<1> QED BY <1>1, <1>2, <1>3, <1>4, <1>5, <1>6, <1>7, <1>8, NextCases, Zenon

-----------------------------------------------------------------------------
\* The inductive invariant holds throughout the deployment's life.
THEOREM InductiveInvariant == Spec => []IInv
<1>1. Init => IInv
  BY InitIInv
<1>2. IInv /\ [Next]_vars => IInv'
  BY TypedNext, CoreNext DEF IInv
<1> QED BY <1>1, <1>2, PTL DEF Spec

\* The card, the containers, the launches and the lock's queue keep their types,
\* whoever acts on them (manager.py).
THEOREM TypeCorrect == Spec => []TypeOK
<1>1. IInv => TypeOK
  BY TypedMeansTypeOK DEF IInv
<1> QED BY <1>1, InductiveInvariant, PTL

\* _recover_cluster_deployment starts ranks as one new generation: a rank that it has yet
\* to start does not run, unless a launch that a Start overtook fills the nodes meanwhile.
THEOREM RecoveryFromRest == Spec => []RecoveryStartsFromRest
<1>1. IInv => RecoveryStartsFromRest
  BY DEF IInv, Core, SettledOK, RecoveryStartsFromRest, Up
<1> QED BY <1>1, InductiveInvariant, PTL

\* A recorded Stop outlasts the monitors that queued for the lock before it.
THEOREM StopsLast == Spec => []StopOutlastsMonitors
<1>1. IInv => StopOutlastsMonitors
  BY DEF IInv, Core
<1> QED BY <1>1, InductiveInvariant, PTL

\* What the card reports stopped is down, except for the ranks of a launch that was
\* overtaken or cut short and for what Docker restarts.
THEOREM StoppedIsDown == Spec => []StoppedMeansDown
<1>1. IInv => StoppedMeansDown
  BY DEF IInv, Core
<1> QED BY <1>1, InductiveInvariant, PTL
=============================================================================
