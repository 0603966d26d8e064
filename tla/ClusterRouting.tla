--------------------------- MODULE ClusterRouting ---------------------------
(***************************************************************************)
(* Routing of inference requests over the members of one deployment        *)
(* (src/manager.py): replicas, or the coordinators of engine groups.       *)
(*                                                                         *)
(* A request computes a route - members by load, the ones that look        *)
(* available first - and tries them in turn.  A member is reserved from    *)
(* its selection until its answer or stream has ended, so its load counts  *)
(* requests still waiting for the prompt gate or for the readiness probe.  *)
(* While no answer has come a failure moves on to the next member; a       *)
(* streamed answer is handed to the caller with its headers and goes on    *)
(* failing over inside the relay until its first event is read.  When no   *)
(* member can serve, the whole route is tried again for a while (the       *)
(* ride-through), unless an engine may already have the prompt.            *)
(*                                                                         *)
(* The prompt gate and the admission slots are modules of their own        *)
(* (PromptGate, InferenceAdmission); here they grant or refuse.            *)
(***************************************************************************)
EXTENDS Naturals, Sequences, FiniteSets

CONSTANTS Requests,     \* inference requests
          Members,      \* members that may serve
          MaxPasses     \* bound on the passes of one request's ride-through

ASSUME RoutingAssumption ==
  IsFiniteSet(Requests) /\ IsFiniteSet(Members) /\ MaxPasses \in Nat \ {0}

VARIABLES
  req,        \* each request: where it is, its member, the members left to
              \* try, the pass, and what the passes have seen
  load,       \* _cluster_member_load_counts
  desired,    \* the deployment's desired_state
  sent,       \* history: the engines that got a request's prompt, by pass
  read        \* history: the members whose events the client has read

vars == <<req, load, desired, sent, read>>

\* The stages in which the code holds the request's member.
Holding == {"waiting", "probing", "admission", "connecting", "asked", "offered",
            "priming", "relaying"}

\* Where the response is gone and nobody reads its stream.
Lost == {"dropped", "orphaned"}

Stages == {"idle", "routing", "next", "pausing", "done"} \cup Holding \cup Lost

\* No member chosen yet.
Nobody == "nobody"

NoRequest == [at |-> "idle", m |-> Nobody, rest |-> <<>>,
              stream |-> FALSE, relay |-> FALSE, pass |-> 1, first |-> FALSE,
              unsafe |-> FALSE, expired |-> FALSE, freed |-> FALSE]

(***************************************************************************)
(* The member's load.                                                      *)
(***************************************************************************)

Freed(m) == [load EXCEPT ![m] = IF @ = 0 THEN 0 ELSE @ - 1]

\* The reaper and the stream's own finally block share one guard.
\* MUTANT of ReleaseOnce: the member is released whoever has done so before.
ReleaseAlways(r) == load' = Freed(req[r].m)
ReleaseOnce(r) == load' = IF req[r].freed THEN load ELSE Freed(req[r].m)

Goto(r, stage) == req' = [req EXCEPT ![r].at = stage]
Same == UNCHANGED <<load, desired, sent, read>>

\* The request is over; its member is free.
Ends(r) == Goto(r, "done") /\ ReleaseOnce(r) /\ UNCHANGED <<desired, sent, read>>

(***************************************************************************)
(* The route.                                                              *)
(***************************************************************************)

Arrive(r, stream) ==
  /\ req[r].at = "idle"
  /\ req' = [req EXCEPT ![r].at = "routing", ![r].stream = stream]
  /\ Same

\* m comes no later than n in a route: members that look available come
\* first, the less loaded before the others.
Before(avail, m, n) ==
  IF (m \in avail) = (n \in avail) THEN load[m] <= load[n] ELSE m \in avail

\* The orders the route can have.  Which of several equals leads is left
\* open: the rotation and the prefix affinity only choose among those.
Orders(S, avail) ==
  {o \in [1 .. Cardinality(S) -> S] :
     \A i, j \in 1 .. Cardinality(S) :
       i < j => o[i] # o[j] /\ Before(avail, o[i], o[j])}

\* S are the members in the rotation (for engine groups: the running ones).
Route(r, S, avail) ==
  /\ req[r].at = "routing"
  /\ \/ /\ desired = "stopped" \/ S = {}
        /\ Goto(r, "done")
     \/ /\ desired # "stopped" /\ S # {}
        /\ \E o \in Orders(S, avail) :
             req' = [req EXCEPT ![r].at = "next", ![r].rest = o, ![r].first = TRUE]
  /\ Same

\* MUTANT of TryNext: the member stays among those left to try.
TryNextAgain(r) ==
  /\ req[r].at = "next" /\ req[r].rest # <<>>
  /\ req[r].relay \/ req[r].first \/ ~req[r].expired
  /\ LET m == Head(req[r].rest) IN
     /\ req' = [req EXCEPT ![r].at = "waiting", ![r].m = m,
                           ![r].first = FALSE, ![r].freed = FALSE]
     /\ load' = [load EXCEPT ![m] = @ + 1]
  /\ UNCHANGED <<desired, sent, read>>

\* The next member is reserved and the request waits for the prompt gate.
\* Within a pass a window that closed ends the pass instead.
TryNext(r) ==
  /\ req[r].at = "next" /\ req[r].rest # <<>>
  /\ req[r].relay \/ req[r].first \/ ~req[r].expired
  /\ LET m == Head(req[r].rest) IN
     /\ req' = [req EXCEPT ![r].at = "waiting", ![r].m = m, ![r].rest = Tail(@),
                           ![r].first = FALSE, ![r].freed = FALSE]
     /\ load' = [load EXCEPT ![m] = @ + 1]
  /\ UNCHANGED <<desired, sent, read>>

\* The client is gone, or the window closed with members left to try.
GiveUp(r) ==
  /\ req[r].at \in {"next", "pausing"} /\ ~req[r].relay
  /\ Goto(r, "done")
  /\ Same

\* Nothing is left to try: the relay closes the stream with an error event.
Exhausted(r) ==
  /\ req[r].at = "next" /\ req[r].relay /\ req[r].rest = <<>>
  /\ Goto(r, "done")
  /\ Same

WindowCloses(r) ==
  /\ req[r].at \notin {"idle", "done"} \cup Lost /\ ~req[r].relay /\ ~req[r].expired
  /\ req' = [req EXCEPT ![r].expired = TRUE]
  /\ Same

(***************************************************************************)
(* One member.                                                             *)
(***************************************************************************)

\* What a failure worth another member leads to.  `unsent` failures prove
\* that no engine got the prompt; any other forbids the ride-through.
\* MUTANT of Afterwards: only the last failure of a pass decides.
AfterwardsLast(r, unsent) ==
  LET q == req[r] IN
  [q EXCEPT !.at = IF q.rest # <<>> \/ q.relay THEN "next"
                   ELSE IF unsent /\ ~q.expired /\ q.pass < MaxPasses THEN "pausing" ELSE "done",
            !.freed = TRUE]

Afterwards(r, unsent) ==
  LET q == req[r]
      unsafe == q.unsafe \/ ~unsent
  IN [q EXCEPT !.at = IF q.rest # <<>> \/ q.relay THEN "next"
                      ELSE IF ~unsafe /\ ~q.expired /\ q.pass < MaxPasses THEN "pausing" ELSE "done",
               !.unsafe = unsafe, !.freed = TRUE]

FailsOver(r, unsent) ==
  /\ req' = [req EXCEPT ![r] = Afterwards(r, unsent)]
  /\ ReleaseOnce(r)
  /\ UNCHANGED <<desired, sent, read>>

\* The gate lets the prompt in.  The engine may have been replaced or its
\* group stopped meanwhile; a stopped deployment fails the request.
Granted(r, changed) ==
  /\ req[r].at = "waiting"
  /\ \/ changed /\ FailsOver(r, TRUE)
     \/ ~changed /\ desired = "stopped" /\ Ends(r)
     \/ ~changed /\ desired # "stopped" /\ Goto(r, "probing") /\ Same

\* The readiness probe: ready, not serving, or refused for good.
Probed(r) ==
  /\ req[r].at = "probing"
  /\ \/ Goto(r, "admission") /\ Same
     \/ \E transient \in BOOLEAN : FailsOver(r, transient)

\* A slot of the member's admission pool, or the queue's timeout.
Admitted(r) ==
  /\ req[r].at = "admission"
  /\ \/ Goto(r, "connecting") /\ Same
     \/ FailsOver(r, FALSE)

\* The connection is refused, or the agent has no such container.
Refused(r) ==
  /\ req[r].at = "connecting"
  /\ FailsOver(r, TRUE)

Reached(r) ==
  /\ req[r].at = "connecting"
  /\ Goto(r, "asked")
  /\ sent' = [sent EXCEPT ![r] = @ \cup {[m |-> req[r].m, pass |-> req[r].pass]}]
  /\ UNCHANGED <<load, desired, read>>

\* A complete answer ends the request; the headers of a stream hand it to
\* the caller, or to the relay when that is already running.
Answered(r) ==
  /\ req[r].at = "asked"
  /\ \/ ~req[r].stream /\ Ends(r)
     \/ req[r].stream /\ Goto(r, IF req[r].relay THEN "priming" ELSE "offered") /\ Same

\* A server error or a lost connection after the prompt was sent.
Broken(r) ==
  /\ req[r].at = "asked"
  /\ FailsOver(r, FALSE)

\* The engine rejects the request, or the stream it was relaying ends or breaks.
Concluded(r) ==
  /\ req[r].at \in {"asked", "priming", "relaying"}
  /\ Ends(r)

(***************************************************************************)
(* The relayed stream.                                                     *)
(***************************************************************************)

StartRelay(r) ==
  /\ req[r].at = "offered"
  /\ req' = [req EXCEPT ![r].at = "priming", ![r].relay = TRUE]
  /\ Same

\* The first event commits the client to this member.
FirstEvent(r) ==
  /\ req[r].at = "priming"
  /\ Goto(r, "relaying")
  /\ read' = [read EXCEPT ![r] = @ \cup {req[r].m}]
  /\ UNCHANGED <<load, desired, sent>>

\* MUTANT of Fruitless: a stream that breaks later is failed over as well.
FruitlessLate(r) ==
  /\ req[r].at \in {"priming", "relaying"}
  /\ FailsOver(r, FALSE)

\* The stream ends, breaks or reports a server error before its first event.
Fruitless(r) ==
  /\ req[r].at = "priming"
  /\ FailsOver(r, FALSE)

\* The client disconnects while the request is being worked on.
Abort(r) ==
  /\ req[r].at \in Holding \ {"offered"}
  /\ Ends(r)

(***************************************************************************)
(* Responses nobody reads.                                                 *)
(***************************************************************************)

\* The response is dropped before its first read, or its producer cancelled before
\* its first turn, when no finally block of the stream can run; or its consumer dies
\* in the middle.
Abandoned(r) ==
  /\ \/ req[r].at \in {"offered", "priming"} /\ Goto(r, "dropped")
     \/ req[r].at = "relaying" /\ Goto(r, "orphaned")
  /\ Same

\* The admission reaper finds the stream without an owner.
Reaped(r) ==
  /\ req[r].at \in Lost /\ ~req[r].freed
  /\ req' = [req EXCEPT ![r].at = IF @ = "dropped" THEN "done" ELSE @, ![r].freed = TRUE]
  /\ ReleaseOnce(r)
  /\ UNCHANGED <<desired, sent, read>>

\* The orphaned stream is closed at last.
Collected(r) ==
  /\ req[r].at = "orphaned"
  /\ Ends(r)

\* The backoff is over: the route is computed anew.
PauseEnds(r) ==
  /\ req[r].at = "pausing"
  /\ req' = [req EXCEPT ![r].at = "routing", ![r].pass = @ + 1]
  /\ Same

StopDeployment ==
  /\ desired = "running"
  /\ desired' = "stopped"
  /\ UNCHANGED <<req, load, sent, read>>

(***************************************************************************)
(* The specification.                                                      *)
(***************************************************************************)

Init ==
  /\ req = [r \in Requests |-> NoRequest]
  /\ load = [m \in Members |-> 0]
  /\ desired = "running"
  /\ sent = [r \in Requests |-> {}]
  /\ read = [r \in Requests |-> {}]

RouteStep(r) ==
  \/ \E stream \in BOOLEAN : Arrive(r, stream)
  \/ \E S, avail \in SUBSET Members : Route(r, S, avail)
  \/ TryNext(r) \/ GiveUp(r) \/ Exhausted(r) \/ WindowCloses(r) \/ PauseEnds(r)

MemberStep(r) ==
  \/ \E changed \in BOOLEAN : Granted(r, changed)
  \/ Probed(r) \/ Admitted(r) \/ Refused(r) \/ Reached(r)
  \/ Answered(r) \/ Broken(r) \/ Concluded(r)

StreamStep(r) ==
  \/ StartRelay(r) \/ FirstEvent(r) \/ Fruitless(r) \/ Abort(r)
  \/ Abandoned(r) \/ Reaped(r) \/ Collected(r)

\* All requests are over.
Finished == (\A r \in Requests : req[r].at = "done") /\ UNCHANGED vars

Next ==
  \/ \E r \in Requests : RouteStep(r) \/ MemberStep(r) \/ StreamStep(r)
  \/ StopDeployment
  \/ Finished

Spec == Init /\ [][Next]_vars

(***************************************************************************)
(* Properties.                                                             *)
(***************************************************************************)

\* Types of the variables.  A request in a member's hands has that member, and
\* does not have it left to try: within a pass nobody is tried twice
\* (_cluster_route_order, and the relay going on with candidates[index + 1:]).
TypeOK ==
  /\ req \in [Requests -> [at : Stages, m : Members \cup {Nobody}, rest : Seq(Members), stream : BOOLEAN,
                           relay : BOOLEAN, pass : 1 .. MaxPasses, first : BOOLEAN,
                           unsafe : BOOLEAN, expired : BOOLEAN, freed : BOOLEAN]]
  /\ \A r \in Requests :
       req[r].at \in Holding \cup Lost =>
         /\ req[r].m \in Members
         /\ \A i \in DOMAIN req[r].rest : req[r].rest[i] # req[r].m
  /\ load \in [Members -> Nat]
  /\ desired \in {"running", "stopped"}
  /\ sent \in [Requests -> SUBSET [m : Members, pass : 1 .. MaxPasses]]
  /\ read \in [Requests -> SUBSET Members]

Serves(r, m) ==
  /\ req[r].m = m
  /\ req[r].at \in Holding \/ (req[r].at \in Lost /\ ~req[r].freed)

\* A member's load is the number of requests it was selected for and that
\* have not ended, through waiting, probe, failover, relay, disconnect and the
\* reaper: never idle between selection and serving, never released twice
\* (_acquire_cluster_member and its release callbacks).
LoadsMatchHolders ==
  \A m \in Members : load[m] = Cardinality({r \in Requests : Serves(r, m)})

\* An engine is given the prompt only while the client has read no event, and
\* in a later pass of the ride-through only if no engine got it in an earlier
\* one: no prompt that may be generating is replayed behind the client's back.
PromptNeverReplayed ==
  [][\A r \in Requests :
       sent'[r] # sent[r] => read[r] = {} /\ \A s \in sent[r] : s.pass = req[r].pass]_vars
=============================================================================
