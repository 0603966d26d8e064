----------------------------- MODULE PromptGate -----------------------------
(***************************************************************************)
(* The gate that lets a bounded number of prompts be processed at a time   *)
(* by one serving group (sparkdeck/prompt_gate.py).  A call waits for a    *)
(* lease, runs the upstream factory in a task of its own and, if that      *)
(* answers with a stream, reads it eagerly in a producer task.  The lease  *)
(* ends at the first generated output, or with the call.                   *)
(*                                                                         *)
(* An action is what one asyncio task does between two awaits.             *)
(***************************************************************************)
EXTENDS FifoQueue, FiniteSets

CONSTANTS
  Requests,     \* calls of PromptGate.run, each made once
  Limits        \* values of the max_concurrent_prompt_processing setting

ASSUME ConstantsAssumption ==
  /\ IsFiniteSet(Requests)
  /\ Limits \subseteq Nat \ {0}

VARIABLES
  pc,        \* where the call, or its consumer once it streams, stands
  cancel,    \* the asyncio.Event set when the client disconnects
  ticket,    \* the call's future and PromptLease
  work,      \* the factory task, and then the producer task of the stream; "leaked"
             \* if a cancellation cut short the await that closes the exchange
  streams,   \* the factory answered with a stream
  open,      \* the call's upstream exchange is open
  shown,     \* the stream has generated output
  active,    \* PromptGate.active
  waiting,   \* PromptGate._waiting, the futures still pending
  limit      \* the setting, live

callVars == <<pc, cancel, work, streams, open, shown>>
gateVars == <<ticket, active, waiting, limit>>
vars == <<callVars, gateVars>>

-----------------------------------------------------------------------------
(***************************************************************************)
(* The gate, as functions of a record G of its state.                      *)
(***************************************************************************)
Gate == [ticket |-> ticket, active |-> active, waiting |-> waiting]
Becomes(G) == \E N \in {G} : ticket' = N.ticket /\ active' = N.active /\ waiting' = N.waiting

\* MUTANT of Refresh: one future too many is completed.
RefreshOver(G, n) ==
  LET k == IF G.active > n THEN 0 ELSE Least(Len(G.waiting), n + 1 - G.active)
      granted == {G.waiting[i] : i \in 1..k}
  IN  [ticket |-> [r \in Requests |-> IF r \in granted THEN "held" ELSE G.ticket[r]],
       active |-> G.active + k,
       waiting |-> SubSeq(G.waiting, k + 1, Len(G.waiting))]

\* PromptGate.refresh under limit n.
Refresh(G, n) ==
  LET k == IF G.active >= n THEN 0 ELSE Least(Len(G.waiting), n - G.active)
      granted == {G.waiting[i] : i \in 1..k}
  IN  [ticket |-> [r \in Requests |-> IF r \in granted THEN "held" ELSE G.ticket[r]],
       active |-> G.active + k,
       waiting |-> SubSeq(G.waiting, k + 1, Len(G.waiting))]

\* MUTANT of Release: a second release counts again.
ReleaseAgain(G, r) ==
  Refresh([G EXCEPT !.ticket[r] = "released", !.active = G.active - 1], limit)

\* PromptLease.release: once.
Release(G, r) ==
  IF G.ticket[r] # "held" THEN G
  ELSE Refresh([G EXCEPT !.ticket[r] = "released", !.active = G.active - 1], limit)

\* The except branch of acquire.
Leave(G, r) ==
  IF G.ticket[r] = "held" THEN Release(G, r)
  ELSE [G EXCEPT !.ticket[r] = "released", !.waiting = Without(G.waiting, r)]

-----------------------------------------------------------------------------
(***************************************************************************)
(* The call.                                                               *)
(***************************************************************************)
Goto(r, label) == pc' = [pc EXCEPT ![r] = label]
Ended(r) == work[r] \in {"ended", "unstarted", "leaked"}

\* The call, or its stream, is over with the gate in state G; stillOpen if it left
\* its exchange open.  Its locals go out of scope.
Exit(r, G, stillOpen) ==
  /\ Goto(r, "done")
  /\ cancel' = [cancel EXCEPT ![r] = FALSE]
  /\ streams' = [streams EXCEPT ![r] = FALSE]
  /\ shown' = [shown EXCEPT ![r] = FALSE]
  /\ open' = [open EXCEPT ![r] = stillOpen]
  /\ work' = [work EXCEPT ![r] = IF work[r] = "leaked" THEN "leaked" ELSE "none"]
  /\ Becomes(G)
  /\ UNCHANGED limit

\* MUTANT of Cancelled: task.cancel() without the cancelling() guard ends a task
\* in the middle of its clean-up.
CancelledAgain(w) ==
  CASE w = "created" -> "doomed"
    [] w = "running" -> "closing"
    [] w = "finishing" -> "cut"
    [] w = "closing" -> "ended"
    [] OTHER -> w

\* _cancel_once on a task in state w.  One that has not had its first turn never
\* runs.  One that is past its work and in its finally block was not cancelled
\* before, so the cancellation lands inside that block.
Cancelled(w) ==
  CASE w = "created" -> "doomed"
    [] w = "running" -> "closing"
    [] w = "finishing" -> "cut"
    [] OTHER -> w

\* acquire up to its await.
Join(r) ==
  /\ pc[r] = "new"
  /\ \/ /\ cancel[r]
        /\ Exit(r, Gate, FALSE)
     \/ /\ ~cancel[r]
        /\ Goto(r, "waiting")
        /\ Becomes(Refresh([Gate EXCEPT !.ticket[r] = "waiting",
                                        !.waiting = Append(waiting, r)], limit))
        /\ UNCHANGED <<cancel, work, streams, open, shown, limit>>

Disconnect(r) ==
  /\ pc[r] # "done"
  /\ ~cancel[r]
  /\ cancel' = [cancel EXCEPT ![r] = TRUE]
  /\ UNCHANGED <<pc, work, streams, open, shown, gateVars>>

\* The wait ends by the cancel event or by cancellation of the call's own task,
\* possibly after the future was completed.
GiveUp(r) ==
  /\ pc[r] = "waiting"
  /\ Exit(r, Leave(Gate, r), FALSE)

\* The wait ends with a lease: run creates the factory task.
Granted(r) ==
  /\ pc[r] = "waiting"
  /\ ticket[r] = "held"
  /\ ~cancel[r]
  /\ Goto(r, "dispatching")
  /\ work' = [work EXCEPT ![r] = "created"]
  /\ UNCHANGED <<cancel, streams, open, shown, gateVars>>

\* The first turn of the factory task, which calls upstream, or of the producer.
FirstTurn(r) ==
  /\ work[r] = "created"
  /\ work' = [work EXCEPT ![r] = "running"]
  /\ open' = [open EXCEPT ![r] = TRUE]
  /\ UNCHANGED <<pc, cancel, streams, shown, gateVars>>

\* The factory returns a stream ...
Answers(r) ==
  /\ pc[r] = "dispatching"
  /\ work[r] = "running"
  /\ work' = [work EXCEPT ![r] = "ended"]
  /\ streams' = [streams EXCEPT ![r] = TRUE]
  /\ UNCHANGED <<pc, cancel, open, shown, gateVars>>

\* ... or it, or the producer, is through with upstream and enters the finally
\* block that closes the exchange.
Finishes(r) ==
  /\ work[r] = "running"
  /\ work' = [work EXCEPT ![r] = "finishing"]
  /\ UNCHANGED <<pc, cancel, streams, open, shown, gateVars>>

\* MUTANT of Settles: the lease is left to the consumer's close.
SettlesKeeping(r) ==
  /\ \/ /\ work[r] \in {"finishing", "closing", "cut"}
        /\ work' = [work EXCEPT ![r] = "ended"]
        /\ open' = [open EXCEPT ![r] = FALSE]
     \/ /\ work[r] = "doomed"
        /\ work' = [work EXCEPT ![r] = "unstarted"]
        /\ UNCHANGED open
  /\ UNCHANGED <<pc, cancel, streams, shown, gateVars>>

\* The task is over.  A producer releases the lease, in its finally block or in
\* its done callback _finished.
Settles(r) ==
  /\ \/ /\ work[r] \in {"finishing", "closing", "cut"}
        /\ work' = [work EXCEPT ![r] = "ended"]
        /\ open' = [open EXCEPT ![r] = FALSE]
     \/ /\ work[r] = "cut"
        /\ work' = [work EXCEPT ![r] = "leaked"]
        /\ UNCHANGED open
     \/ /\ work[r] = "doomed"
        /\ work' = [work EXCEPT ![r] = "unstarted"]
        /\ UNCHANGED open
  /\ Becomes(IF pc[r] \in {"streaming", "joining"} THEN Release(Gate, r) ELSE Gate)
  /\ UNCHANGED <<pc, cancel, streams, shown, limit>>

\* run resumes with the factory's answer: a stream is handed over to a producer.
Returns(r) ==
  /\ pc[r] = "dispatching"
  /\ Ended(r)
  /\ ~cancel[r]
  /\ \/ /\ streams[r]
        /\ Goto(r, "streaming")
        /\ work' = [work EXCEPT ![r] = "created"]
        /\ UNCHANGED <<cancel, streams, open, shown, gateVars>>
     \/ /\ ~streams[r]
        /\ Exit(r, Release(Gate, r), open[r])

\* run is interrupted by the cancel event or by cancellation of its own task: it
\* cancels the factory and waits for its end.
Aborts(r) ==
  /\ pc[r] = "dispatching"
  /\ Goto(r, "cleanup")
  /\ work' = [work EXCEPT ![r] = Cancelled(work[r])]
  /\ UNCHANGED <<cancel, streams, open, shown, gateVars>>

\* MUTANT of CleanedUp: the stream a finished factory left is not closed.
CleanedUpLeaving(r) ==
  /\ pc[r] = "cleanup"
  /\ Ended(r)
  /\ Exit(r, Release(Gate, r), open[r])

\* The factory is over: a stream it had already returned is closed by the call's own
\* task, otherwise the lease is released.
CleanedUp(r) ==
  /\ pc[r] = "cleanup"
  /\ Ended(r)
  /\ \/ /\ streams[r]
        /\ Goto(r, "disposing")
        /\ UNCHANGED <<cancel, work, streams, open, shown, gateVars>>
     \/ /\ ~streams[r]
        /\ Exit(r, Release(Gate, r), open[r])

\* The producer reads the first chunk with generated output.
FirstOutput(r) ==
  /\ pc[r] = "streaming"
  /\ work[r] = "running"
  /\ ~shown[r]
  /\ shown' = [shown EXCEPT ![r] = TRUE]
  /\ Becomes(Release(Gate, r))
  /\ UNCHANGED <<pc, cancel, work, streams, open, limit>>

\* The watcher cancels the producer of a disconnected client.  It was created
\* after the producer, so it runs after the producer's first turn.
Watch(r) ==
  /\ cancel[r]
  /\ pc[r] = "streaming"
  /\ work[r] \in {"running", "finishing"}
  /\ work' = [work EXCEPT ![r] = Cancelled(work[r])]
  /\ UNCHANGED <<pc, cancel, streams, open, shown, gateVars>>

\* The consumer closes the stream: after a disconnect, when it is cancelled, or
\* because it has read enough.  It may do so before the producer's first turn.
Close(r) ==
  /\ pc[r] = "streaming"
  /\ Goto(r, "joining")
  /\ work' = [work EXCEPT ![r] = Cancelled(work[r])]
  /\ UNCHANGED <<cancel, streams, open, shown, gateVars>>

\* aclose after the producer's end: a producer that never ran closed nothing, and
\* the consumer's task closes the stream itself.
Closed(r) ==
  /\ pc[r] = "joining"
  /\ Ended(r)
  /\ \/ /\ work[r] = "unstarted"
        /\ Goto(r, "disposing")
        /\ UNCHANGED <<cancel, work, streams, open, shown, gateVars>>
     \/ /\ work[r] # "unstarted"
        /\ Exit(r, Release(Gate, r), open[r])

\* A cancellation of the call's own task arrives while that task awaits
\* close_async_stream, which is shielded from AnyIO's cancellation only.
Interrupted(r) ==
  /\ pc[r] = "disposing"
  /\ work[r] # "leaked"
  /\ work' = [work EXCEPT ![r] = "leaked"]
  /\ UNCHANGED <<pc, cancel, streams, open, shown, gateVars>>

\* The await ends, and with it the call: the stream is closed, unless a cancellation
\* cut the close short.
Disposed(r) ==
  /\ pc[r] = "disposing"
  /\ \E left \in {FALSE, open[r] /\ work[r] = "leaked"} : Exit(r, Release(Gate, r), left)

\* The consumer has read everything, or upstream's exception.
Exhausted(r) ==
  /\ pc[r] = "streaming"
  /\ Ended(r)
  /\ Exit(r, Gate, open[r])

\* A settings update, and PromptGates.refresh.
Resize(n) ==
  /\ n # limit
  /\ limit' = n
  /\ Becomes(Refresh(Gate, n))
  /\ UNCHANGED callVars

-----------------------------------------------------------------------------
Init ==
  /\ pc = [r \in Requests |-> "new"]
  /\ cancel = [r \in Requests |-> FALSE]
  /\ ticket = [r \in Requests |-> "none"]
  /\ work = [r \in Requests |-> "none"]
  /\ streams = [r \in Requests |-> FALSE]
  /\ open = [r \in Requests |-> FALSE]
  /\ shown = [r \in Requests |-> FALSE]
  /\ active = 0
  /\ waiting = << >>
  /\ limit \in Limits

CallNext(r) ==
  \/ Join(r) \/ Disconnect(r) \/ GiveUp(r) \/ Granted(r) \/ FirstTurn(r) \/ Answers(r)
  \/ Finishes(r) \/ Settles(r) \/ Returns(r) \/ Aborts(r) \/ CleanedUp(r) \/ FirstOutput(r)
  \/ Watch(r) \/ Close(r) \/ Closed(r) \/ Interrupted(r) \/ Disposed(r) \/ Exhausted(r)

\* Every call has returned.
Quiescent == (\A r \in Requests : pc[r] = "done") /\ UNCHANGED vars

Next ==
  \/ \E r \in Requests : CallNext(r)
  \/ \E n \in Limits : Resize(n)
  \/ Quiescent

\* The event loop gives every ready task its turn, and a task that was cancelled
\* or is closing upstream ends.  Nothing is owed by clients and by upstream.  Weak
\* fairness, with the guard written out.
Owed(r) ==
  \/ FirstTurn(r) \/ Watch(r) \/ Settles(r) \/ CleanedUp(r) \/ Closed(r)
  \/ Disposed(r)
  \/ cancel[r] /\ (GiveUp(r) \/ Aborts(r))

Owing(r) ==
  \/ work[r] \in {"created", "doomed", "finishing", "closing", "cut"}
  \/ pc[r] \in {"cleanup", "joining", "disposing"}
  \/ cancel[r] /\ (pc[r] \in {"waiting", "dispatching"} \/ work[r] = "running")

Fairness == \A r \in Requests : <>[]Owing(r) => []<><<Owed(r)>>_vars

Spec == Init /\ [][Next]_vars
FairSpec == Spec /\ Fairness

-----------------------------------------------------------------------------
(***************************************************************************)
(* Properties.                                                             *)
(***************************************************************************)
\* Every variable has the type its declaration announces.
TypeOK ==
  /\ pc \in [Requests -> {"new", "waiting", "dispatching", "cleanup", "streaming",
                          "joining", "disposing", "done"}]
  /\ cancel \in [Requests -> BOOLEAN]
  /\ ticket \in [Requests -> {"none", "waiting", "held", "released"}]
  /\ work \in [Requests -> {"none", "created", "running", "finishing", "closing", "cut",
                            "doomed", "ended", "unstarted", "leaked"}]
  /\ streams \in [Requests -> BOOLEAN]
  /\ open \in [Requests -> BOOLEAN]
  /\ shown \in [Requests -> BOOLEAN]
  /\ active \in 0..Cardinality(Requests)
  /\ waiting \in Seq(Requests)
  /\ limit \in Limits

\* The gate is a queue for limit places (FifoSlots), whatever races the grant.
Slots == INSTANCE FifoSlots WITH
           holders <- {r \in Requests : ticket[r] = "held"}, queue <- waiting

ImplementsFifoSlots == Slots!Spec

\* A prompt that upstream may still be processing holds its lease: cancelling a call
\* again must not free it while its factory or producer closes the exchange.  Two
\* calls are excepted (CleanupKeepsLease): one whose close was cut short by a
\* cancellation landing inside it, be it the first one of a task already in its
\* finally block or any one in the close the call's own task awaits, and one
\* closed before its producer's first turn.
PromptHoldsLease ==
  \A r \in Requests :
    open[r] /\ ~shown[r] => ticket[r] = "held" \/ work[r] \in {"unstarted", "leaked"}

\* The comment above _cancel_once, as it stands: the clean-up of the upstream
\* transport finishes before the lease is freed.
CleanupKeepsLease ==
  \A r \in Requests : open[r] /\ ~shown[r] => ticket[r] = "held"

\* No call ends without having awaited a close of its upstream exchange, whichever
\* of its factory, its producer or its own task has to do it; what is left open is
\* left by a cancellation that landed inside that await (the finally blocks of run,
\* aclose and _produce).
NothingLeftOpen ==
  \A r \in Requests : pc[r] = "done" /\ open[r] => work[r] = "leaked"

\* A disconnected client gives its lease back and leaves the queue, even if the
\* stream it was handed is never read (_PromptStream._watch).
DisconnectFrees ==
  \A r \in Requests : cancel[r] ~> ticket[r] \in {"none", "released"}
=============================================================================
