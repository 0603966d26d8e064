------------------------ MODULE ClusterRoutingProofs ------------------------
(***************************************************************************)
(* Members are reserved and released once, and prompts are not replayed,   *)
(* for any finite sets of requests and members and any number of passes.   *)
(***************************************************************************)
EXTENDS ClusterRouting, FiniteSetTheorems, TLAPS

Record == [at : Stages, m : Members \cup {Nobody}, rest : Seq(Members), stream : BOOLEAN,
           relay : BOOLEAN, pass : 1 .. MaxPasses, first : BOOLEAN,
           unsafe : BOOLEAN, expired : BOOLEAN, freed : BOOLEAN]
Send == [m : Members, pass : 1 .. MaxPasses]

\* Before the prompt may have reached the member that is tried.
Early == {"idle", "routing", "next", "pausing", "waiting", "probing", "admission", "connecting"}

Distinct(s) == \A i, j \in DOMAIN s : i # j => s[i] # s[j]

\* The record q serves member m (Serves, of a record instead of a request).
Uses(q, m) == q.m = m /\ (q.at \in Holding \/ (q.at \in Lost /\ ~q.freed))

\* A member in a request's hands is not left to try, and has not been released:
\* the reservation, the candidates behind it and the release guard go together.
HeldOK(q) ==
  /\ Distinct(q.rest)
  /\ q.at \in Holding \cup Lost => q.m \in Members /\ \A i \in DOMAIN q.rest : q.rest[i] # q.m
  /\ q.at \in Holding => ~q.freed

\* What the prompts sent (S) and the members read (R) say about where a request is:
\* a prompt that was sent is of this pass and rules out another one, and a client
\* that has read an event is past every failover.
PromptOK(q, S, R) ==
  /\ q.at = "pausing" => ~q.unsafe /\ q.pass < MaxPasses
  /\ R # {} => q.at \in {"relaying", "orphaned", "done"}
  /\ \A s \in S : s.pass = q.pass
  /\ S # {} /\ q.at \in Early => q.unsafe

RequestOK(q, S, R) ==
  q \in Record /\ S \subseteq Send /\ R \subseteq Members /\ HeldOK(q) /\ PromptOK(q, S, R)

\* The inductive invariant.
IInv ==
  /\ req \in [Requests -> Record]
  /\ load \in [Members -> Nat]
  /\ desired \in {"running", "stopped"}
  /\ sent \in [Requests -> SUBSET Send]
  /\ read \in [Requests -> SUBSET Members]
  /\ \A r \in Requests : RequestOK(req[r], sent[r], read[r])
  /\ LoadsMatchHolders

-----------------------------------------------------------------------------
\* No request, no load.
LEMMA InitIInv == Init => IInv
<1> SUFFICES ASSUME Init PROVE IInv
  OBVIOUS
<1>1. NoRequest \in Record
  BY RoutingAssumption DEF RoutingAssumption, NoRequest, Record, Stages
<1>2. \A r \in Requests : RequestOK(req[r], sent[r], read[r])
  BY <1>1 DEF Init, RequestOK, HeldOK, PromptOK, Distinct, NoRequest, Holding, Lost
<1>3. \A m \in Members : {r \in Requests : Serves(r, m)} = {}
  BY DEF Init, Serves, NoRequest, Holding, Lost
<1>4. LoadsMatchHolders
  BY <1>3, FS_EmptySet DEF Init, LoadsMatchHolders
<1> QED BY <1>1, <1>2, <1>4 DEF Init, IInv

\* What the invariant says implies the types.
LEMMA IInvTypeOK == IInv => TypeOK
BY DEF IInv, TypeOK, RequestOK, HeldOK, Record, Send

-----------------------------------------------------------------------------
(***************************************************************************)
(* The load of a member, when one request changes.                         *)
(***************************************************************************)

\* The load follows request r becoming q.
LoadStep(r, q) ==
  /\ load' \in [Members -> Int]
  /\ \A m \in Members :
       load'[m] = load[m] + (IF Uses(q, m) THEN 1 ELSE 0) - (IF Uses(req[r], m) THEN 1 ELSE 0)

\* Counting the requests a member serves.
LEMMA LoadCounts ==
  ASSUME IInv, NEW r \in Requests, NEW q, req' = [req EXCEPT ![r] = q], LoadStep(r, q)
  PROVE  LoadsMatchHolders' /\ load' \in [Members -> Nat]
<1> SUFFICES ASSUME NEW m \in Members
             PROVE  /\ load'[m] = Cardinality({x \in Requests : Serves(x, m)}')
                    /\ load'[m] \in Nat
  BY DEF LoadsMatchHolders, LoadStep
<1> DEFINE Old == {x \in Requests : Serves(x, m)}
           New == {x \in Requests : Serves(x, m)'}
<1>1. Old \subseteq Requests /\ IsFiniteSet(Old) /\ Cardinality(Old) \in Nat
  <2>1. Old \subseteq Requests
    OBVIOUS
  <2>2. IsFiniteSet(Old)
    BY <2>1, FS_Subset, RoutingAssumption DEF RoutingAssumption
  <2> QED BY <2>1, <2>2, FS_CardinalityType
<1>2. load[m] = Cardinality(Old)
  BY DEF IInv, LoadsMatchHolders
<1>3. req'[r] = q /\ \A x \in Requests \ {r} : req'[x] = req[x]
  BY DEF IInv
<1>4. (r \in Old <=> Uses(req[r], m)) /\ (r \in New <=> Uses(q, m))
  BY <1>3 DEF Serves, Uses
<1>5. \A x \in Requests \ {r} : x \in Old <=> x \in New
  BY <1>3 DEF Serves
<1>6. load'[m] = load[m] + (IF r \in New THEN 1 ELSE 0) - (IF r \in Old THEN 1 ELSE 0)
  BY <1>4 DEF LoadStep
<1>7. CASE r \in New /\ r \notin Old
  <2>1. New = Old \cup {r}
    BY <1>5, <1>7
  <2>2. Cardinality(New) = Cardinality(Old) + 1
    BY <1>1, <1>7, <2>1, FS_AddElement
  <2> QED BY <1>1, <1>2, <1>6, <1>7, <2>2
<1>8. CASE r \notin New /\ r \in Old
  <2>1. New = Old \ {r}
    BY <1>5, <1>8
  <2>2. Cardinality(New) = Cardinality(Old) - 1
    BY <1>1, <1>8, <2>1, FS_RemoveElement
  <2>3. IsFiniteSet(New) /\ Cardinality(New) \in Nat
    <3>1. IsFiniteSet(Old \ {r})
      BY <1>1, FS_RemoveElement
    <3> QED BY <2>1, <3>1, FS_CardinalityType
  <2> QED BY <1>1, <1>2, <1>6, <1>8, <2>2, <2>3
<1>9. CASE r \in New <=> r \in Old
  <2>1. New = Old
    BY <1>5, <1>9
  <2>2. load'[m] = load[m]
    <3>1. CASE r \in New
      BY <1>1, <1>2, <1>6, <1>9, <3>1
    <3>2. CASE r \notin New
      BY <1>1, <1>2, <1>6, <1>9, <3>2
    <3> QED BY <3>1, <3>2
  <2> QED BY <1>1, <1>2, <2>1, <2>2
<1> QED BY <1>7, <1>8, <1>9

\* One request changes: the rest of the invariant is untouched.
LEMMA OneRequest ==
  ASSUME IInv, NEW r \in Requests, NEW q,
         req' = [req EXCEPT ![r] = q], LoadStep(r, q),
         desired' \in {"running", "stopped"},
         NEW S, NEW R, sent' = [sent EXCEPT ![r] = S], read' = [read EXCEPT ![r] = R],
         RequestOK(q, S, R)
  PROVE  IInv'
<1>1. LoadsMatchHolders' /\ load' \in [Members -> Nat]
  BY LoadCounts
<1>2. q \in Record /\ S \subseteq Send /\ R \subseteq Members
  BY DEF RequestOK
<1>3. /\ req' \in [Requests -> Record]
      /\ sent' \in [Requests -> SUBSET Send]
      /\ read' \in [Requests -> SUBSET Members]
  BY <1>2 DEF IInv
<1>4. \A x \in Requests : RequestOK(req'[x], sent'[x], read'[x])
  BY DEF IInv
<1> QED BY <1>1, <1>3, <1>4 DEF IInv

\* The same when only the request and the load change.
LEMMA RequestStep ==
  ASSUME IInv, NEW r \in Requests, NEW q,
         req' = [req EXCEPT ![r] = q], LoadStep(r, q),
         UNCHANGED <<desired, sent, read>>,
         RequestOK(q, sent[r], read[r])
  PROVE  IInv'
<1>1. sent' = [sent EXCEPT ![r] = sent[r]] /\ read' = [read EXCEPT ![r] = read[r]]
  BY DEF IInv
<1>2. desired' \in {"running", "stopped"}
  BY DEF IInv
<1> QED BY <1>1, <1>2, OneRequest

\* A step that leaves every member with the requests it had.
LEMMA StayingLoad ==
  ASSUME IInv, NEW r \in Requests, NEW q, load' = load,
         \A m \in Members : Uses(q, m) <=> Uses(req[r], m)
  PROVE  LoadStep(r, q)
BY DEF IInv, LoadStep

\* Between members a request has no load.
LEMMA UnheldLoad ==
  ASSUME IInv, NEW r \in Requests, NEW q, load' = load,
         req[r].at \notin Holding \cup Lost, q.at \notin Holding \cup Lost
  PROVE  LoadStep(r, q)
<1>1. \A m \in Members : ~Uses(q, m) /\ ~Uses(req[r], m)
  BY DEF Uses
<1> QED BY <1>1, StayingLoad

\* ReleaseOnce gives a held member back, and nothing that was given back before.
LEMMA ReleasedLoad ==
  ASSUME IInv, NEW r \in Requests, req[r].at \in Holding \cup Lost, ReleaseOnce(r),
         NEW q, \A m \in Members : ~Uses(q, m)
  PROVE  LoadStep(r, q)
<1> DEFINE m0 == req[r].m
<1>1. m0 \in Members
  BY DEF IInv, RequestOK, HeldOK
<1>2. \A m \in Members : Uses(req[r], m) => m = m0
  BY DEF Uses
<1>3. CASE req[r].freed
  <2>1. ~Uses(req[r], m0)
    BY <1>3 DEF IInv, RequestOK, HeldOK, Uses
  <2> QED BY <1>2, <1>3, <2>1 DEF ReleaseOnce, LoadStep, IInv
<1>4. CASE ~req[r].freed
  <2>1. Uses(req[r], m0)
    BY <1>4 DEF Uses
  <2>2. load[m0] # 0
    <3>1. r \in {x \in Requests : Serves(x, m0)}
      BY <2>1 DEF Serves, Uses
    <3>2. IsFiniteSet({x \in Requests : Serves(x, m0)})
      BY FS_Subset, RoutingAssumption DEF RoutingAssumption
    <3>3. Cardinality({x \in Requests : Serves(x, m0)}) # 0
      BY <3>1, <3>2, FS_EmptySet
    <3> QED BY <1>1, <3>3 DEF IInv, LoadsMatchHolders
  <2>3. load' = [load EXCEPT ![m0] = load[m0] - 1]
    BY <1>4, <2>2 DEF ReleaseOnce, Freed
  <2> QED BY <1>1, <1>2, <2>1, <2>3 DEF LoadStep, IInv
<1> QED BY <1>3, <1>4, <1>1 DEF IInv, RequestOK, Record

-----------------------------------------------------------------------------
(***************************************************************************)
(* The route.                                                              *)
(***************************************************************************)

\* Unfolds what the invariant says of one request.
LEMMA OfRequest ==
  ASSUME IInv, NEW r \in Requests
  PROVE  /\ req[r] \in Record
         /\ RequestOK(req[r], sent[r], read[r])
BY DEF IInv

\* A request that moves on without a member, or with the one it has.
LEMMA Moves ==
  ASSUME IInv, NEW r \in Requests, NEW stage \in Stages, Goto(r, stage), Same,
         \/ req[r].at \in Holding /\ stage \in Holding
         \/ req[r].at \notin Holding \cup Lost /\ stage \notin Holding \cup Lost
         \/ req[r].at \in Holding /\ stage \in Lost,
         stage # "pausing",
         read[r] # {} => stage \in {"relaying", "orphaned", "done"},
         stage \in Early => req[r].at \in Early
  PROVE  IInv'
<1> DEFINE q == [req[r] EXCEPT !.at = stage]
<1>1. req' = [req EXCEPT ![r] = q]
  BY DEF Goto
<1>2. RequestOK(req[r], sent[r], read[r])
  BY OfRequest
<1>3. RequestOK(q, sent[r], read[r])
  BY <1>2 DEF RequestOK, HeldOK, PromptOK, Record
<1>4. \A m \in Members : Uses(q, m) <=> Uses(req[r], m)
  BY <1>2 DEF RequestOK, HeldOK, Record, Uses, Holding, Lost
<1>5. LoadStep(r, q)
  BY <1>4, StayingLoad DEF Same
<1> QED BY <1>1, <1>3, <1>5, RequestStep DEF Same

\* A new request waits for its route.
LEMMA ArrivePreserves ==
  ASSUME IInv, NEW r \in Requests, NEW stream \in BOOLEAN, Arrive(r, stream)
  PROVE  IInv'
<1> DEFINE q == [req[r] EXCEPT !.at = "routing", !.stream = stream]
<1>1. req' = [req EXCEPT ![r] = q] /\ req[r].at = "idle"
  BY DEF Arrive
<1>2. RequestOK(q, sent[r], read[r])
  BY <1>1, OfRequest DEF RequestOK, HeldOK, PromptOK, Record, Stages, Holding, Lost, Early
<1>3. LoadStep(r, q)
  <2>1. q.at = "routing" /\ req[r].at = "idle"
    BY <1>1, OfRequest DEF Record
  <2>2. q.at \notin Holding \cup Lost /\ req[r].at \notin Holding \cup Lost
    BY <2>1 DEF Holding, Lost
  <2> QED BY <2>2, UnheldLoad DEF Arrive, Same
<1> QED BY <1>1, <1>2, <1>3, RequestStep DEF Arrive, Same

\* A route tries each of its members once.
LEMMA RoutePreserves ==
  ASSUME IInv, NEW r \in Requests, NEW S \in SUBSET Members, NEW avail \in SUBSET Members,
         Route(r, S, avail)
  PROVE  IInv'
<1>1. CASE Goto(r, "done")
  BY <1>1, Moves, OfRequest DEF Route, Stages, Holding, Lost, Early
<1>2. ASSUME NEW o \in Orders(S, avail),
             req' = [req EXCEPT ![r].at = "next", ![r].rest = o, ![r].first = TRUE]
      PROVE  IInv'
  <2> DEFINE q == [req[r] EXCEPT !.at = "next", !.rest = o, !.first = TRUE]
  <2>1. req' = [req EXCEPT ![r] = q] /\ req[r].at = "routing"
    BY <1>2 DEF Route
  <2>2. Cardinality(S) \in Nat
    BY FS_Subset, FS_CardinalityType, RoutingAssumption DEF RoutingAssumption
  <2>3. o \in [1 .. Cardinality(S) -> S] /\ Distinct(o)
    <3>1. /\ o \in [1 .. Cardinality(S) -> S]
          /\ \A i, j \in 1 .. Cardinality(S) : i < j => o[i] # o[j]
      BY <1>2 DEF Orders
    <3>2. DOMAIN o = 1 .. Cardinality(S)
      BY <3>1
    <3>3. ASSUME NEW i \in 1 .. Cardinality(S), NEW j \in 1 .. Cardinality(S), i # j
          PROVE  o[i] # o[j]
      <4>1. i < j \/ j < i
        BY <2>2, <3>3
      <4> QED BY <3>1, <4>1
    <3> QED BY <3>1, <3>2, <3>3 DEF Distinct
  <2>4. o \in Seq(Members)
    BY <2>2, <2>3
  <2>5. RequestOK(q, sent[r], read[r])
    BY <2>1, <2>3, <2>4, OfRequest
       DEF RequestOK, HeldOK, PromptOK, Record, Stages, Holding, Lost, Early
  <2>6. LoadStep(r, q)
    <3>1. q.at = "next" /\ req[r].at = "routing"
      BY <2>1, OfRequest DEF Record
    <3>2. q.at \notin Holding \cup Lost /\ req[r].at \notin Holding \cup Lost
      BY <3>1 DEF Holding, Lost
    <3> QED BY <3>2, UnheldLoad DEF Route, Same
  <2> QED BY <2>1, <2>5, <2>6, RequestStep DEF Route, Same
<1> QED BY <1>1, <1>2 DEF Route

\* What follows the head of a sequence without repetition.
LEMMA TailDistinct ==
  ASSUME NEW T, NEW s \in Seq(T), s # <<>>, Distinct(s)
  PROVE  /\ Head(s) \in T /\ Tail(s) \in Seq(T)
         /\ Distinct(Tail(s)) /\ \A i \in DOMAIN Tail(s) : Tail(s)[i] # Head(s)
<1>1. Head(s) \in T /\ Head(s) = s[1] /\ Tail(s) \in Seq(T)
  OBVIOUS
<1>2. Len(s) \in Nat \ {0} /\ DOMAIN s = 1 .. Len(s) /\ DOMAIN Tail(s) = 1 .. Len(s) - 1
  OBVIOUS
<1>3. ASSUME NEW i \in DOMAIN Tail(s)
      PROVE  Tail(s)[i] = s[i + 1] /\ i \in Nat /\ i + 1 \in DOMAIN s /\ 1 \in DOMAIN s /\ i + 1 # 1
  BY <1>2
<1>4. ASSUME NEW i \in DOMAIN Tail(s) PROVE Tail(s)[i] # Head(s)
  BY <1>1, <1>3 DEF Distinct
<1>5. ASSUME NEW i \in DOMAIN Tail(s), NEW j \in DOMAIN Tail(s), i # j
      PROVE  Tail(s)[i] # Tail(s)[j]
  <2>1. i + 1 # j + 1
    BY <1>3, <1>5
  <2> QED BY <1>3, <2>1 DEF Distinct
<1> QED BY <1>1, <1>4, <1>5 DEF Distinct

\* The next member is reserved; it is not among those left to try.
LEMMA TryNextPreserves ==
  ASSUME IInv, NEW r \in Requests, TryNext(r)
  PROVE  IInv'
<1> DEFINE s == req[r].rest
           m == Head(s)
           q == [req[r] EXCEPT !.at = "waiting", !.m = m, !.rest = Tail(s),
                               !.first = FALSE, !.freed = FALSE]
<1>1. req' = [req EXCEPT ![r] = q] /\ req[r].at = "next" /\ s # <<>>
  BY DEF TryNext
<1>2. req[r] \in Record /\ s \in Seq(Members) /\ Distinct(s)
  BY OfRequest DEF RequestOK, HeldOK, Record
<1>3. m \in Members /\ Tail(s) \in Seq(Members)
  BY <1>1, <1>2, TailDistinct
<1>4. Distinct(Tail(s)) /\ \A i \in DOMAIN Tail(s) : Tail(s)[i] # m
  BY <1>1, <1>2, TailDistinct
<1>5. RequestOK(q, sent[r], read[r])
  <2>1. q \in Record
    BY <1>2, <1>3 DEF Record, Stages, Holding
  <2>2. /\ q.at = "waiting" /\ q.m = m /\ q.rest = Tail(s) /\ ~q.freed
        /\ q.pass = req[r].pass /\ q.unsafe = req[r].unsafe
    BY <1>2 DEF Record
  <2>3. HeldOK(q)
    BY <1>3, <1>4, <2>2 DEF HeldOK
  <2>4. PromptOK(q, sent[r], read[r])
    BY <1>1, <2>2, OfRequest DEF RequestOK, PromptOK, Early
  <2> QED BY <2>1, <2>3, <2>4, OfRequest DEF RequestOK
<1>6. LoadStep(r, q)
  <2>1. \A n \in Members : ~Uses(req[r], n) /\ (Uses(q, n) <=> n = m)
    BY <1>1, <1>2 DEF Uses, Holding, Lost, Record
  <2>2. load \in [Members -> Nat] /\ load' = [load EXCEPT ![m] = @ + 1]
    BY DEF TryNext, IInv
  <2> QED BY <1>3, <2>1, <2>2 DEF LoadStep
<1> QED BY <1>1, <1>5, <1>6, RequestStep DEF TryNext

\* The client leaves between members, or nothing is left to try.
LEMMA GivesUp ==
  ASSUME IInv, NEW r \in Requests, GiveUp(r) \/ Exhausted(r)
  PROVE  IInv'
BY Moves, OfRequest DEF GiveUp, Exhausted, Stages, Holding, Lost, Early

\* The ride-through's window closes.
LEMMA WindowClosesPreserves ==
  ASSUME IInv, NEW r \in Requests, WindowCloses(r)
  PROVE  IInv'
<1> DEFINE q == [req[r] EXCEPT !.expired = TRUE]
<1>1. req' = [req EXCEPT ![r] = q]
  BY DEF WindowCloses
<1>2. RequestOK(q, sent[r], read[r])
  BY OfRequest DEF RequestOK, HeldOK, PromptOK, Record
<1>3. LoadStep(r, q)
  BY StayingLoad, OfRequest DEF WindowCloses, Same, Uses, Record
<1> QED BY <1>1, <1>2, <1>3, RequestStep DEF WindowCloses, Same

\* Another pass begins only while no engine can have the prompt.
LEMMA PauseEndsPreserves ==
  ASSUME IInv, NEW r \in Requests, PauseEnds(r)
  PROVE  IInv'
<1> DEFINE q == [req[r] EXCEPT !.at = "routing", !.pass = req[r].pass + 1]
<1>1. req' = [req EXCEPT ![r] = q] /\ req[r].at = "pausing"
  BY DEF PauseEnds
<1>2. req[r] \in Record /\ RequestOK(req[r], sent[r], read[r])
  BY OfRequest
<1>3. sent[r] = {} /\ q.pass \in 1 .. MaxPasses
  BY <1>1, <1>2, RoutingAssumption
     DEF RoutingAssumption, RequestOK, PromptOK, Record, Early
<1>4. RequestOK(q, sent[r], read[r])
  BY <1>1, <1>2, <1>3 DEF RequestOK, HeldOK, PromptOK, Record, Stages, Holding, Lost, Early
<1>5. LoadStep(r, q)
  <2>1. q.at = "routing" /\ req[r].at = "pausing"
    BY <1>1, <1>2 DEF Record
  <2>2. q.at \notin Holding \cup Lost /\ req[r].at \notin Holding \cup Lost
    BY <2>1 DEF Holding, Lost
  <2> QED BY <2>2, UnheldLoad DEF PauseEnds, Same
<1> QED BY <1>1, <1>4, <1>5, RequestStep DEF PauseEnds, Same

-----------------------------------------------------------------------------
(***************************************************************************)
(* One member.                                                             *)
(***************************************************************************)

\* The request ends and its member is free.
LEMMA EndsPreserves ==
  ASSUME IInv, NEW r \in Requests, req[r].at \in Holding \cup Lost, Ends(r)
  PROVE  IInv'
<1> DEFINE q == [req[r] EXCEPT !.at = "done"]
<1>1. req' = [req EXCEPT ![r] = q]
  BY DEF Ends, Goto
<1>2. RequestOK(q, sent[r], read[r])
  BY OfRequest DEF RequestOK, HeldOK, PromptOK, Record, Stages, Holding, Lost, Early
<1>3. \A m \in Members : ~Uses(q, m)
  BY OfRequest DEF Uses, Holding, Lost, Record
<1>4. LoadStep(r, q)
  BY <1>3, ReleasedLoad DEF Ends
<1> QED BY <1>1, <1>2, <1>4, RequestStep DEF Ends

\* A failure worth another member.  What cannot have reached an engine leaves the
\* pass replayable; nothing that was sent does.
LEMMA FailsOverPreserves ==
  ASSUME IInv, NEW r \in Requests, NEW unsent \in BOOLEAN, FailsOver(r, unsent),
         req[r].at \in Holding \ {"relaying"},
         unsent => req[r].at \in Early
  PROVE  IInv'
<1> DEFINE q == Afterwards(r, unsent)
<1>1. req' = [req EXCEPT ![r] = q]
  BY DEF FailsOver
<1>2. req[r] \in Record /\ RequestOK(req[r], sent[r], read[r])
  BY OfRequest
<1>3. /\ q \in Record
      /\ q.at \in {"next", "pausing", "done"}
      /\ q.rest = req[r].rest /\ q.pass = req[r].pass
      /\ q.unsafe = (req[r].unsafe \/ ~unsent)
      /\ q.at = "pausing" => ~q.unsafe /\ q.pass < MaxPasses
  BY <1>2 DEF Afterwards, Record, Stages
<1>4. sent[r] # {} => q.unsafe
  BY <1>2, <1>3 DEF RequestOK, PromptOK
<1>5. read[r] = {}
  BY <1>2 DEF RequestOK, PromptOK, Holding
<1>6. RequestOK(q, sent[r], read[r])
  BY <1>2, <1>3, <1>4, <1>5 DEF RequestOK, HeldOK, PromptOK, Holding, Lost
<1>7. \A m \in Members : ~Uses(q, m)
  BY <1>3 DEF Uses, Holding, Lost
<1>8. LoadStep(r, q)
  BY <1>7, ReleasedLoad DEF FailsOver
<1> QED BY <1>1, <1>6, <1>8, RequestStep DEF FailsOver

\* The prompt is sent, for the first time in this pass or under a mark.
LEMMA ReachedPreserves ==
  ASSUME IInv, NEW r \in Requests, Reached(r)
  PROVE  IInv'
<1> DEFINE q == [req[r] EXCEPT !.at = "asked"]
           S == sent[r] \cup {[m |-> req[r].m, pass |-> req[r].pass]}
<1>1. /\ req' = [req EXCEPT ![r] = q] /\ req[r].at = "connecting"
      /\ sent' = [sent EXCEPT ![r] = S] /\ read' = [read EXCEPT ![r] = read[r]]
  BY DEF Reached, Goto, IInv
<1>2. RequestOK(q, S, read[r])
  <2>1. [m |-> req[r].m, pass |-> req[r].pass] \in Send
    BY <1>1, OfRequest DEF RequestOK, HeldOK, Record, Send, Holding
  <2> QED BY <1>1, <2>1, OfRequest
             DEF RequestOK, HeldOK, PromptOK, Record, Stages, Holding, Lost, Early
<1>3. LoadStep(r, q)
  BY <1>1, StayingLoad, OfRequest DEF Reached, Uses, Holding, Lost, Record
<1>4. desired' \in {"running", "stopped"}
  BY DEF Reached, IInv
<1> QED BY <1>1, <1>2, <1>3, <1>4, OneRequest

\* The steps of a request in one member's hands.
LEMMA MemberStepPreserves ==
  ASSUME IInv, NEW r \in Requests, MemberStep(r)
  PROVE  IInv'
<1> USE DEF Stages, Holding, Lost, Early
<1>1. ASSUME NEW changed \in BOOLEAN, Granted(r, changed) PROVE IInv'
  BY <1>1, FailsOverPreserves, EndsPreserves, Moves, OfRequest DEF Granted, RequestOK, PromptOK
<1>2. CASE Probed(r)
  BY <1>2, FailsOverPreserves, Moves, OfRequest DEF Probed, RequestOK, PromptOK
<1>3. CASE Admitted(r)
  BY <1>3, FailsOverPreserves, Moves, OfRequest DEF Admitted, RequestOK, PromptOK
<1>4. CASE Refused(r)
  BY <1>4, FailsOverPreserves DEF Refused
<1>5. CASE Reached(r)
  BY <1>5, ReachedPreserves
<1>6. CASE Answered(r)
  BY <1>6, EndsPreserves, Moves, OfRequest DEF Answered, RequestOK, PromptOK
<1>7. CASE Broken(r)
  BY <1>7, FailsOverPreserves DEF Broken
<1>8. CASE Concluded(r)
  BY <1>8, EndsPreserves DEF Concluded
<1> QED BY <1>1, <1>2, <1>3, <1>4, <1>5, <1>6, <1>7, <1>8 DEF MemberStep

-----------------------------------------------------------------------------
(***************************************************************************)
(* The stream.                                                             *)
(***************************************************************************)

\* The stream is handed to its relay.
LEMMA StartRelayPreserves ==
  ASSUME IInv, NEW r \in Requests, StartRelay(r)
  PROVE  IInv'
<1> DEFINE q == [req[r] EXCEPT !.at = "priming", !.relay = TRUE]
<1>1. req' = [req EXCEPT ![r] = q] /\ req[r].at = "offered"
  BY DEF StartRelay
<1>2. RequestOK(q, sent[r], read[r])
  BY <1>1, OfRequest DEF RequestOK, HeldOK, PromptOK, Record, Stages, Holding, Lost, Early
<1>3. \A m \in Members : Uses(q, m) <=> Uses(req[r], m)
  BY <1>1, OfRequest DEF Uses, Holding, Record
<1>4. LoadStep(r, q)
  BY <1>3, StayingLoad DEF StartRelay, Same
<1> QED BY <1>1, <1>2, <1>4, RequestStep DEF StartRelay, Same

\* The client reads the first event.
LEMMA FirstEventPreserves ==
  ASSUME IInv, NEW r \in Requests, FirstEvent(r)
  PROVE  IInv'
<1> DEFINE q == [req[r] EXCEPT !.at = "relaying"]
           R == read[r] \cup {req[r].m}
<1>1. /\ req' = [req EXCEPT ![r] = q] /\ req[r].at = "priming"
      /\ sent' = [sent EXCEPT ![r] = sent[r]] /\ read' = [read EXCEPT ![r] = R]
  BY DEF FirstEvent, Goto, IInv
<1>2. RequestOK(q, sent[r], R)
  BY <1>1, OfRequest DEF RequestOK, HeldOK, PromptOK, Record, Stages, Holding, Lost, Early
<1>3. \A m \in Members : Uses(q, m) <=> Uses(req[r], m)
  BY <1>1, OfRequest DEF Uses, Holding, Record
<1>4. LoadStep(r, q)
  BY <1>3, StayingLoad DEF FirstEvent
<1>5. desired' \in {"running", "stopped"}
  BY DEF FirstEvent, IInv
<1> QED BY <1>1, <1>2, <1>4, <1>5, OneRequest

\* The reaper gives back what nobody will close.
LEMMA ReapedPreserves ==
  ASSUME IInv, NEW r \in Requests, Reaped(r)
  PROVE  IInv'
<1> DEFINE at == IF req[r].at = "dropped" THEN "done" ELSE req[r].at
           q == [req[r] EXCEPT !.at = at, !.freed = TRUE]
<1>1. /\ req' = [req EXCEPT ![r] = q] /\ req[r].at \in Lost
      /\ ReleaseOnce(r) /\ UNCHANGED <<desired, sent, read>>
  BY DEF Reaped
<1>2. RequestOK(q, sent[r], read[r])
  BY <1>1, OfRequest DEF RequestOK, HeldOK, PromptOK, Record, Stages, Holding, Lost, Early
<1>3. \A m \in Members : ~Uses(q, m)
  BY <1>1, OfRequest DEF Uses, Holding, Lost, Record
<1>4. LoadStep(r, q)
  BY <1>1, <1>3, ReleasedLoad
<1> QED BY <1>1, <1>2, <1>4, RequestStep

\* The steps of a relayed or lost stream.
LEMMA StreamStepPreserves ==
  ASSUME IInv, NEW r \in Requests, StreamStep(r)
  PROVE  IInv'
<1>1. CASE StartRelay(r)
  BY <1>1, StartRelayPreserves
<1>2. CASE FirstEvent(r)
  BY <1>2, FirstEventPreserves
<1>3. CASE Fruitless(r)
  BY <1>3, FailsOverPreserves DEF Fruitless, Holding
<1>4. CASE Abort(r)
  BY <1>4, EndsPreserves DEF Abort
<1>5. CASE Abandoned(r)
  BY <1>5, Moves, OfRequest DEF Abandoned, Stages, Holding, Lost, Early, RequestOK, PromptOK
<1>6. CASE Reaped(r)
  BY <1>6, ReapedPreserves
<1>7. CASE Collected(r)
  BY <1>7, EndsPreserves DEF Collected, Lost
<1> QED BY <1>1, <1>2, <1>3, <1>4, <1>5, <1>6, <1>7 DEF StreamStep

-----------------------------------------------------------------------------
(***************************************************************************)
(* The theorems.                                                           *)
(***************************************************************************)

\* Every step of the specification preserves the invariant.
LEMMA NextIInv == IInv /\ [Next]_vars => IInv'
<1> SUFFICES ASSUME IInv, [Next]_vars PROVE IInv'
  OBVIOUS
<1>1. ASSUME NEW r \in Requests, RouteStep(r) PROVE IInv'
  BY <1>1, ArrivePreserves, RoutePreserves, TryNextPreserves, GivesUp,
     WindowClosesPreserves, PauseEndsPreserves DEF RouteStep
<1>2. ASSUME NEW r \in Requests, MemberStep(r) PROVE IInv'
  BY <1>2, MemberStepPreserves
<1>3. ASSUME NEW r \in Requests, StreamStep(r) PROVE IInv'
  BY <1>3, StreamStepPreserves
<1>4. CASE StopDeployment
  BY <1>4 DEF StopDeployment, IInv, LoadsMatchHolders, Serves
<1>5. CASE UNCHANGED vars
  BY <1>5 DEF vars, IInv, LoadsMatchHolders, Serves
<1> QED BY <1>1, <1>2, <1>3, <1>4, <1>5 DEF Next, Finished

\* The reservations, the routes and the histories fit together in every state.
THEOREM InductiveInvariant == Spec => []IInv
BY InitIInv, NextIInv, PTL DEF Spec

\* Types, and no member is tried while it is held (_cluster_route_order).
THEOREM TypeCorrect == Spec => []TypeOK
BY InductiveInvariant, IInvTypeOK, PTL

\* A member's load is the number of requests in its hands, for any number of both
\* (_acquire_cluster_member, _release_cluster_member).
THEOREM LoadsExact == Spec => []LoadsMatchHolders
<1>1. IInv => LoadsMatchHolders
  BY DEF IInv
<1> QED BY <1>1, InductiveInvariant, PTL

\* Only Reached sends, and it finds no event read and no prompt of another pass.
LEMMA SendsOnce ==
  ASSUME IInv, [Next]_vars
  PROVE  \A r \in Requests :
           sent'[r] # sent[r] => read[r] = {} /\ \A s \in sent[r] : s.pass = req[r].pass
<1> SUFFICES ASSUME NEW r \in Requests, sent'[r] # sent[r]
             PROVE  read[r] = {} /\ \A s \in sent[r] : s.pass = req[r].pass
  OBVIOUS
<1>1. PICK x \in Requests : Reached(x)
  <2>1. sent' # sent
    OBVIOUS
  <2> QED BY <2>1 DEF Next, vars, Finished, StopDeployment, RouteStep, MemberStep, StreamStep,
              Arrive, Route, TryNext, GiveUp, Exhausted, WindowCloses, PauseEnds,
              Granted, Probed, Admitted, Refused, Answered, Broken, Concluded,
              StartRelay, FirstEvent, Fruitless, Abort, Abandoned, Reaped, Collected,
              FailsOver, Ends, Same
<1>2. x = r /\ req[r].at = "connecting"
  BY <1>1 DEF Reached, IInv
<1> QED BY <1>2, OfRequest DEF RequestOK, PromptOK

\* No prompt that an engine may be answering is sent again (proxy_cluster_inference,
\* _cluster_stream_with_failover).
THEOREM PromptsNotReplayed == Spec => PromptNeverReplayed
<1>1. IInv /\ [Next]_vars =>
        [\A r \in Requests :
           sent'[r] # sent[r] => read[r] = {} /\ \A s \in sent[r] : s.pass = req[r].pass]_vars
  BY SendsOnce
<1> QED BY <1>1, InductiveInvariant, PTL DEF Spec, PromptNeverReplayed
=============================================================================
