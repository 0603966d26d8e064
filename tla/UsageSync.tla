----------------------------- MODULE UsageSync -----------------------------
(***************************************************************************)
(* The token usage ledger and its synchronisation (src/manager.py).        *)
(*                                                                         *)
(* Every node keeps a ledger: one component per origin (the node that      *)
(* served the requests), the version of the last reset (`epoch`) and, for  *)
(* each model, the version of its last erase (`models`).  Each node writes *)
(* its own component; every five seconds the controller pulls all the      *)
(* ledgers, merges them into its own and pushes the union back.  A reset   *)
(* or an erase may be asked of any node at any time, and a node that has   *)
(* just been paired is reconciled instead of merged, so that neither side  *)
(* loses the usage it had before.                                          *)
(*                                                                         *)
(* A counter is the set of the requests it counts; requests are numbered   *)
(* in the order they are recorded.  A version is <<counter, node>>, and    *)
(* <<0, 0>> is the code's [0, ""].                                         *)
(*                                                                         *)
(* Saving the ledger may raise (_save_token_usage_sync).  A record swallows*)
(* it; a reset or an erase is cut short before it clears the totals; a     *)
(* merge has rebuilt them by then, but the push it served fails, and the   *)
(* controller leaves the peer it was merging out of the rest of its round. *)
(***************************************************************************)
EXTENDS Integers, Sequences, FiniteSets

CONSTANTS Nodes,        \* node ids, ordered as the code orders the strings
          Ctl,          \* the controller
          Joined,       \* peers already reconciled when the model starts
          Models,       \* the models usage is counted for
          PeerOrder,    \* the peers, in the order of the node registry
          MaxRequests,  \* bound on the requests recorded
          MaxEvents     \* bound on resets, erases and faults together

Peers == Nodes \ {Ctl}

ASSUME UsageAssumption ==
  /\ Nodes \subseteq Nat \ {0} /\ Ctl \in Nodes /\ Joined \subseteq Peers
  /\ PeerOrder \in Seq(Peers)
  /\ \A n \in Peers : \E i \in DOMAIN PeerOrder : PeerOrder[i] = n
  /\ MaxRequests \in Nat /\ MaxEvents \in Nat

VARIABLES
  ledger,     \* each node's ledger in memory
  disk,       \* the ledger each node last saved
  totals,     \* the totals each node shows, kept beside its ledger
  stale,      \* history: <<n, m>> when n's totals of m outlived a reset or an erase
  reconciled, \* peers the controller's registry marks usage_reconciled
  phase,      \* the controller's round: "idle", "pull" or "push"
  asked,      \* peers whose answer the round waits for
  answers,    \* the ledgers pulled so far
  snap,       \* the union being pushed
  claims,     \* peers whose push carries reconcile_origin
  confirmed,  \* peers whose push was answered
  late,       \* pushes given up by the controller that may still be served
  log,        \* every request recorded: its node, model, epoch and version
  spent,      \* the bounded events: resets, erases, faults, and what they did
  calm        \* history: rounds ended since anything else happened, at most 3

vars == <<ledger, disk, totals, stale, reconciled, phase, asked, answers, snap, claims,
          confirmed, late, log, spent, calm>>
round == <<phase, asked, answers, snap, claims, confirmed>>

EventLeft == spent.resets + spent.erases + spent.faults < MaxEvents

Requests == 1 .. MaxRequests
Version == Nat \X (Nodes \cup {0})
Never == <<0, 0>>

Component == [rev : Nat, total : [Models -> SUBSET Requests],
              hourly : [Models -> SUBSET Requests], stamp : [Models -> Version]]
IsLedger(l) ==
  /\ l = [epoch |-> l.epoch, models |-> l.models, origins |-> l.origins]
  /\ l.epoch \in Version /\ l.models \in [Models -> Version]
  /\ DOMAIN l.origins \subseteq Nodes /\ l.origins \in [DOMAIN l.origins -> Component]

Nothing == [m \in Models |-> {}]
Empty == [rev |-> 0, total |-> Nothing, hourly |-> Nothing, stamp |-> [m \in Models |-> Never]]
Fresh(members) == [epoch |-> Never, models |-> [m \in Models |-> Never],
                   origins |-> [n \in members |-> Empty]]

(***************************************************************************)
(* Versions and components.                                                *)
(***************************************************************************)

Higher(v, w) == v[1] > w[1] \/ (v[1] = w[1] /\ v[2] > w[2])

Later(v, w) == IF Higher(w, v) THEN w ELSE v

Put(f, n, c) == [x \in DOMAIN f \cup {n} |-> IF x = n THEN c ELSE f[x]]

\* What the ledger counts of a model: a component that has not adopted the
\* model's last erase is left out.
\* MUTANT of Counted: whatever the components hold is added up.
CountedAll(l, m) == UNION {l.origins[o].total[m] : o \in DOMAIN l.origins}
Counted(l, m) ==
  UNION {l.origins[o].total[m] : o \in {x \in DOMAIN l.origins :
                                          l.origins[x].stamp[m] = l.models[m]}}

Rebuilt(l) == [m \in Models |-> Counted(l, m)]

Active(c) == {m \in Models : c.total[m] # {} \/ c.hourly[m] # {}}

\* A component without the usage its ledger no longer counts.
Visible(l, c) ==
  LET gone == {m \in Active(c) : c.stamp[m] # l.models[m]} IN
  [c EXCEPT !.total = [m \in Models |-> IF m \in gone THEN {} ELSE @[m]],
            !.hourly = [m \in Models |-> IF m \in gone THEN {} ELSE @[m]],
            !.stamp = [m \in Models |-> IF m \in gone THEN Never ELSE @[m]]]

Stamped(c, versions) == [c EXCEPT !.stamp = [m \in Models |-> IF m \in Active(c) THEN versions[m] ELSE @[m]]]

(***************************************************************************)
(* Merging and reconciling two ledgers.                                    *)
(***************************************************************************)

\* MUTANT of Known: a node adopting a reset is left without a component.
KnownAsIs(l, n) == l
Known(l, n) == IF n \in DOMAIN l.origins THEN l ELSE [l EXCEPT !.origins = Put(@, n, Empty)]

\* A copy of a component replaces the one at hand when its revision is newer.
\* MUTANT of Newer: the copy that arrives last wins.
NewerLast(l, o, c) == TRUE
Newer(l, o, c) == o \notin DOMAIN l.origins \/ c.rev > l.origins[o].rev

Union(l, r) ==
  [l EXCEPT !.models = [m \in Models |-> Later(@[m], r.models[m])],
            !.origins = [o \in DOMAIN l.origins \cup DOMAIN r.origins |->
                           IF o \in DOMAIN r.origins /\ Newer(l, o, r.origins[o])
                           THEN r.origins[o] ELSE l.origins[o]]]

Merge(n, l, r) ==
  CASE Higher(r.epoch, l.epoch) -> Known(r, n)
    [] Higher(l.epoch, r.epoch) -> l
    [] r.epoch = l.epoch -> Known(Union(l, r), n)

\* The joining peer puts its own component in place of the controller's copy.
Preserved(n, l, r) ==
  [r EXCEPT !.origins = Put(@, n, Stamped(Visible(l, l.origins[n]), r.models))]

Largest(S) == CHOOSE x \in S : \A y \in S : y <= x

\* The controller takes a new peer's usage and starts an epoch of its own.
Reconciled(l, r, peer) ==
  LET mine == [o \in DOMAIN l.origins |-> Visible(l, l.origins[o])]
      theirs == Visible(r, r.origins[peer])
      all == IF peer \in DOMAIN mine /\ theirs.rev < mine[peer].rev
             THEN mine ELSE Put(mine, peer, theirs)
      used == UNION {Active(all[o]) : o \in DOMAIN all}
      counters(m) == {l.models[m][1]} \cup {all[o].stamp[m][1] : o \in DOMAIN all}
      versions == [m \in Models |-> IF m \in used THEN <<Largest(counters(m)) + 1, Ctl>> ELSE l.models[m]]
  IN [epoch |-> <<Largest({l.epoch[1], r.epoch[1]}) + 1, Ctl>>, models |-> versions,
      origins |-> [o \in DOMAIN all |-> Stamped(all[o], versions)]]

\* One pulled ledger is taken into the controller's; then the next.
Absorb(l, r, n) == IF n \in reconciled THEN Merge(Ctl, l, r) ELSE Reconciled(l, r, n)

Absorbing[i \in 0 .. Len(PeerOrder)] ==
  IF i = 0 THEN ledger[Ctl]
  ELSE LET n == PeerOrder[i] IN
       IF n \in DOMAIN answers THEN Absorb(Absorbing[i - 1], answers[n], n) ELSE Absorbing[i - 1]

Absorbed == Absorbing[Len(PeerOrder)]

(***************************************************************************)
(* Recording, resetting and erasing usage.                                 *)
(***************************************************************************)

Entries(n) == {n} \X Models

\* MUTANT of Keep: the totals are rebuilt only when a component changed.
KeepTotals(n, l) ==
  /\ ledger' = [ledger EXCEPT ![n] = l]
  /\ totals' = IF l.origins = ledger[n].origins THEN totals ELSE [totals EXCEPT ![n] = Rebuilt(l)]
  /\ stale' = IF l = ledger[n] THEN stale ELSE stale \ Entries(n)

\* The totals are rebuilt from a changed ledger; saving it comes next.
Keep(n, l) ==
  /\ ledger' = [ledger EXCEPT ![n] = l]
  /\ totals' = IF l = ledger[n] THEN totals ELSE [totals EXCEPT ![n] = Rebuilt(l)]
  /\ stale' = IF l = ledger[n] THEN stale ELSE stale \ Entries(n)

\* The disk after that save; an unchanged ledger is not saved.
Saved(n, l) == IF l = ledger[n] THEN disk ELSE [disk EXCEPT ![n] = l]

\* MUTANT of Counting: the component's revision is not raised.
CountingQuietly(l, n, m, r) ==
  LET old == IF l.origins[n].stamp[m] = l.models[m] THEN l.origins[n] ELSE [l.origins[n] EXCEPT !.total[m] = {}, !.hourly[m] = {}]
  IN [l EXCEPT !.origins[n] =
        [old EXCEPT !.total[m] = @ \cup {r}, !.hourly[m] = @ \cup {r}, !.stamp[m] = l.models[m]]]

Counting(l, n, m, r) ==
  LET old == IF l.origins[n].stamp[m] = l.models[m] THEN l.origins[n]
             ELSE [l.origins[n] EXCEPT !.total[m] = {}, !.hourly[m] = {}]
  IN [l EXCEPT !.origins[n] =
        [old EXCEPT !.total[m] = @ \cup {r}, !.hourly[m] = @ \cup {r},
                    !.stamp[m] = l.models[m], !.rev = @ + 1]]

\* A served request is counted; a failure to save the ledger is swallowed.
Record(n, m) ==
  /\ Len(log) < MaxRequests
  /\ LET r == Len(log) + 1
         l == Counting(ledger[n], n, m, r) IN
     /\ ledger' = [ledger EXCEPT ![n] = l]
     /\ totals' = [totals EXCEPT ![n][m] = @ \cup {r}]
     /\ log' = Append(log, [node |-> n, model |-> m, epoch |-> l.epoch, version |-> l.models[m]])
     /\ \/ disk' = [disk EXCEPT ![n] = l] /\ UNCHANGED spent
        \/ /\ EventLeft
           /\ spent' = [spent EXCEPT !.faults = @ + 1]
           /\ UNCHANGED disk
  /\ calm' = 0
  /\ UNCHANGED <<stale, reconciled, round, late>>

\* A component after a reset, which keeps the hourly history, and after an erase.
Cleared(c) == [c EXCEPT !.total = Nothing, !.rev = @ + 1]
Purged(c, m) == [c EXCEPT !.total[m] = {}, !.hourly[m] = {}, !.rev = @ + 1]

\* Resetting the lifetime totals.  The totals are cleared after the save: one
\* that raises leaves them, and the disk, as they were.
Reset(n) ==
  /\ EventLeft
  /\ LET epoch == <<ledger[n].epoch[1] + 1, n>>
         l == [ledger[n] EXCEPT !.epoch = epoch,
                 !.origins = [o \in DOMAIN @ |-> Cleared(@[o])]] IN
     /\ ledger' = [ledger EXCEPT ![n] = l]
     /\ spent' = [spent EXCEPT !.resets = @ + 1, !.epochs = @ \cup {epoch}]
     /\ \/ /\ disk' = [disk EXCEPT ![n] = l]
           /\ totals' = [totals EXCEPT ![n] = Nothing]
           /\ stale' = stale \ Entries(n)
        \/ UNCHANGED <<disk, totals>> /\ stale' = stale \cup Entries(n)
  /\ calm' = 0
  /\ UNCHANGED <<reconciled, round, late, log>>

\* Erasing a model's usage, offered only for a model the node counts; a save
\* that raises cuts it short, too.
Erase(n, m) ==
  /\ EventLeft
  /\ totals[n][m] # {}
  /\ LET l == [ledger[n] EXCEPT !.models[m] = <<@[1] + 1, n>>,
                 !.origins = [o \in DOMAIN @ |-> Purged(@[o], m)]] IN
     /\ ledger' = [ledger EXCEPT ![n] = l]
     /\ \/ /\ disk' = [disk EXCEPT ![n] = l]
           /\ totals' = [totals EXCEPT ![n][m] = {}]
           /\ stale' = stale \ {<<n, m>>}
        \/ UNCHANGED <<disk, totals>> /\ stale' = stale \cup {<<n, m>>}
  /\ spent' = [spent EXCEPT !.erases = @ + 1]
  /\ calm' = 0
  /\ UNCHANGED <<reconciled, round, late, log>>

\* A node starts again from the ledger it saved.  The controller's round is
\* gone with it; its registry is not.
Restart(n) ==
  /\ EventLeft
  /\ disk[n] # ledger[n] \/ stale \cap Entries(n) # {} \/ (n = Ctl /\ phase # "idle")
  /\ ledger' = [ledger EXCEPT ![n] = disk[n]]
  /\ totals' = [totals EXCEPT ![n] = Rebuilt(disk[n])]
  /\ stale' = stale \ Entries(n)
  /\ spent' = [spent EXCEPT !.faults = @ + 1, !.lost = @ \/ disk[n] # ledger[n],
                             !.rewound = @ \/ disk[n].epoch # ledger[n].epoch,
                             !.torn = @ \/ (n = Ctl /\ claims # {})]
  /\ IF n = Ctl
     THEN /\ phase' = "idle" /\ asked' = {} /\ answers' = <<>> /\ snap' = Fresh({})
          /\ claims' = {} /\ confirmed' = {}
     ELSE UNCHANGED round
  /\ calm' = 0
  /\ UNCHANGED <<disk, reconciled, late, log>>

(***************************************************************************)
(* The controller's round.                                                 *)
(***************************************************************************)

StartRound ==
  /\ phase = "idle"
  /\ phase' = "pull" /\ asked' = Peers
  /\ UNCHANGED <<ledger, disk, totals, stale, reconciled, answers, snap, claims, confirmed, late, log, spent, calm>>

AnswerPull(n) ==
  /\ phase = "pull" /\ n \in asked
  /\ asked' = asked \ {n}
  /\ answers' = Put(answers, n, ledger[n])
  /\ UNCHANGED <<ledger, disk, totals, stale, reconciled, phase, snap, claims, confirmed, late, log, spent, calm>>

FailPull(n) ==
  /\ phase = "pull" /\ n \in asked /\ EventLeft
  /\ asked' = asked \ {n}
  /\ spent' = [spent EXCEPT !.faults = @ + 1]
  /\ calm' = 0
  /\ UNCHANGED <<ledger, disk, totals, stale, reconciled, phase, answers, snap, claims, confirmed, late, log>>

\* The places of the pulled ledgers that change the controller's: each is saved.
Changing == {i \in 1 .. Len(PeerOrder) : PeerOrder[i] \in DOMAIN answers /\ Absorbing[i] # Absorbing[i - 1]}

\* All pulls are over: merge what came, and push the union to who answered -
\* but for the peers after whose ledger the save raised.
MergePulls ==
  /\ phase = "pull" /\ asked = {}
  /\ \E l \in {Absorbed} : Keep(Ctl, l) /\ snap' = l
  /\ \E raised \in SUBSET Changing :
       LET dropped == {PeerOrder[i] : i \in raised}
           kept == Changing \ raised IN
       /\ disk' = IF kept = {} THEN disk ELSE [disk EXCEPT ![Ctl] = Absorbing[Largest(kept)]]
       /\ asked' = DOMAIN answers \ dropped
       /\ claims' = DOMAIN answers \ (reconciled \cup dropped)
       /\ \/ raised = {} /\ UNCHANGED <<spent, calm>>
          \/ /\ raised # {} /\ EventLeft
             /\ spent' = [spent EXCEPT !.faults = @ + 1, !.torn = @ \/ ~(dropped \subseteq reconciled)]
             /\ calm' = 0
  /\ phase' = "push"
  /\ answers' = <<>>
  /\ UNCHANGED <<reconciled, confirmed, late, log>>

\* A peer takes a pushed ledger in, and saves it or fails to.
Serve(n, r, claimed) ==
  \E l \in {Merge(n, ledger[n], IF claimed THEN Preserved(n, ledger[n], r) ELSE r)} :
    Keep(n, l) /\ disk' \in {Saved(n, l), disk}

ServePush(n) ==
  /\ phase = "push" /\ n \in asked
  /\ Serve(n, snap, n \in claims)
  /\ asked' = asked \ {n}
  /\ \/ /\ disk' = Saved(n, ledger'[n])
        /\ confirmed' = confirmed \cup {n} /\ UNCHANGED <<spent, calm>>
     \/ /\ EventLeft             \* the save raises, or the answer is lost
        /\ spent' = [spent EXCEPT !.faults = @ + 1]
        /\ calm' = 0
        /\ UNCHANGED confirmed
  /\ UNCHANGED <<reconciled, phase, answers, snap, claims, late, log>>

\* The push times out, and the peer may still serve it later.
TimeoutPush(n) ==
  /\ phase = "push" /\ n \in asked /\ EventLeft
  /\ asked' = asked \ {n}
  /\ late' = late \cup {[to |-> n, ledger |-> snap, claimed |-> n \in claims]}
  /\ spent' = [spent EXCEPT !.faults = @ + 1]
  /\ calm' = 0
  /\ UNCHANGED <<ledger, disk, totals, stale, reconciled, phase, answers, snap, claims, confirmed, log>>

ServeLate(p) ==
  /\ p \in late
  /\ Serve(p.to, p.ledger, p.claimed)
  /\ \/ disk' = Saved(p.to, ledger'[p.to]) /\ UNCHANGED spent
     \/ /\ EventLeft /\ disk' = disk
        /\ spent' = [spent EXCEPT !.faults = @ + 1]
  /\ late' = late \ {p}
  /\ calm' = 0
  /\ UNCHANGED <<reconciled, round, log>>

EndRound ==
  /\ phase = "push" /\ asked = {}
  /\ reconciled' = reconciled \cup (claims \cap confirmed)
  /\ spent' = [spent EXCEPT !.torn = @ \/ ~(claims \subseteq confirmed)]
  /\ phase' = "idle" /\ claims' = {} /\ confirmed' = {} /\ snap' = Fresh({})
  /\ calm' = IF calm = 3 THEN 3 ELSE calm + 1
  /\ UNCHANGED <<ledger, disk, totals, stale, asked, answers, late, log>>

(***************************************************************************)
(* The specification.                                                      *)
(***************************************************************************)

Members(n) == IF n \in Joined \cup {Ctl} THEN Joined \cup {Ctl} ELSE {n}

Init ==
  /\ ledger = [n \in Nodes |-> Fresh(Members(n))]
  /\ disk = ledger
  /\ totals = [n \in Nodes |-> Nothing]
  /\ stale = {}
  /\ reconciled = Joined
  /\ phase = "idle" /\ asked = {} /\ answers = <<>> /\ snap = Fresh({})
  /\ claims = {} /\ confirmed = {} /\ late = {}
  /\ log = <<>>
  /\ spent = [resets |-> 0, erases |-> 0, faults |-> 0, epochs |-> {},
             lost |-> FALSE, rewound |-> FALSE, torn |-> FALSE]
  /\ calm = 0

Next ==
  \/ \E n \in Nodes, m \in Models : Record(n, m) \/ Erase(n, m)
  \/ \E n \in Nodes : Reset(n) \/ Restart(n)
  \/ StartRound
  \/ \E n \in Peers : AnswerPull(n) \/ FailPull(n)
  \/ MergePulls
  \/ \E n \in Peers : ServePush(n) \/ TimeoutPush(n)
  \/ \E p \in late : ServeLate(p)
  \/ EndRound

Spec == Init /\ [][Next]_vars

(***************************************************************************)
(* Properties.                                                             *)
(***************************************************************************)

\* Types of the variables; every node has a component of its own.
TypeOK ==
  /\ DOMAIN ledger = Nodes /\ DOMAIN disk = Nodes
  /\ \A n \in Nodes : IsLedger(ledger[n]) /\ IsLedger(disk[n]) /\ n \in DOMAIN ledger[n].origins
  /\ totals \in [Nodes -> [Models -> SUBSET Requests]]
  /\ stale \subseteq Nodes \X Models
  /\ reconciled \subseteq Peers
  /\ phase \in {"idle", "pull", "push"}
  /\ asked \subseteq Peers /\ claims \subseteq Peers /\ confirmed \subseteq Peers
  /\ \A n \in DOMAIN answers : n \in Peers /\ IsLedger(answers[n])
  /\ IsLedger(snap)
  /\ \A p \in late : p.to \in Peers /\ IsLedger(p.ledger) /\ p.claimed \in BOOLEAN
  /\ log \in Seq([node : Nodes, model : Models, epoch : Version, version : Version])

\* The variables have their types, and the totals a node shows (token_stats, bumped
\* in place by _record_tokens) are those its ledger gives when rebuilt
\* (_rebuild_synced_token_usage), whatever erases, resets, merges, failed saves and
\* restarts came between.  After a reset or an erase whose save raised they count more
\* than the ledger, never less, and no longer than until the next change the node takes
\* in, the next reset, erase of the model, or restart.
TotalsMatchLedger ==
  /\ TypeOK
  /\ \A n \in Nodes, m \in Models :
       /\ Counted(ledger[n], m) \subseteq totals[n][m]
       /\ <<n, m>> \notin stale => totals[n][m] = Counted(ledger[n], m)

\* What was erased or reset is not counted again by a node that has adopted
\* the erase or the reset, however late a peer's copy of it arrives: within
\* an epoch a node counts only requests recorded under its current version
\* of the model, and under a reset's epoch only requests recorded in it
\* (usage a new peer brings along excepted).  Not so while the save of the node's own
\* reset or erase has just raised; and a restart from a disk that missed an epoch may
\* have the epoch handed out twice.
ForgottenStaysForgotten ==
  \A n \in Nodes, m \in Models : <<n, m>> \notin stale =>
    \A r \in totals[n][m] :
      /\ log[r].epoch = ledger[n].epoch => log[r].version = ledger[n].models[m]
      /\ ~spent.rewound /\ ledger[n].epoch \in spent.epochs /\ log[r].node \in Joined \cup {Ctl}
           => log[r].epoch = ledger[n].epoch

\* A sync never makes a node forget requests it served itself: they go with
\* an erase of their model or with the adoption of a newer epoch.  (Two
\* erases of other models at one peer, an erase or a reset during the peer's own
\* first sync, and a restart from a ledger older than the one in memory do lose
\* usage, and totals that outlived a reset or an erase are put right: see the
\* README.)
OwnUsageKept ==
  [][\A n \in Nodes, m \in Models :
       \/ <<n, m>> \in stale
       \/ IF n \in Joined \cup {Ctl} THEN spent'.erases > 1 ELSE spent'.erases + spent'.resets > 0
       \/ spent'.lost
       \/ ledger'[n].epoch # ledger[n].epoch
       \/ ledger'[n].models[m] # ledger[n].models[m]
       \/ {r \in totals[n][m] : log[r].node = n} \subseteq totals'[n][m]]_vars

\* Two undisturbed rounds of the five-second loop bring every node to the
\* controller's epoch and model versions, whatever resets, erases, joins,
\* failed calls and restarts raced before, and to exactly the controller's totals
\* - unless a model was erased, a save lost, or a peer's first sync repeated
\* after a reset, when equal revisions can differ (see the README), or the save of
\* a reset raised and no change has come since to rebuild the totals.
TwoRoundsConverge ==
  calm = 3 =>
    \A n \in Nodes :
      /\ ledger[n].epoch = ledger[Ctl].epoch
      /\ ledger[n].models = ledger[Ctl].models
      /\ spent.erases = 0 /\ ~spent.lost /\ (spent.resets > 0 => ~spent.torn) =>
           \A m \in Models : {<<n, m>>, <<Ctl, m>>} \cap stale = {} => totals[n][m] = totals[Ctl][m]
=============================================================================
