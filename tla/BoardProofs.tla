----------------------------- MODULE BoardProofs -----------------------------
(***************************************************************************)
(* Proofs about the Blackboard for every set of tasks, revisions, plans,   *)
(* assignments and offered events, and a log of any bound.  The second     *)
(* half: what the log says of plans and what the fold says of them agree,  *)
(* so an intent is committed under the current plan alone, a TASK_DONE is  *)
(* earned by it, and what the gate lets in the fold never ignores.         *)
(* The last part is about module BoardFold: a clue is evidence exactly     *)
(* once (it is pending, or an event that names it was committed after it,  *)
(* and no two replans act on it), and the view carried along is the fold   *)
(* of the whole log from scratch.                                          *)
(***************************************************************************)
EXTENDS BoardFold, TaskViewProofs, SequenceTheorems

-----------------------------------------------------------------------------
(* What a commit is.                                                       *)

\* An event other than a legacy clue counts for the revision it names.
LEMMA TargetType ==
    ASSUME TypeOK, NEW e \in Offered
    PROVE  /\ Target(e) \in TaskRevs
           /\ e.type \notin {"clue", "estop"} => Target(e) = <<e.task, e.rev>>
  BY EventShape, OfferedAssumption, NoneAssumption
     DEF TypeOK, Target, EffectiveRev, TaskRevs

\* A commit passed every index and the gate.
LEMMA AppendedFacts ==
    ASSUME TypeOK, NEW e \in Offered, Outcome(e) = "APPENDED"
    PROVE  KeyEntry(e) = 0 /\ TerminalEntry(e) = 0 /\ byId[e.id] = 0 /\ GateAccepts(e)
<1> DEFINE k == KeyEntry(e)
           t == TerminalEntry(e)
           i == byId[e.id]
<1>1. k = 0
  <2>1. SUFFICES ASSUME k # 0 PROVE FALSE
    OBVIOUS
  <2>2. Outcome(e) \in {"DUPLICATE_SAME", "TERMINAL_CONFLICT", "KEY_CONFLICT"}
    BY <2>1 DEF Outcome
  <2>3. QED
    BY <2>2
<1>2. t = 0
  <2>1. SUFFICES ASSUME t # 0 PROVE FALSE
    OBVIOUS
  <2>2. Outcome(e) \in {"DUPLICATE_SAME", "TERMINAL_CONFLICT"}
    BY <1>1, <2>1 DEF Outcome
  <2>3. QED
    BY <2>2
<1>3. i = 0
  <2>1. SUFFICES ASSUME i # 0 PROVE FALSE
    OBVIOUS
  <2>2. Outcome(e) \in {"DUPLICATE_SAME", "KEY_CONFLICT"}
    BY <1>1, <1>2, <2>1 DEF Outcome
  <2>3. QED
    BY <2>2
<1>4. GateAccepts(e)
  BY <1>1, <1>2, <1>3 DEF Outcome
<1>5. QED
  BY <1>1, <1>2, <1>3, <1>4

\* Next is a commit or nothing.
LEMMA NextIsCommit ==
    ASSUME Next
    PROVE  \/ \E e \in Offered : Outcome(e) = "APPENDED" /\ Commit(e)
           \/ UNCHANGED vars
  BY DEF Next, Offer

-----------------------------------------------------------------------------
(* Type correctness.                                                       *)

LEMMA InitType == Init => TypeOK
  BY EmptyViewType, RevsAssumption DEF Init, TypeOK

LEMMA CommitType ==
    ASSUME TypeOK, NEW e \in Offered, Commit(e)
    PROVE  TypeOK'
<1>e. e \in Event
  BY OfferedAssumption
<1>1. Len(log) + 1 \in Nat
  BY DEF TypeOK
<1>2. log' \in Seq(Offered)
  BY DEF TypeOK, Commit
<1>3. byId' \in [EventIds -> Nat]
  BY <1>1 DEF TypeOK, Commit
<1>4. byKey' \in [Keys -> Nat]
  BY <1>1 DEF TypeOK, Commit
<1>5. byTerminal' \in [TaskRevs -> Nat]
  BY <1>1 DEF TypeOK, Commit
<1>6. latest' \in [Tasks -> Revs]
  <2>1. e.type = "task_posted" => e.rev \in Revs
    BY <1>e, EventShape
  <2>2. QED
    BY <2>1 DEF TypeOK, Commit, LatestAfter
<1>7. view' \in [TaskRevs -> View]
  <2>1. Target(e) \in TaskRevs
    BY TargetType
  <2>2. Apply(view[Target(e)], e) \in View
    BY <1>e, <2>1, ApplyType DEF TypeOK
  <2>3. QED
    BY <2>1, <2>2 DEF TypeOK, Commit
<1>8. QED
  BY <1>2, <1>3, <1>4, <1>5, <1>6, <1>7 DEF TypeOK

LEMMA NextType == TypeOK /\ [Next]_vars => TypeOK'
<1>1. ASSUME TypeOK, [Next]_vars PROVE TypeOK'
  <2>1. CASE UNCHANGED vars
    BY <1>1, <2>1 DEF TypeOK, vars
  <2>2. ASSUME NEW e \in Offered, Commit(e) PROVE TypeOK'
    BY <1>1, <2>2, CommitType
  <2>3. QED
    BY <1>1, <2>1, <2>2, NextIsCommit
<1>2. QED
  BY <1>1

\* Whatever is offered, every index, view and event keeps its shape.
THEOREM TypeCorrect == Spec => []TypeOK
  BY InitType, NextType, PTL DEF Spec

-----------------------------------------------------------------------------
(* Exactly-once commit.                                                    *)

\* Every committed event is found through each of its indexes, so an index
\* miss means the thing has never been committed.
IndexesCoverLog ==
    \A n \in Committed :
        /\ byId[log[n].id] = n
        /\ log[n].key # None => byKey[log[n].key] = n
        /\ IsTerminal(log[n]) => byTerminal[<<log[n].task, log[n].rev>>] = n

LEMMA CommittedShape ==
    ASSUME TypeOK, NEW n \in Committed
    PROVE  log[n] \in Event /\ n \in 1 .. Len(log)
  BY OfferedAssumption DEF TypeOK, Committed

\* What Append leaves and adds.
LEMMA LogAfterCommit ==
    ASSUME TypeOK, NEW e \in Offered, Commit(e)
    PROVE  /\ Committed' = Committed \cup {Len(log) + 1}
           /\ Len(log) + 1 \notin Committed
           /\ Len(log) \in Nat
           /\ log'[Len(log) + 1] = e
           /\ \A n \in Committed : log'[n] = log[n]
  BY DEF TypeOK, Commit, Committed

LEMMA CommitIndexes ==
    ASSUME TypeOK, IndexesCoverLog, NEW e \in Offered,
           Outcome(e) = "APPENDED", Commit(e)
    PROVE  IndexesCoverLog'
<1> DEFINE version == Len(log) + 1
<1>e. /\ e.id \in EventIds
      /\ e.key \in Keys \cup {None}
      /\ e.task \in Tasks
      /\ IsTerminal(e) => e.rev \in Revs
  BY EventShape, OfferedAssumption DEF IsTerminal, TerminalTypes
<1>0. KeyEntry(e) = 0 /\ TerminalEntry(e) = 0 /\ byId[e.id] = 0
  BY AppendedFacts
<1>1. SUFFICES ASSUME NEW n \in Committed'
               PROVE  /\ byId'[log'[n].id] = n
                      /\ log'[n].key # None => byKey'[log'[n].key] = n
                      /\ IsTerminal(log'[n]) =>
                            byTerminal'[<<log'[n].task, log'[n].rev>>] = n
  BY DEF IndexesCoverLog, IsTerminal
<1>2. CASE n = version
  <2>1. log'[n] = e
    BY <1>2, LogAfterCommit
  <2>2. byId'[e.id] = n
    BY <1>2, <1>e DEF TypeOK, Commit
  <2>3. e.key # None => byKey'[e.key] = n
    BY <1>2, <1>e DEF TypeOK, Commit
  <2>4. IsTerminal(e) => byTerminal'[<<e.task, e.rev>>] = n
    BY <1>2, <1>e DEF TypeOK, Commit, TaskRevs
  <2>5. QED
    BY <2>1, <2>2, <2>3, <2>4
<1>3. CASE n # version
  <2>1. n \in Committed /\ log'[n] = log[n]
    BY <1>3, LogAfterCommit
  <2>2. log[n] \in Event /\ n # 0
    BY <2>1, CommittedShape
  <2>3. byId'[log[n].id] = n
    <3>1. byId[log[n].id] = n /\ log[n].id # e.id
      BY <2>1, <2>2, <1>0 DEF IndexesCoverLog
    <3>2. QED
      BY <3>1, <2>2, EventShape DEF TypeOK, Commit
  <2>4. ASSUME log[n].key # None PROVE byKey'[log[n].key] = n
    <3>1. byKey[log[n].key] = n
      BY <2>1, <2>4 DEF IndexesCoverLog
    <3>2. log[n].key # e.key
      BY <3>1, <2>2, <2>4, <1>0 DEF KeyEntry
    <3>3. QED
      BY <3>1, <3>2, <2>2, <2>4, EventShape DEF TypeOK, Commit
  <2>5. ASSUME IsTerminal(log[n])
        PROVE  byTerminal'[<<log[n].task, log[n].rev>>] = n
    <3>1. byTerminal[<<log[n].task, log[n].rev>>] = n
      BY <2>1, <2>5 DEF IndexesCoverLog
    <3>2. IsTerminal(e) => <<log[n].task, log[n].rev>> # <<e.task, e.rev>>
      BY <3>1, <2>2, <1>0 DEF TerminalEntry
    <3>3. <<log[n].task, log[n].rev>> \in TaskRevs
      BY <2>2, <2>5, EventShape DEF TaskRevs, IsTerminal, TerminalTypes
    <3>4. QED
      BY <3>1, <3>2, <3>3 DEF TypeOK, Commit
  <2>6. QED
    BY <2>1, <2>3, <2>4, <2>5
<1>4. QED
  BY <1>2, <1>3

LEMMA IndexesStep == TypeOK /\ IndexesCoverLog /\ [Next]_vars => IndexesCoverLog'
<1>1. ASSUME TypeOK, IndexesCoverLog, UNCHANGED vars PROVE IndexesCoverLog'
  BY <1>1 DEF IndexesCoverLog, vars, Committed, IsTerminal
<1>2. ASSUME TypeOK, IndexesCoverLog, Next PROVE IndexesCoverLog'
  <2>1. PICK e \in Offered : (Outcome(e) = "APPENDED" /\ Commit(e)) \/ UNCHANGED vars
    BY <1>2 DEF Next, Offer
  <2>2. QED
    BY <1>1, <1>2, <2>1, CommitIndexes
<1>3. QED
  BY <1>1, <1>2

LEMMA CoverGivesOnce == IndexesCoverLog => CommittedOnce
<1>1. SUFFICES ASSUME IndexesCoverLog, NEW m \in Committed, NEW n \in Committed, m # n
               PROVE  /\ log[m].id # log[n].id
                      /\ log[m].key # None => log[m].key # log[n].key
                      /\ ~SameTerminalKey(log[m], log[n])
  BY DEF CommittedOnce
<1>2. log[m].id # log[n].id
  <2>1. byId[log[m].id] = m /\ byId[log[n].id] = n
    BY <1>1 DEF IndexesCoverLog
  <2>2. QED
    BY <1>1, <2>1
<1>3. log[m].key # None => log[m].key # log[n].key
  <2>1. /\ log[m].key # None => byKey[log[m].key] = m
        /\ log[n].key # None => byKey[log[n].key] = n
    BY <1>1 DEF IndexesCoverLog
  <2>2. QED
    BY <1>1, <2>1
<1>4. ~SameTerminalKey(log[m], log[n])
  <2>1. /\ IsTerminal(log[m]) => byTerminal[<<log[m].task, log[m].rev>>] = m
        /\ IsTerminal(log[n]) => byTerminal[<<log[n].task, log[n].rev>>] = n
    BY <1>1 DEF IndexesCoverLog
  <2>2. QED
    BY <1>1, <2>1 DEF SameTerminalKey
<1>5. QED
  BY <1>2, <1>3, <1>4

\* However often and by whomever an event is offered, its id, its idempotency
\* key and its terminal key are committed at most once.
THEOREM OnceOnly == Spec => []CommittedOnce
<1>1. Init => IndexesCoverLog
  BY DEF Init, IndexesCoverLog, Committed
<1>2. QED
  BY <1>1, TypeCorrect, IndexesStep, CoverGivesOnce, PTL DEF Spec

-----------------------------------------------------------------------------
(* A terminal entry is the terminal the fold took.                         *)

LEMMA CommitOwnership ==
    ASSUME TypeOK, TerminalOwnership, NEW e \in Offered,
           Outcome(e) = "APPENDED", Commit(e)
    PROVE  TerminalOwnership'
<1> DEFINE version == Len(log) + 1
<1>e. e \in Event /\ e.id \in EventIds
  BY EventShape, OfferedAssumption
<1>t. Target(e) \in TaskRevs /\ (IsTerminal(e) => Target(e) = <<e.task, e.rev>>)
  BY TargetType DEF IsTerminal, TerminalTypes
<1>v. /\ view[Target(e)] \in View
      /\ view'[Target(e)] = Apply(view[Target(e)], e)
      /\ \A tr \in TaskRevs : tr # Target(e) => view'[tr] = view[tr]
  BY <1>t DEF TypeOK, Commit
<1>1. SUFFICES ASSUME NEW tr \in TaskRevs
               PROVE  /\ byTerminal'[tr] # 0 <=> view'[tr].terminal # None
                      /\ byTerminal'[tr] # 0 =>
                            /\ byTerminal'[tr] \in Committed'
                            /\ log'[byTerminal'[tr]].id = view'[tr].terminal
  BY DEF TerminalOwnership
<1>2. CASE IsTerminal(e) /\ tr = Target(e)
  <2>1. byTerminal'[tr] = version
    BY <1>2, <1>t DEF TypeOK, Commit
  <2>2. GateAccepts(e)
    BY AppendedFacts
  <2>3. Accepts(view[Target(e)], e)
    BY <1>2, <2>2 DEF GateAccepts, IsTerminal, TerminalTypes
  <2>4. view'[tr].terminal = e.id
    BY <1>2, <1>e, <1>v, <2>3, AcceptedTerminal DEF IsTerminal
  <2>5. version # 0 /\ version \in Committed' /\ log'[version] = e
    BY LogAfterCommit
  <2>6. QED
    BY <1>e, <2>1, <2>4, <2>5, NoneAssumption
<1>3. CASE ~(IsTerminal(e) /\ tr = Target(e))
  <2>1. byTerminal'[tr] = byTerminal[tr]
    BY <1>3, <1>t DEF TypeOK, Commit
  <2>2. view'[tr].terminal = view[tr].terminal
    BY <1>3, <1>e, <1>v, ApplyKeepsTerminal DEF IsTerminal
  <2>3. \A n \in Committed : n \in Committed' /\ log'[n] = log[n]
    BY LogAfterCommit
  <2>4. QED
    BY <2>1, <2>2, <2>3 DEF TerminalOwnership
<1>4. QED
  BY <1>2, <1>3

LEMMA OwnershipStep == TypeOK /\ TerminalOwnership /\ [Next]_vars => TerminalOwnership'
<1>1. ASSUME TerminalOwnership, UNCHANGED vars PROVE TerminalOwnership'
  BY <1>1 DEF TerminalOwnership, vars, Committed
<1>2. ASSUME TypeOK, TerminalOwnership, Next PROVE TerminalOwnership'
  <2>1. PICK e \in Offered : (Outcome(e) = "APPENDED" /\ Commit(e)) \/ UNCHANGED vars
    BY <1>2 DEF Next, Offer
  <2>2. QED
    BY <1>1, <1>2, <2>1, CommitOwnership
<1>3. QED
  BY <1>1, <1>2

\* A stale terminal never blocks the real one: the terminal index holds an
\* entry exactly for the revisions the fold ended, and it is that event.
THEOREM StaleTerminalNeverBlocks == Spec => []TerminalOwnership
<1>1. Init => TerminalOwnership
  BY DEF Init, TerminalOwnership, EmptyView
<1>2. QED
  BY <1>1, TypeCorrect, OwnershipStep, PTL DEF Spec
-----------------------------------------------------------------------------
(* The Blackboard implements the task lifecycle: every commit moves the    *)
(* phase and epoch of one task revision by a step of TaskLifecycle, or not *)
(* at all.                                                                 *)

(* The strengthening: a revision that is not posted has no history.  The   *)
(* gate demands a posted task of every event that gives it one.            *)

Unposted(v) == v.plan = None /\ v.round = None /\ v.terminal = None

PostedFirst == \A tr \in TaskRevs : view[tr].posted \/ Unposted(view[tr])

LEMMA ApplyPostedFirst ==
    ASSUME NEW v \in View, NEW e \in Event, v.posted \/ Unposted(v),
           e.type \in GatedTypes \ {"task_posted"} => Accepts(v, e)
    PROVE  Apply(v, e).posted \/ Unposted(Apply(v, e))
<1>1. CASE e.type \in GatedTypes \ {"task_posted"}
  <2>1. v.posted
    BY <1>1, AcceptedGated
  <2>2. Apply(v, e).posted
    BY <2>1, <1>1 DEF View, Apply, GatedTypes, TerminalTypes, ApplyRound,
        ApplyAssigned, ApplyIntent, ApplyReplan, ApplyTerminal
  <2>3. QED
    BY <2>2
<1>2. CASE e.type = "task_posted"
  <2>1. Apply(v, e) \in {v, [v EXCEPT !.posted = TRUE, !.status = "posted"]}
    BY <1>2 DEF Apply, ApplyPosted, TerminalTypes
  <2>2. [v EXCEPT !.posted = TRUE, !.status = "posted"].posted
    BY DEF View
  <2>3. QED
    BY <2>1, <2>2
<1>3. CASE e.type \notin GatedTypes
  BY <1>3, FactsKeepPhase DEF Unposted
<1>4. QED
  BY <1>1, <1>2, <1>3

\* A commit changes the view of its target alone, by Apply.
LEMMA CommitView ==
    ASSUME TypeOK, NEW e \in Offered, Outcome(e) = "APPENDED", Commit(e)
    PROVE  /\ e \in Event
           /\ Target(e) \in TaskRevs
           /\ view[Target(e)] \in View
           /\ view' = [view EXCEPT ![Target(e)] = Apply(view[Target(e)], e)]
           /\ e.type \in GatedTypes \ {"task_posted"} => Accepts(view[Target(e)], e)
<1>1. e \in Event /\ Target(e) \in TaskRevs
  BY TargetType, OfferedAssumption
<1>2. GateAccepts(e)
  BY AppendedFacts
<1>3. e.type \in GatedTypes \ {"task_posted"} => Accepts(view[Target(e)], e)
  BY <1>2 DEF GateAccepts
<1>4. view[Target(e)] \in View
  BY <1>1 DEF TypeOK
<1>5. QED
  BY <1>1, <1>3, <1>4 DEF Commit

LEMMA PostedFirstStep == TypeOK /\ PostedFirst /\ [Next]_vars => PostedFirst'
<1>1. ASSUME PostedFirst, UNCHANGED vars PROVE PostedFirst'
  BY <1>1 DEF PostedFirst, Unposted, vars
<1>2. ASSUME TypeOK, PostedFirst, NEW e \in Offered,
             Outcome(e) = "APPENDED", Commit(e)
      PROVE  PostedFirst'
  <2>1. SUFFICES ASSUME NEW tr \in TaskRevs
                 PROVE  view'[tr].posted \/ Unposted(view'[tr])
    BY DEF PostedFirst, Unposted
  <2>2. CASE tr = Target(e)
    <3>1. view'[tr] = Apply(view[tr], e)
      BY <1>2, <2>2, CommitView DEF TypeOK
    <3>2. view[tr].posted \/ Unposted(view[tr])
      BY <1>2 DEF PostedFirst
    <3>3. QED
      BY <1>2, <2>2, <3>1, <3>2, CommitView, ApplyPostedFirst
  <2>3. CASE tr # Target(e)
    <3>1. view'[tr] = view[tr]
      BY <1>2, <2>3, CommitView DEF TypeOK
    <3>2. QED
      BY <1>2, <3>1 DEF PostedFirst
  <2>4. QED
    BY <2>2, <2>3
<1>3. QED
  BY <1>1, <1>2, NextIsCommit

-----------------------------------------------------------------------------
(* How an accepted event moves phase and epoch of a view.                  *)

OpenPhases == {"idle", "bidding", "planned"}

PhaseStep(v, w) ==
    \/ PhaseOf(w) = PhaseOf(v) /\ w.epoch = v.epoch
    \/ PhaseOf(v) = "absent" /\ PhaseOf(w) = "idle" /\ w.epoch = v.epoch
    \/ /\ PhaseOf(v) \in {"idle", "bidding"} /\ PhaseOf(w) = "bidding"
       /\ w.epoch = IF v.epoch = 0 THEN 1 ELSE v.epoch
    \/ PhaseOf(v) = "bidding" /\ PhaseOf(w) = "planned" /\ w.epoch = v.epoch
    \/ PhaseOf(v) \in OpenPhases /\ PhaseOf(w) = "idle" /\ w.epoch = v.epoch + 1
    \/ PhaseOf(v) = "planned" /\ PhaseOf(w) = "done" /\ w.epoch = v.epoch
    \/ PhaseOf(v) \in OpenPhases /\ PhaseOf(w) = "failed" /\ w.epoch = v.epoch

\* The phase of an open task.
LEMMA OpenPhase ==
    ASSUME NEW v \in View, v.posted, v.terminal = None
    PROVE  /\ PhaseOf(v) \in OpenPhases
           /\ v.plan = None => PhaseOf(v) \in {"idle", "bidding"}
           /\ v.plan = None /\ v.round # None => PhaseOf(v) = "bidding"
           /\ v.plan # None => PhaseOf(v) = "planned"
  BY DEF PhaseOf, OpenPhases

LEMMA PostMoves ==
    ASSUME NEW v \in View, NEW e \in Event, v.posted \/ Unposted(v),
           e.type = "task_posted"
    PROVE  PhaseStep(v, Apply(v, e))
<1>1. CASE v.posted \/ v.terminal # None
  <2>1. Apply(v, e) = v
    BY <1>1 DEF Apply, ApplyPosted, TerminalTypes
  <2>2. QED
    BY <2>1 DEF PhaseStep
<1>2. CASE ~v.posted /\ v.terminal = None
  <2>1. Unposted(v)
    BY <1>2
  <2>2. Apply(v, e) = [v EXCEPT !.posted = TRUE, !.status = "posted"]
    BY <1>2 DEF Apply, ApplyPosted, TerminalTypes
  <2>3. /\ Apply(v, e).posted /\ Apply(v, e).epoch = v.epoch
        /\ Unposted(Apply(v, e))
    BY <2>1, <2>2 DEF View, Unposted
  <2>4. PhaseOf(v) = "absent" /\ PhaseOf(Apply(v, e)) = "idle"
    BY <1>2, <2>1, <2>3 DEF PhaseOf, Unposted
  <2>5. QED
    BY <2>3, <2>4 DEF PhaseStep
<1>3. QED
  BY <1>1, <1>2

LEMMA RoundMoves ==
    ASSUME NEW v \in View, NEW e \in Event, e.type = "bid_round_opened",
           v.posted, v.terminal = None, AcceptsRound(v, e)
    PROVE  PhaseStep(v, Apply(v, e))
<1> DEFINE w == Apply(v, e)
<1>1. w = ApplyRound(v, e)
  BY DEF Apply, TerminalTypes
<1>2. CASE w = v
  BY <1>2 DEF PhaseStep
<1>3. CASE w # v
  <2>1. w = [v EXCEPT !.epoch  = e.epoch,
                      !.round  = [epoch |-> e.epoch, number |-> e.number],
                      !.status = "bidding"]
    BY <1>1, <1>3 DEF ApplyRound
  <2>2. [epoch |-> e.epoch, number |-> e.number] # None
    BY RoundShape, NoneAssumption
  <2>3. /\ w.posted /\ w.terminal = None /\ w.plan = None /\ w.round # None
        /\ w.epoch = IF v.epoch = 0 THEN 1 ELSE v.epoch
    BY <2>1, <2>2 DEF View, AcceptsRound, NextRoundEpoch
  <2>4. PhaseOf(w) = "bidding"
    BY <2>3 DEF PhaseOf
  <2>5. PhaseOf(v) \in {"idle", "bidding"}
    BY OpenPhase DEF AcceptsRound
  <2>6. QED
    BY <2>3, <2>4, <2>5 DEF PhaseStep
<1>4. QED
  BY <1>2, <1>3

LEMMA AssignMoves ==
    ASSUME NEW v \in View, NEW e \in Event, e.type = "task_assigned",
           v.posted, v.terminal = None, AcceptsAssigned(v, e)
    PROVE  PhaseStep(v, Apply(v, e))
<1> DEFINE w == Apply(v, e)
<1>1. w = ApplyAssigned(v, e)
  BY DEF Apply, TerminalTypes
<1>2. /\ w.plan = [id |-> e.plan, epoch |-> e.epoch, asgs |-> e.asgs]
      /\ w.terminal = None /\ w.epoch = v.epoch
  BY <1>1 DEF AcceptsAssigned, ApplyAssigned, View
<1>3. w.plan # None
  BY <1>2, AssignedShape, NoneAssumption
<1>4. PhaseOf(w) = "planned"
  BY <1>2, <1>3 DEF PhaseOf
<1>5. PhaseOf(v) = "bidding"
  BY OpenPhase DEF AcceptsAssigned
<1>6. QED
  BY <1>2, <1>4, <1>5 DEF PhaseStep

LEMMA ReplanMoves ==
    ASSUME NEW v \in View, NEW e \in Event, e.type = "task_replan",
           v.posted, v.terminal = None, AcceptsReplan(v, e)
    PROVE  PhaseStep(v, Apply(v, e))
<1> DEFINE w == Apply(v, e)
<1>1. w = ApplyReplan(v, e)
  BY DEF Apply, TerminalTypes
<1>2. /\ w.plan = None /\ w.round = None /\ w.terminal = None /\ w.posted
      /\ w.epoch = v.epoch + 1
  BY <1>1 DEF AcceptsReplan, ApplyReplan, View
<1>3. PhaseOf(w) = "idle"
  BY <1>2 DEF PhaseOf
<1>4. QED
  BY <1>2, <1>3, OpenPhase DEF PhaseStep

LEMMA TerminalMoves ==
    ASSUME NEW v \in View, NEW e \in Event, e.type \in TerminalTypes,
           v.posted, Accepts(v, e)
    PROVE  PhaseStep(v, Apply(v, e))
<1> DEFINE w == Apply(v, e)
<1>1. v.terminal = None /\ w.terminal = e.id
  BY AcceptedTerminal DEF IsTerminal
<1>2. e.id # None
  BY EventShape, NoneAssumption
<1>3. w = ApplyTerminal(v, e)
  BY <1>1 DEF Apply, TerminalTypes
<1>4. w = [v EXCEPT !.terminal = e.id,
                    !.round    = None,
                    !.status   = IF e.type = "task_done" THEN "done" ELSE "failed",
                    !.pending  = {}]
  BY <1>1, <1>2, <1>3 DEF ApplyTerminal
<1>5. /\ w.status = IF e.type = "task_done" THEN "done" ELSE "failed"
      /\ w.epoch = v.epoch
  BY <1>4 DEF View
<1>6. PhaseOf(w) = IF e.type = "task_done" THEN "done" ELSE "failed"
  BY <1>1, <1>2, <1>5 DEF PhaseOf
<1>7. CASE e.type = "task_done"
  <2>1. AcceptsDone(v, e)
    BY <1>7 DEF Accepts, GatedTypes, TerminalTypes
  <2>2. PhaseOf(v) = "planned"
    BY <1>1, <2>1, OpenPhase DEF AcceptsDone
  <2>3. QED
    BY <1>5, <1>6, <1>7, <2>2 DEF PhaseStep
<1>8. CASE e.type # "task_done"
  BY <1>1, <1>5, <1>6, <1>8, OpenPhase DEF PhaseStep
<1>9. QED
  BY <1>7, <1>8

LEMMA ApplyMoves ==
    ASSUME NEW v \in View, NEW e \in Event, v.posted \/ Unposted(v),
           e.type \in GatedTypes \ {"task_posted"} => Accepts(v, e)
    PROVE  PhaseStep(v, Apply(v, e))
<1>1. CASE e.type \notin GatedTypes \ {"action_intent"}
  BY <1>1, FactsKeepPhase DEF PhaseStep, PhaseOf, GatedTypes
<1>2. CASE e.type = "task_posted"
  BY <1>2, PostMoves
<1>3. CASE e.type \in GatedTypes \ {"task_posted", "action_intent"}
  <2>1. e.type \in GatedTypes /\ Accepts(v, e)
    BY <1>3
  <2>2. v.posted /\ v.terminal = None
    BY <2>1, AcceptedGated
  <2>3. CASE e.type = "bid_round_opened"
    BY <2>1, <2>2, <2>3, AcceptedGated, RoundMoves
  <2>4. CASE e.type = "task_assigned"
    BY <2>1, <2>2, <2>4, AcceptedGated, AssignMoves
  <2>5. CASE e.type = "task_replan"
    BY <2>1, <2>2, <2>5, AcceptedGated, ReplanMoves
  <2>6. CASE e.type \in TerminalTypes
    BY <2>1, <2>2, <2>6, TerminalMoves
  <2>7. QED
    BY <1>3, <2>3, <2>4, <2>5, <2>6 DEF GatedTypes
<1>4. QED
  BY <1>1, <1>2, <1>3

-----------------------------------------------------------------------------
(* Refinement.                                                             *)

\* A new view of one revision, written with the lifecycle's variables.
LEMMA PhaseStepIsMove ==
    ASSUME TypeOK, NEW r \in TaskRevs, NEW w \in View,
           view' = [view EXCEPT ![r] = w], PhaseStep(view[r], w)
    PROVE  [Lifecycle!Next]_(Lifecycle!lifecycle)
<1> DEFINE phase == [tr \in TaskRevs |-> PhaseOf(view[tr])]
           epoch == [tr \in TaskRevs |-> view[tr].epoch]
<1>1. /\ phase' = [phase EXCEPT ![r] = PhaseOf(w)]
      /\ epoch' = [epoch EXCEPT ![r] = w.epoch]
      /\ phase[r] = PhaseOf(view[r]) /\ epoch[r] = view[r].epoch
  BY DEF TypeOK
<1>2. CASE PhaseOf(w) = PhaseOf(view[r]) /\ w.epoch = view[r].epoch
  <2>1. phase' = phase /\ epoch' = epoch
    BY <1>2 DEF TypeOK
  <2>2. QED
    BY <2>1 DEF Lifecycle!lifecycle
<1>3. CASE ~(PhaseOf(w) = PhaseOf(view[r]) /\ w.epoch = view[r].epoch)
  <2>1. \/ Lifecycle!Post(r) \/ Lifecycle!OpenRound(r) \/ Lifecycle!Assign(r)
        \/ Lifecycle!Replan(r) \/ Lifecycle!Finish(r) \/ Lifecycle!Fail(r)
    BY <1>1, <1>3 DEF PhaseStep, OpenPhases, Lifecycle!Move, Lifecycle!Open,
       Lifecycle!Post, Lifecycle!OpenRound, Lifecycle!Assign, Lifecycle!Replan,
       Lifecycle!Finish, Lifecycle!Fail
  <2>2. QED
    BY <2>1 DEF Lifecycle!Next
<1>4. QED
  BY <1>2, <1>3

LEMMA CommitMoves ==
    ASSUME TypeOK, PostedFirst, NEW e \in Offered,
           Outcome(e) = "APPENDED", Commit(e)
    PROVE  [Lifecycle!Next]_(Lifecycle!lifecycle)
<1>1. /\ e \in Event /\ Target(e) \in TaskRevs /\ view[Target(e)] \in View
      /\ view' = [view EXCEPT ![Target(e)] = Apply(view[Target(e)], e)]
      /\ e.type \in GatedTypes \ {"task_posted"} => Accepts(view[Target(e)], e)
  BY CommitView
<1>2. view[Target(e)].posted \/ Unposted(view[Target(e)])
  BY <1>1 DEF PostedFirst
<1>3. Apply(view[Target(e)], e) \in View
  BY <1>1, ApplyType
<1>4. PhaseStep(view[Target(e)], Apply(view[Target(e)], e))
  BY <1>1, <1>2, ApplyMoves
<1>5. QED
  BY <1>1, <1>3, <1>4, PhaseStepIsMove

\* Whatever producers offer, every task revision follows TaskLifecycle, and
\* nothing but the commit of a gated event moves it.
THEOREM BoardImplementsLifecycle == Spec => ImplementsLifecycle
<1>1. Init => Lifecycle!Init
  BY DEF Init, Lifecycle!Init, EmptyView, PhaseOf
<1>2. Init => PostedFirst
  BY DEF Init, PostedFirst, EmptyView, Unposted
<1>3. TypeOK /\ PostedFirst /\ [Next]_vars => [Lifecycle!Next]_(Lifecycle!lifecycle)
  <2>1. ASSUME UNCHANGED vars PROVE UNCHANGED Lifecycle!lifecycle
    BY <2>1 DEF vars, Lifecycle!lifecycle
  <2>2. QED
    BY <2>1, CommitMoves, NextIsCommit
<1>4. QED
  BY <1>1, <1>2, <1>3, TypeCorrect, PostedFirstStep, PTL
     DEF Spec, ImplementsLifecycle, Lifecycle!Spec

-----------------------------------------------------------------------------
(* The strengthening: what the view remembers of the log.                  *)

\* Event f assigned the plan p in epoch ep.
Assigns(f, tr, p, ep) ==
    /\ OfType(f, "task_assigned", tr)
    /\ f.epoch = ep
    /\ p = [id |-> f.plan, epoch |-> f.epoch, asgs |-> f.asgs]

\* Event f reports assignment a of plan p done.
Reports(f, tr, p, a) ==
    /\ OfType(f, "assignment_completed", tr)
    /\ f.epoch = p.epoch /\ f.plan = p.id /\ f.asg = a

\* The plan of a view was assigned at position m, and all that counts as
\* completed was reported after it.
PlanFrom(m, tr) ==
    /\ Assigns(log[m], tr, view[tr].plan, view[tr].epoch)
    /\ \A a \in view[tr].completed : \E k \in Committed :
          k > m /\ Reports(log[k], tr, view[tr].plan, a)

PlanFromLog ==
    \A tr \in TaskRevs : view[tr].plan # None => \E m \in Committed : PlanFrom(m, tr)

\* No plan or replan in the log is ahead of its view.
EpochsBehind == \A n \in Committed, tr \in TaskRevs : EpochBehind(log[n], tr, view[tr])

\* An epoch has one plan.
OnePlanPerEpoch ==
    \A m, n \in Committed, tr \in TaskRevs :
        /\ Is(m, "task_assigned", tr) /\ Is(n, "task_assigned", tr)
        /\ log[m].epoch = log[n].epoch
        => m = n

\* A round belongs to the epoch of the view, which has then begun.
RoundOfEpoch ==
    \A tr \in TaskRevs : view[tr].round # None =>
        view[tr].round.epoch = view[tr].epoch /\ view[tr].epoch # 0

\* A posted view was posted.
PostedFromLog ==
    \A tr \in TaskRevs : view[tr].posted => \E n \in Committed : Is(n, "task_posted", tr)

-----------------------------------------------------------------------------
(* The invariant is preserved.                                             *)

PlanInv ==
    /\ PlanFromLog
    /\ EpochsBehind
    /\ OnePlanPerEpoch
    /\ RoundOfEpoch
    /\ PostedFromLog

\* What a commit does to views, in the words of this module.
LEMMA CommitApplies ==
    ASSUME TypeOK, NEW e \in Offered, Outcome(e) = "APPENDED", Commit(e)
    PROVE  /\ e \in Event
           /\ Target(e) \in TaskRevs
           /\ e.type \notin {"clue", "estop"} => Target(e) = <<e.task, e.rev>>
           /\ Accepted(view[Target(e)], e)
           /\ view'[Target(e)] = Apply(view[Target(e)], e)
           /\ \A tr \in TaskRevs : view[tr] \in View
           /\ \A tr \in TaskRevs \ {Target(e)} : view'[tr] = view[tr]
<1>1. /\ e \in Event /\ Target(e) \in TaskRevs
      /\ view' = [view EXCEPT ![Target(e)] = Apply(view[Target(e)], e)]
      /\ Accepted(view[Target(e)], e)
  BY CommitView DEF Accepted
<1>2. e.type \notin {"clue", "estop"} => Target(e) = <<e.task, e.rev>>
  BY TargetType
<1>3. QED
  BY <1>1, <1>2 DEF TypeOK

\* The log before and after a commit.
LEMMA LogGrows ==
    ASSUME TypeOK, NEW e \in Offered, Commit(e)
    PROVE  /\ Len(log) \in Nat /\ Committed = 1 .. Len(log) /\ Len(log') = Len(log) + 1
           /\ Len(log) + 1 \in Committed' /\ log'[Len(log) + 1] = e
           /\ \A n \in Committed : n \in Committed' /\ log'[n] = log[n]
           /\ \A n \in Committed' : n \in Committed \/ (n = Len(log) + 1 /\ log'[n] = e)
<1>1. Len(log) \in Nat /\ Committed = 1 .. Len(log)
  BY DEF TypeOK, Committed
<1>2. Len(log') = Len(log) + 1
  BY AppendProperties DEF TypeOK, Commit
<1>3. QED
  BY <1>1, <1>2, LogAfterCommit

LEMMA RoundStep ==
    ASSUME TypeOK, RoundOfEpoch, NEW e \in Offered, Outcome(e) = "APPENDED", Commit(e)
    PROVE  RoundOfEpoch'
<1>1. SUFFICES ASSUME NEW tr \in TaskRevs, view'[tr].round # None
               PROVE  view'[tr].round.epoch = view'[tr].epoch /\ view'[tr].epoch # 0
  BY DEF RoundOfEpoch
<1>2. CASE tr # Target(e)
  BY <1>1, <1>2, CommitApplies DEF RoundOfEpoch
<1>3. CASE tr = Target(e)
  <2> DEFINE v == view[tr]
             w == Apply(v, e)
  <2>1. /\ view'[tr] = w /\ v \in View /\ e \in Event /\ Accepted(v, e)
        /\ v.round # None => v.round.epoch = v.epoch /\ v.epoch # 0
    BY <1>3, CommitApplies DEF RoundOfEpoch
  <2>2. CASE e.type = "bid_round_opened"
    <3>1. w.round = [epoch |-> e.epoch, number |-> e.number] /\ e.epoch = w.epoch
      BY <2>1, <2>2, RoundApplies
    <3>2. e.epoch # 0
      BY <2>1, <2>2, RoundShape
    <3>3. QED
      BY <2>1, <3>1, <3>2
  <2>3. CASE e.type \in {"task_assigned", "task_replan"}
    <3>1. e.type = "task_assigned" => w.round = None
      BY <2>1, AssignedApplies
    <3>2. e.type = "task_replan" => w.round = None
      BY <2>1, ReplanApplies
    <3>3. QED
      BY <1>1, <2>1, <2>3, <3>1, <3>2
  <2>4. CASE e.type = "assignment_completed"
    BY <1>1, <2>1, <2>4, CompletedApplies
  <2>5. CASE e.type \notin PlanTypes
    <3>1. w.epoch = v.epoch /\ w.round \in {v.round, None}
      BY <2>1, <2>5, OthersKeepPlan
    <3>2. QED
      BY <1>1, <2>1, <3>1
  <2>6. QED
    BY <2>2, <2>3, <2>4, <2>5 DEF PlanTypes
<1>4. QED
  BY <1>2, <1>3

LEMMA BehindStep ==
    ASSUME TypeOK, RoundOfEpoch, EpochsBehind,
           NEW e \in Offered, Outcome(e) = "APPENDED", Commit(e)
    PROVE  EpochsBehind'
<1>1. SUFFICES ASSUME NEW n \in Committed', NEW tr \in TaskRevs
               PROVE  EpochBehind(log'[n], tr, view'[tr])
  BY DEF EpochsBehind, EpochBehind, OfType
<1>2. CASE n \in Committed /\ tr # Target(e)
  BY <1>2, LogAfterCommit, CommitApplies DEF EpochsBehind
<1>3. CASE n \in Committed /\ tr = Target(e)
  <2>1. log'[n] = log[n] /\ log[n] \in Event
    BY <1>3, LogAfterCommit, CommittedShape
  <2>2. EpochBehind(log[n], tr, view[tr])
    BY <1>3 DEF EpochsBehind
  <2>3. view[tr].round # None => view[tr].round.epoch = view[tr].epoch /\ view[tr].epoch # 0
    BY DEF RoundOfEpoch
  <2>4. QED
    BY <1>3, <2>1, <2>2, <2>3, CommitApplies, BehindStays
<1>4. CASE n \notin Committed
  <2>1. log'[n] = e
    BY <1>4, LogAfterCommit
  <2>2. CASE tr = Target(e)
    BY <2>1, <2>2, CommitApplies, BehindBegins
  <2>3. CASE tr # Target(e)
    BY <2>1, <2>3, CommitApplies DEF EpochBehind, OfType
  <2>4. QED
    BY <2>2, <2>3
<1>5. QED
  BY <1>2, <1>3, <1>4

LEMMA PlanStep ==
    ASSUME TypeOK, RoundOfEpoch, PlanFromLog,
           NEW e \in Offered, Outcome(e) = "APPENDED", Commit(e)
    PROVE  PlanFromLog'
<1> DEFINE version == Len(log) + 1
<1>0. /\ \A n \in Committed : n \in Committed' /\ log'[n] = log[n]
      /\ version \in Committed' /\ log'[version] = e
      /\ \A n \in Committed : n \in Nat /\ version > n
  BY LogGrows
<1>1. SUFFICES ASSUME NEW tr \in TaskRevs, view'[tr].plan # None
               PROVE  \E m \in Committed' :
                         /\ Assigns(log'[m], tr, view'[tr].plan, view'[tr].epoch)
                         /\ \A a \in view'[tr].completed : \E k \in Committed' :
                               k > m /\ Reports(log'[k], tr, view'[tr].plan, a)
  BY DEF PlanFromLog, PlanFrom, Assigns, Reports, OfType
<1> DEFINE v == view[tr]
           w == view'[tr]
<1>2. ASSUME w.plan = v.plan, w.epoch = v.epoch,
             \A a \in w.completed : a \in v.completed \/ Reports(e, tr, v.plan, a)
      PROVE  \E m \in Committed' :
                 /\ Assigns(log'[m], tr, w.plan, w.epoch)
                 /\ \A a \in w.completed : \E k \in Committed' :
                       k > m /\ Reports(log'[k], tr, w.plan, a)
  <2>1. PICK m \in Committed : PlanFrom(m, tr)
    BY <1>1, <1>2 DEF PlanFromLog
  <2>2. m \in Committed' /\ Assigns(log'[m], tr, w.plan, w.epoch)
    BY <1>0, <1>2, <2>1 DEF PlanFrom
  <2>3. ASSUME NEW a \in w.completed
        PROVE  \E k \in Committed' : k > m /\ Reports(log'[k], tr, w.plan, a)
    <3>1. CASE a \in v.completed
      <4>1. PICK k \in Committed : k > m /\ Reports(log[k], tr, v.plan, a)
        BY <2>1, <3>1 DEF PlanFrom
      <4>2. k \in Committed' /\ k > m /\ Reports(log'[k], tr, w.plan, a)
        BY <1>0, <1>2, <4>1
      <4>3. QED
        BY <4>2
    <3>2. CASE Reports(e, tr, v.plan, a)
      BY <1>0, <1>2, <3>2
    <3>3. QED
      BY <1>2, <3>1, <3>2
  <2>4. QED
    BY <2>2, <2>3
<1>3. CASE tr # Target(e)
  <2>1. w = v
    BY <1>3, CommitApplies
  <2>2. QED
    BY <1>2, <2>1
<1>4. CASE tr = Target(e)
  <2>1. /\ w = Apply(v, e) /\ v \in View /\ e \in Event /\ Accepted(v, e)
        /\ v.round # None => v.round.epoch = v.epoch /\ v.epoch # 0
        /\ e.type \notin {"clue", "estop"} => <<e.task, e.rev>> = tr
    BY <1>4, CommitApplies DEF RoundOfEpoch
  <2>2. CASE e.type = "task_assigned"
    <3>1. /\ v.epoch = e.epoch /\ w.epoch = v.epoch /\ w.completed = {}
          /\ w.plan = [id |-> e.plan, epoch |-> e.epoch, asgs |-> e.asgs]
      BY <2>1, <2>2, AssignedApplies
    <3>2. Assigns(e, tr, w.plan, w.epoch)
      BY <2>1, <2>2, <3>1 DEF Assigns, OfType
    <3>3. QED
      BY <1>0, <3>1, <3>2
  <2>3. CASE e.type \in {"task_replan", "bid_round_opened"}
    <3>1. e.type = "task_replan" => w.plan = None
      BY <2>1, ReplanApplies
    <3>2. ASSUME e.type = "bid_round_opened" PROVE w.plan = None
      <4>1. Apply(v, e).plan = None
        BY <2>1, <3>2, RoundApplies
      <4>2. QED
        BY <2>1, <4>1
    <3>3. QED
      BY <1>1, <2>3, <3>1, <3>2
  <2>4. CASE e.type = "assignment_completed"
    <3>1. /\ w.plan = v.plan /\ w.epoch = v.epoch
          /\ \A a \in w.completed : a \in v.completed \/
                (a = e.asg /\ e.plan = v.plan.id /\ e.epoch = v.plan.epoch)
      BY <2>1, <2>4, CompletedApplies
    <3>2. OfType(e, "assignment_completed", tr)
      BY <2>1, <2>4 DEF OfType
    <3>3. \A a \in w.completed : a \in v.completed \/ Reports(e, tr, v.plan, a)
      BY <3>1, <3>2 DEF Reports
    <3>4. QED
      BY <1>2, <3>1, <3>3
  <2>5. CASE e.type \notin PlanTypes
    <3>1. w.plan = v.plan /\ w.epoch = v.epoch /\ w.completed = v.completed
      BY <2>1, <2>5, OthersKeepPlan
    <3>2. QED
      BY <1>2, <3>1
  <2>6. QED
    BY <2>2, <2>3, <2>4, <2>5 DEF PlanTypes
<1>5. QED
  BY <1>3, <1>4

\* A committed plan is not of the epoch an accepted one opens.
LEMMA NewPlanDiffers ==
    ASSUME TypeOK, EpochsBehind, NEW e \in Offered, Outcome(e) = "APPENDED", Commit(e),
           e.type = "task_assigned", NEW m \in Committed, Is(m, "task_assigned", Target(e))
    PROVE  log[m].epoch # e.epoch
<1>1. view[Target(e)].plan = None /\ view[Target(e)].epoch = e.epoch /\ Target(e) \in TaskRevs
  BY CommitApplies, AssignedApplies
<1>2. e.epoch \in Nat /\ log[m].epoch \in Nat
  BY CommitApplies, CommittedShape, AssignedShape DEF Is
<1>3. EpochBehind(log[m], Target(e), view[Target(e)])
  BY <1>1 DEF EpochsBehind
<1>4. log[m].epoch < e.epoch
  BY <1>1, <1>3 DEF EpochBehind, OfType, Is
<1>5. QED
  BY <1>2, <1>4

LEMMA OnePlanStep ==
    ASSUME TypeOK, EpochsBehind, OnePlanPerEpoch,
           NEW e \in Offered, Outcome(e) = "APPENDED", Commit(e)
    PROVE  OnePlanPerEpoch'
<1>0. /\ \A n \in Committed : n \in Committed' /\ log'[n] = log[n]
      /\ \A n \in Committed' : n \in Committed \/ (n = Len(log) + 1 /\ log'[n] = e)
      /\ e.type = "task_assigned" => Target(e) = <<e.task, e.rev>>
  BY LogGrows, CommitApplies
<1>1. SUFFICES ASSUME NEW m \in Committed', NEW n \in Committed', NEW tr \in TaskRevs,
                      OfType(log'[m], "task_assigned", tr),
                      OfType(log'[n], "task_assigned", tr),
                      log'[m].epoch = log'[n].epoch
               PROVE  m = n
  BY DEF OnePlanPerEpoch, Is, OfType
<1>2. CASE m \in Committed /\ n \in Committed
  BY <1>0, <1>1, <1>2 DEF OnePlanPerEpoch, Is, OfType
<1>3. CASE m \in Committed /\ n \notin Committed
  <2>1. log'[m] = log[m] /\ log'[n] = e
    BY <1>0, <1>3
  <2>2. e.type = "task_assigned" /\ Is(m, "task_assigned", Target(e))
    BY <1>0, <1>1, <2>1 DEF Is, OfType
  <2>3. QED
    BY <1>1, <1>3, <2>1, <2>2, NewPlanDiffers
<1>4. CASE m \notin Committed /\ n \in Committed
  <2>1. log'[n] = log[n] /\ log'[m] = e
    BY <1>0, <1>4
  <2>2. e.type = "task_assigned" /\ Is(n, "task_assigned", Target(e))
    BY <1>0, <1>1, <2>1 DEF Is, OfType
  <2>3. QED
    BY <1>1, <1>4, <2>1, <2>2, NewPlanDiffers
<1>5. CASE m \notin Committed /\ n \notin Committed
  BY <1>0, <1>5
<1>6. QED
  BY <1>2, <1>3, <1>4, <1>5

LEMMA PostedStep ==
    ASSUME TypeOK, PostedFromLog, NEW e \in Offered, Outcome(e) = "APPENDED", Commit(e)
    PROVE  PostedFromLog'
<1>1. SUFFICES ASSUME NEW tr \in TaskRevs, view'[tr].posted
               PROVE  \E n \in Committed' : OfType(log'[n], "task_posted", tr)
  BY DEF PostedFromLog, Is, OfType
<1>2. CASE view[tr].posted
  BY <1>2, LogGrows DEF PostedFromLog, Is, OfType
<1>3. CASE ~view[tr].posted
  <2>1. tr = Target(e) /\ view'[tr] = Apply(view[tr], e) /\ view[tr] \in View /\ e \in Event
    BY <1>1, <1>3, CommitApplies
  <2>2. e.type = "task_posted"
    <3>1. CASE e.type \in GatedTypes \ {"task_posted"}
      BY <1>3, <2>1, <3>1, CommitApplies, AcceptedGated DEF Accepted
    <3>2. CASE e.type \notin GatedTypes
      BY <1>1, <1>3, <2>1, <3>2, FactsKeepPhase
    <3>3. QED
      BY <3>1, <3>2
  <2>3. OfType(e, "task_posted", tr)
    BY <2>1, <2>2, CommitApplies DEF OfType
  <2>4. QED
    BY <2>3, LogGrows
<1>4. QED
  BY <1>2, <1>3

LEMMA PlanInvStep == TypeOK /\ PlanInv /\ [Next]_vars => PlanInv'
<1>1. ASSUME PlanInv, UNCHANGED vars PROVE PlanInv'
  BY <1>1 DEF PlanInv, PlanFromLog, PlanFrom, EpochsBehind, OnePlanPerEpoch, RoundOfEpoch,
     PostedFromLog, vars, Committed, EpochBehind, Assigns, Reports, OfType, Is
<1>2. ASSUME TypeOK, PlanInv, NEW e \in Offered, Outcome(e) = "APPENDED", Commit(e)
      PROVE  PlanInv'
  BY <1>2, PlanStep, BehindStep, OnePlanStep, RoundStep,
     PostedStep DEF PlanInv
<1>3. QED
  BY <1>1, <1>2, NextIsCommit

LEMMA PlanInvInit == Init => PlanInv
  BY DEF Init, PlanInv, PlanFromLog, EpochsBehind, OnePlanPerEpoch, RoundOfEpoch,
     PostedFromLog, EmptyView, Committed

\* The invariants the following proofs start from.
BoardInv == TypeOK /\ IndexesCoverLog /\ TerminalOwnership /\ PostedFirst /\ PlanInv

LEMMA BoardInvHolds == Spec => []BoardInv
<1>1. Init => IndexesCoverLog /\ TerminalOwnership /\ PostedFirst
  BY DEF Init, IndexesCoverLog, Committed, TerminalOwnership, PostedFirst, EmptyView, Unposted
<1>2. QED
  BY <1>1, InitType, NextType, IndexesStep, OwnershipStep, PostedFirstStep, PlanInvInit,
     PlanInvStep, PTL DEF Spec, BoardInv

-----------------------------------------------------------------------------
(* Intents and terminals.                                                  *)

\* The task of an open view has no terminal in the log.
LEMMA OpenHasNoTerminal ==
    ASSUME TypeOK, IndexesCoverLog, TerminalOwnership, NEW tr \in TaskRevs,
           view[tr].terminal = None, NEW k \in Committed
    PROVE  ~\E ty \in TerminalTypes : Is(k, ty, tr)
<1>1. SUFFICES ASSUME log[k].type \in TerminalTypes, <<log[k].task, log[k].rev>> = tr
               PROVE  FALSE
  BY DEF Is
<1>2. byTerminal[tr] = k
  BY <1>1 DEF IndexesCoverLog, IsTerminal
<1>3. k # 0
  BY CommittedShape
<1>4. QED
  BY <1>2, <1>3 DEF TerminalOwnership

\* What the log holds at the moment an intent is committed.
LEMMA IntentFacts ==
    ASSUME BoardInv, NEW e \in Offered, Outcome(e) = "APPENDED", Commit(e),
           e.type = "action_intent"
    PROVE  /\ \E m \in Committed :
                 /\ Is(m, "task_assigned", Target(e))
                 /\ log[m].epoch = e.epoch /\ log[m].plan = e.plan /\ e.asg \in log[m].asgs
           /\ \A k \in Committed :
                 /\ Is(k, "task_replan", Target(e)) => log[k].from < e.epoch
                 /\ ~(\E ty \in TerminalTypes : Is(k, ty, Target(e)))
<1> USE DEF BoardInv, PlanInv
<1> DEFINE tr == Target(e)
           v == view[tr]
<1>1. tr \in TaskRevs /\ v \in View /\ Accepts(v, e)
  BY CommitApplies DEF Accepted, GatedTypes
<1>2. AcceptsIntent(v, e) /\ v.terminal = None
  BY <1>1 DEF Accepts, GatedTypes
<1>3. PICK m \in Committed : PlanFrom(m, tr)
  BY <1>1, <1>2 DEF PlanFromLog, AcceptsIntent
<1>4. /\ Is(m, "task_assigned", tr)
      /\ log[m].epoch = v.epoch
      /\ v.plan = [id |-> log[m].plan, epoch |-> log[m].epoch, asgs |-> log[m].asgs]
  BY <1>3 DEF PlanFrom, Assigns, OfType, Is
<1>5. log[m].epoch = e.epoch /\ log[m].plan = e.plan /\ e.asg \in log[m].asgs
  BY <1>2, <1>4 DEF AcceptsIntent
<1>6. ASSUME NEW k \in Committed
      PROVE  /\ Is(k, "task_replan", tr) => log[k].from < e.epoch
             /\ ~(\E ty \in TerminalTypes : Is(k, ty, tr))
  <2>1. EpochBehind(log[k], tr, v)
    BY <1>1 DEF EpochsBehind
  <2>2. Is(k, "task_replan", tr) => log[k].from < v.epoch
    BY <2>1 DEF EpochBehind, OfType, Is
  <2>3. QED
    BY <1>1, <1>2, <2>2, OpenHasNoTerminal DEF AcceptsIntent
<1>7. QED
  BY <1>4, <1>5, <1>6

\* Every intent up to here was committed under its plan.
LEMMA IntentsStep ==
    ASSUME BoardInv, IntentsUnderCurrentPlan,
           NEW e \in Offered, Outcome(e) = "APPENDED", Commit(e)
    PROVE  IntentsUnderCurrentPlan'
<1> DEFINE version == Len(log) + 1
<1>0. /\ Len(log) \in Nat /\ Committed = 1 .. Len(log)
      /\ \A n \in Committed : n \in Committed' /\ log'[n] = log[n]
      /\ \A n \in Committed' : n \in Committed \/ (n = version /\ log'[n] = e)
      /\ e.type \notin {"clue", "estop"} => Target(e) = <<e.task, e.rev>>
  BY LogGrows, CommitApplies DEF BoardInv
<1> DEFINE Under(n, m, tr) ==
              /\ OfType(log'[m], "task_assigned", tr)
              /\ log'[m].epoch = log'[n].epoch
              /\ log'[m].plan = log'[n].plan
              /\ log'[n].asg \in log'[m].asgs
              /\ \A k \in Committed' \ {m} :
                   OfType(log'[k], "task_assigned", tr) => log'[k].epoch # log'[n].epoch
           Fresh(n, tr) ==
              \A k \in 1 .. n - 1 :
                 /\ OfType(log'[k], "task_replan", tr) => log'[k].from < log'[n].epoch
                 /\ ~(\E ty \in TerminalTypes : OfType(log'[k], ty, tr))
           Name(n) == <<log'[n].task, log'[n].rev>>
<1>1. SUFFICES ASSUME NEW n \in Committed', log'[n].type = "action_intent"
               PROVE  (\E m \in 1 .. n - 1 : Under(n, m, Name(n))) /\ Fresh(n, Name(n))
  BY Zenon DEF IntentsUnderCurrentPlan, Is, OfType
<1> DEFINE tr == Name(n)
<1>2. CASE n \in Committed
  <2>1. /\ log'[n] = log[n]
        /\ \A k \in 1 .. n - 1 : k \in Committed /\ log'[k] = log[k]
    BY <1>0, <1>2
  <2>2. PICK m \in 1 .. n - 1 :
          /\ Is(m, "task_assigned", tr)
          /\ log[m].epoch = log[n].epoch
          /\ log[m].plan = log[n].plan
          /\ log[n].asg \in log[m].asgs
          /\ \A k \in Committed \ {m} :
               Is(k, "task_assigned", tr) => log[k].epoch # log[n].epoch
    BY <1>1, <1>2, <2>1 DEF IntentsUnderCurrentPlan
  <2>3. ASSUME NEW k \in Committed' \ {m}, OfType(log'[k], "task_assigned", tr)
        PROVE  log'[k].epoch # log'[n].epoch
    <3>1. CASE k \in Committed
      BY <1>0, <2>1, <2>2, <2>3, <3>1 DEF Is, OfType
    <3>2. CASE k \notin Committed
      <4>1. log'[k] = e /\ e.type = "task_assigned" /\ tr = Target(e) /\ m \in Committed
        BY <1>0, <2>1, <2>3, <3>2 DEF OfType
      <4>2. log[m].epoch # e.epoch
        BY <2>2, <4>1, NewPlanDiffers DEF BoardInv, PlanInv
      <4>3. QED
        BY <2>1, <2>2, <4>1, <4>2
    <3>3. QED
      BY <3>1, <3>2
  <2>4. Under(n, m, tr)
    BY <2>1, <2>2, <2>3 DEF Is, OfType
  <2>5. Fresh(n, tr)
    BY <1>1, <1>2, <2>1 DEF IntentsUnderCurrentPlan, Is, OfType
  <2>6. QED
    BY <2>4, <2>5
<1>3. CASE n \notin Committed
  <2>1. n = version /\ log'[n] = e /\ e.type = "action_intent" /\ tr = Target(e)
    BY <1>0, <1>1, <1>3
  <2>2. /\ n - 1 = Len(log)
        /\ \A k \in 1 .. n - 1 : k \in Committed /\ log'[k] = log[k]
    BY <1>0, <2>1
  <2>3. PICK m \in Committed :
          /\ Is(m, "task_assigned", tr)
          /\ log[m].epoch = e.epoch /\ log[m].plan = e.plan /\ e.asg \in log[m].asgs
    BY <2>1, IntentFacts
  <2>4. ASSUME NEW k \in Committed' \ {m}, OfType(log'[k], "task_assigned", tr)
        PROVE  log'[k].epoch # log'[n].epoch
    <3>1. k \in Committed /\ log'[k] = log[k] /\ Is(k, "task_assigned", tr)
      BY <1>0, <2>1, <2>4 DEF OfType, Is
    <3>2. tr \in TaskRevs
      BY <2>1, CommitApplies DEF BoardInv
    <3>3. log[k].epoch # log[m].epoch
      BY <2>3, <2>4, <3>1, <3>2 DEF BoardInv, PlanInv, OnePlanPerEpoch
    <3>4. QED
      BY <2>1, <2>3, <3>1, <3>3
  <2>5. Under(n, m, tr)
    BY <1>0, <2>1, <2>2, <2>3, <2>4 DEF Is, OfType
  <2>6. Fresh(n, tr)
    BY <2>1, <2>2, IntentFacts DEF Is, OfType
  <2>7. m \in 1 .. n - 1
    BY <1>0, <2>2
  <2>8. QED
    BY <2>5, <2>6, <2>7
<1>4. QED
  BY <1>2, <1>3

LEMMA IntentsKept ==
    BoardInv /\ IntentsUnderCurrentPlan /\ [Next]_vars => IntentsUnderCurrentPlan'
<1>1. ASSUME IntentsUnderCurrentPlan, UNCHANGED vars PROVE IntentsUnderCurrentPlan'
  BY <1>1 DEF IntentsUnderCurrentPlan, Is, vars, Committed
<1>2. QED
  BY <1>1, IntentsStep, NextIsCommit

\* An action is only ever announced under the plan that is current: whatever
\* stale robots offer, the one TASK_ASSIGNED of its epoch names its plan and
\* assignment, and no replan of that epoch and no terminal comes between.
THEOREM IntentsHaveTheirPlan == Spec => []IntentsUnderCurrentPlan
<1>1. Init => IntentsUnderCurrentPlan
  BY DEF Init, IntentsUnderCurrentPlan, Committed
<1>2. QED
  BY <1>1, BoardInvHolds, IntentsKept, PTL DEF Spec

\* What the log holds at the moment a task is committed as done.
LEMMA DoneFacts ==
    ASSUME BoardInv, NEW e \in Offered, Outcome(e) = "APPENDED", Commit(e),
           e.type = "task_done"
    PROVE  \E m \in Committed :
              /\ Is(m, "task_assigned", Target(e))
              /\ log[m].epoch = e.epoch /\ log[m].plan = e.plan
              /\ \A a \in log[m].asgs : \E k \in Committed :
                    /\ k > m /\ Is(k, "assignment_completed", Target(e))
                    /\ log[k].epoch = e.epoch /\ log[k].plan = e.plan /\ log[k].asg = a
<1> USE DEF BoardInv, PlanInv
<1> DEFINE tr == Target(e)
           v == view[tr]
<1>1. tr \in TaskRevs /\ v \in View /\ Accepts(v, e)
  BY CommitApplies DEF Accepted, GatedTypes, TerminalTypes
<1>2. AcceptsDone(v, e)
  BY <1>1 DEF Accepts, GatedTypes, TerminalTypes
<1>3. PICK m \in Committed : PlanFrom(m, tr)
  BY <1>1, <1>2 DEF PlanFromLog, AcceptsDone
<1>4. /\ Is(m, "task_assigned", tr)
      /\ log[m].epoch = v.epoch
      /\ v.plan = [id |-> log[m].plan, epoch |-> log[m].epoch, asgs |-> log[m].asgs]
  BY <1>3 DEF PlanFrom, Assigns, OfType, Is
<1>5. log[m].epoch = e.epoch /\ log[m].plan = e.plan /\ log[m].asgs \subseteq v.completed
  BY <1>2, <1>4 DEF AcceptsDone
<1>6. ASSUME NEW a \in log[m].asgs
      PROVE  \E k \in Committed :
                /\ k > m /\ Is(k, "assignment_completed", tr)
                /\ log[k].epoch = e.epoch /\ log[k].plan = e.plan /\ log[k].asg = a
  <2>1. PICK k \in Committed : k > m /\ Reports(log[k], tr, v.plan, a)
    BY <1>3, <1>5, <1>6 DEF PlanFrom
  <2>2. QED
    BY <1>4, <1>5, <2>1 DEF Reports, OfType, Is
<1>7. QED
  BY <1>4, <1>5, <1>6

LEMMA DoneStep ==
    ASSUME BoardInv, DoneIsEarned, NEW e \in Offered, Outcome(e) = "APPENDED", Commit(e)
    PROVE  DoneIsEarned'
<1> DEFINE version == Len(log) + 1
           Reported(k, n, tr, a) ==
              /\ OfType(log'[k], "assignment_completed", tr)
              /\ log'[k].epoch = log'[n].epoch
              /\ log'[k].plan = log'[n].plan
              /\ log'[k].asg = a
           Earned(n, m, tr) ==
              /\ OfType(log'[m], "task_assigned", tr)
              /\ log'[m].epoch = log'[n].epoch
              /\ log'[m].plan = log'[n].plan
              /\ \A a \in log'[m].asgs : \E k \in m + 1 .. n - 1 : Reported(k, n, tr, a)
<1>0. /\ Len(log) \in Nat /\ Committed = 1 .. Len(log)
      /\ \A n \in Committed : n \in Committed' /\ log'[n] = log[n]
      /\ \A n \in Committed' : n \in Committed \/ (n = version /\ log'[n] = e)
      /\ e.type = "task_done" => Target(e) = <<e.task, e.rev>>
  BY LogGrows, CommitApplies DEF BoardInv
<1>1. SUFFICES ASSUME NEW tr \in TaskRevs, NEW n \in Committed',
                      OfType(log'[n], "task_done", tr)
               PROVE  \E m \in 1 .. n - 1 : Earned(n, m, tr)
  BY Zenon DEF DoneIsEarned, Is, OfType
<1>2. CASE n \in Committed
  <2>1. log'[n] = log[n]
    BY <1>0, <1>2
  <2>2. PICK m \in 1 .. n - 1 :
          /\ Is(m, "task_assigned", tr)
          /\ log[m].epoch = log[n].epoch
          /\ log[m].plan = log[n].plan
          /\ \A a \in log[m].asgs : \E k \in m + 1 .. n - 1 :
                /\ Is(k, "assignment_completed", tr)
                /\ log[k].epoch = log[n].epoch
                /\ log[k].plan = log[n].plan
                /\ log[k].asg = a
    BY <1>1, <1>2, <2>1 DEF DoneIsEarned, Is, OfType
  <2>3. log'[m] = log[m] /\ \A k \in m + 1 .. n - 1 : log'[k] = log[k]
    BY <1>0, <1>2, <2>2
  <2>4. \A a \in log'[m].asgs : \E k \in m + 1 .. n - 1 : Reported(k, n, tr, a)
    BY <2>1, <2>2, <2>3 DEF Is, OfType
  <2>5. Earned(n, m, tr)
    BY <2>1, <2>2, <2>3, <2>4 DEF Is, OfType
  <2>6. QED
    BY <2>5
<1>3. CASE n \notin Committed
  <2>1. n = version /\ log'[n] = e /\ e.type = "task_done" /\ tr = Target(e)
    BY <1>0, <1>1, <1>3 DEF OfType
  <2>2. PICK m \in Committed :
          /\ Is(m, "task_assigned", tr)
          /\ log[m].epoch = e.epoch /\ log[m].plan = e.plan
          /\ \A a \in log[m].asgs : \E k \in Committed :
                /\ k > m /\ Is(k, "assignment_completed", tr)
                /\ log[k].epoch = e.epoch /\ log[k].plan = e.plan /\ log[k].asg = a
    BY <2>1, DoneFacts
  <2>3. m \in 1 .. n - 1 /\ log'[m] = log[m]
    BY <1>0, <2>1
  <2>4. ASSUME NEW a \in log'[m].asgs
        PROVE  \E k \in m + 1 .. n - 1 : Reported(k, n, tr, a)
    <3>1. PICK k \in Committed :
             /\ k > m /\ Is(k, "assignment_completed", tr)
             /\ log[k].epoch = e.epoch /\ log[k].plan = e.plan /\ log[k].asg = a
      BY <2>2, <2>3, <2>4
    <3>2. k \in m + 1 .. n - 1 /\ log'[k] = log[k]
      BY <1>0, <2>1, <2>3, <3>1
    <3>3. Reported(k, n, tr, a)
      BY <2>1, <3>1, <3>2 DEF Is, OfType
    <3>4. QED
      BY <3>2, <3>3
  <2>5. Earned(n, m, tr)
    BY <2>1, <2>2, <2>3, <2>4 DEF Is, OfType
  <2>6. QED
    BY <2>3, <2>5
<1>4. QED
  BY <1>2, <1>3

LEMMA DoneKept == BoardInv /\ DoneIsEarned /\ [Next]_vars => DoneIsEarned'
<1>1. ASSUME DoneIsEarned, UNCHANGED vars PROVE DoneIsEarned'
  BY <1>1 DEF DoneIsEarned, Is, vars, Committed
<1>2. QED
  BY <1>1, DoneStep, NextIsCommit

\* No task is done by the work of a replaced plan: each assignment of the plan
\* a TASK_DONE names was reported under that plan and epoch, after it was made.
THEOREM DoneIsEarnedAlways == Spec => []DoneIsEarned
<1>1. Init => DoneIsEarned
  BY DEF Init, DoneIsEarned, Is, Committed
<1>2. QED
  BY <1>1, BoardInvHolds, DoneKept, PTL DEF Spec

-----------------------------------------------------------------------------
(* The gate and the fold agree.                                            *)

LEMMA PostTakesEffect ==
    ASSUME BoardInv, NEW e \in Offered, GateAccepts(e), e.type = "task_posted"
    PROVE  Apply(view[Target(e)], e).posted /\ ~view[Target(e)].posted
<1> DEFINE v == view[Target(e)]
<1>1. /\ Target(e) = <<e.task, e.rev>> /\ Target(e) \in TaskRevs /\ v \in View
  BY TargetType DEF BoardInv, TypeOK
<1>2. ~v.posted
  <2>1. ~\E n \in Committed : Is(n, "task_posted", Target(e))
    BY <1>1, EventShape, OfferedAssumption DEF GateAccepts, AlreadyPosted, Is
  <2>2. QED
    BY <1>1, <2>1 DEF BoardInv, PlanInv, PostedFromLog
<1>3. v.terminal = None
  BY <1>1, <1>2 DEF BoardInv, PostedFirst, Unposted
<1>4. Apply(v, e) = [v EXCEPT !.posted = TRUE, !.status = "posted"]
  BY <1>2, <1>3 DEF Apply, ApplyPosted, TerminalTypes
<1>5. Apply(v, e).posted
  BY <1>1, <1>4 DEF View
<1>6. QED
  BY <1>2, <1>5

LEMMA IntentTakesEffect ==
    ASSUME NEW v \in View, NEW e \in Event, e.type = "action_intent", Accepted(v, e)
    PROVE  Apply(v, e).status = "running"
<1>1. Accepts(v, e)
  BY DEF Accepted, GatedTypes
<1>2. v.terminal = None /\ AcceptsIntent(v, e)
  BY <1>1 DEF Accepts, GatedTypes
<1>3. Apply(v, e) = [v EXCEPT !.status = "running"]
  BY <1>2 DEF Apply, ApplyIntent, AcceptsIntent, TerminalTypes
<1>4. QED
  BY <1>3 DEF View

LEMMA CommitTakesEffect ==
    ASSUME BoardInv, NEW e \in Offered, Outcome(e) = "APPENDED", Commit(e),
           e.type \in GatedTypes
    PROVE  TookEffect(e, view[Target(e)], view'[Target(e)])
<1> DEFINE v == view[Target(e)]
           w == view'[Target(e)]
<1>1. /\ w = Apply(v, e) /\ v \in View /\ e \in Event /\ Accepted(v, e)
      /\ v.round # None => v.round.epoch = v.epoch /\ v.epoch # 0
  BY CommitApplies DEF BoardInv, PlanInv, RoundOfEpoch
<1>2. CASE e.type = "task_posted"
  <2>1. GateAccepts(e)
    BY AppendedFacts DEF BoardInv
  <2>2. w.posted /\ ~v.posted
    BY <1>1, <1>2, <2>1, PostTakesEffect
  <2>3. QED
    BY <1>2, <2>2 DEF TookEffect
<1>3. CASE e.type = "bid_round_opened"
  <2>1. w.round = [epoch |-> e.epoch, number |-> e.number] /\ w # v
    BY <1>1, <1>3, RoundApplies
  <2>2. QED
    BY <1>3, <2>1 DEF TookEffect
<1>4. CASE e.type = "task_assigned"
  <2>1. v.plan = None /\ Apply(v, e).plan # None
    BY <1>1, <1>4, AssignedApplies
  <2>2. w.plan # None /\ w.plan # v.plan
    BY <1>1, <2>1
  <2>3. QED
    BY <1>4, <2>2 DEF TookEffect
<1>5. CASE e.type = "action_intent"
  <2>1. w.status = "running"
    BY <1>1, <1>5, IntentTakesEffect
  <2>2. QED
    BY <1>5, <2>1 DEF TookEffect
<1>6. CASE e.type = "task_replan"
  <2>1. w.epoch = v.epoch + 1 /\ e.cause \notin w.pending
    BY <1>1, <1>6, ReplanApplies
  <2>2. QED
    BY <1>6, <2>1 DEF TookEffect
<1>7. CASE e.type \in TerminalTypes
  <2>1. IsTerminal(e) /\ Accepts(v, e)
    BY <1>1, <1>7 DEF IsTerminal, Accepted, GatedTypes, TerminalTypes
  <2>2. v.terminal = None /\ w.terminal = e.id
    BY <1>1, <2>1, AcceptedTerminal DEF IsTerminal
  <2>3. QED
    BY <1>7, <2>2 DEF TookEffect, TerminalTypes
<1>8. QED
  BY <1>2, <1>3, <1>4, <1>5, <1>6, <1>7 DEF GatedTypes

LEMMA StepTakesEffect ==
    ASSUME BoardInv, [Next]_vars, NEW e \in Offered, log' = Append(log, e),
           e.type \in GatedTypes
    PROVE  TookEffect(e, view[Target(e)], view'[Target(e)])
<1>1. log \in Seq(Offered)
  BY DEF BoardInv, TypeOK
<1>2. log' # log
  BY <1>1
<1>3. PICK f \in Offered : Outcome(f) = "APPENDED" /\ Commit(f)
  BY <1>2, NextIsCommit DEF vars
<1>4. f = e
  <2>1. log' = Append(log, f)
    BY <1>3 DEF Commit
  <2>2. Append(log, e)[Len(log) + 1] = e /\ Append(log, f)[Len(log) + 1] = f
    BY <1>1, AppendProperties
  <2>3. QED
    BY <2>1, <2>2
<1>5. QED
  BY <1>3, <1>4, CommitTakesEffect

\* Gate and fold, written apart, agree: a gated event that is committed always
\* has its effect on the view, so none holds an index without having happened.
THEOREM GateAgreesWithFold == Spec => CommittedTakesEffect
<1> DEFINE Effect == \A e \in Offered :
              log' = Append(log, e) /\ e.type \in GatedTypes
                => TookEffect(e, view[Target(e)], view'[Target(e)])
<1>1. BoardInv /\ [Next]_vars => [Effect]_vars
  BY StepTakesEffect
<1>2. QED
  BY <1>1, BoardInvHolds, PTL DEF Spec, CommittedTakesEffect

-----------------------------------------------------------------------------
(* The strengthening.                                                      *)

PostedRevs(t) ==
    {1} \cup {log[m].rev : m \in
        {k \in Committed : log[k].type = "task_posted" /\ log[k].task = t}}

\* The accumulator holds the newest revision posted.
LatestIsNewest ==
    \A t \in Tasks : latest[t] \in PostedRevs(t) /\ \A r \in PostedRevs(t) : r <= latest[t]

\* A clue counts for a task revision there is.
CluesKnown ==
    \A n \in Committed : log[n].type = "clue" => TargetAt(n) \in TaskRevs

Logged(id) == \E k \in Committed : log[k].id = id

\* What is pending or was consumed is the id of a committed event, so a new
\* clue never has it; and what a replan consumed is no longer pending.
EvidenceLogged ==
    \A tr \in TaskRevs :
        /\ \A id \in view[tr].pending : Logged(id)
        /\ \A m \in Committed : Is(m, "task_replan", tr) =>
              \A id \in Consumed(m) : Logged(id) /\ id \notin view[tr].pending

\* The two halves of ClueConsumedOnce.
Taken(id, m, tr) ==
    \/ Is(m, "task_replan", tr) /\ id \in Consumed(m)
    \/ Is(m, "task_assigned", tr) /\ id \in log[m].refs

NoneForgotten ==
    \A n \in Committed : log[n].type = "clue" =>
        \/ view[TargetAt(n)].terminal # None
        \/ log[n].id \in view[TargetAt(n)].pending
        \/ \E m \in n + 1 .. Len(log) : Taken(log[n].id, m, TargetAt(n))

NoneTwice ==
    \A tr \in TaskRevs : \A m, n \in Committed :
        /\ Is(m, "task_replan", tr)
        /\ Is(n, "task_replan", tr)
        /\ m # n
        => Consumed(m) \cap Consumed(n) = {}

LEMMA ClueHalves == NoneForgotten /\ NoneTwice <=> ClueConsumedOnce
  BY DEF NoneForgotten, NoneTwice, ClueConsumedOnce, Taken

-----------------------------------------------------------------------------
(* The revision a clue counts for.                                         *)

LEMMA MaxIs ==
    ASSUME NEW S, S \subseteq Nat, NEW x \in S, \A y \in S : y <= x
    PROVE  Max(S) = x
<1>1. \A z \in S : z >= x => z = x
  <2>1. SUFFICES ASSUME NEW z \in S, z >= x PROVE z = x
    OBVIOUS
  <2>2. z \in Nat /\ x \in Nat /\ z <= x
    OBVIOUS
  <2>3. QED
    BY <2>1, <2>2
<1>2. \E z \in S : \A y \in S : z >= y
  <2>1. \A y \in S : x >= y
    OBVIOUS
  <2>2. QED
    BY <2>1
<1>3. Max(S) \in S /\ \A y \in S : Max(S) >= y
  BY <1>2 DEF Max
<1>4. QED
  BY <1>1, <1>3

LEMMA LatestStep ==
    ASSUME TypeOK, LatestIsNewest, NEW e \in Offered, Commit(e)
    PROVE  LatestIsNewest'
<1>0. /\ \A n \in Committed : n \in Committed' /\ log'[n] = log[n]
      /\ \A n \in Committed' : n \in Committed \/ (n = Len(log) + 1 /\ log'[n] = e)
      /\ Len(log) + 1 \in Committed' /\ log'[Len(log) + 1] = e
  BY LogGrows
<1>1. latest' = LatestAfter(e) /\ latest \in [Tasks -> Revs]
  BY DEF Commit, TypeOK
<1>2. e.task \in Tasks /\ (e.type = "task_posted" => e.rev \in Revs)
  BY EventShape, OfferedAssumption
<1>3. SUFFICES ASSUME NEW t \in Tasks
               PROVE  latest'[t] \in PostedRevs(t)' /\ \A r \in PostedRevs(t)' : r <= latest'[t]
  BY DEF LatestIsNewest
<1>4. PostedRevs(t)' = IF e.type = "task_posted" /\ e.task = t
                       THEN PostedRevs(t) \cup {e.rev} ELSE PostedRevs(t)
  BY <1>0 DEF PostedRevs
<1>5. latest[t] \in PostedRevs(t) /\ \A r \in PostedRevs(t) : r <= latest[t]
  BY DEF LatestIsNewest
<1>6. PostedRevs(t) \subseteq Nat /\ latest[t] \in Nat /\ Revs \subseteq Nat
  <2>1. \A k \in Committed : log[k].type = "task_posted" => log[k].rev \in Revs
    BY CommittedShape, EventShape
  <2>2. QED
    BY <1>1, <2>1, RevsAssumption DEF PostedRevs
<1>7. CASE e.type = "task_posted" /\ e.task = t
  <2>1. latest'[t] = IF e.rev > latest[t] THEN e.rev ELSE latest[t]
    BY <1>1, <1>7 DEF LatestAfter
  <2>2. e.rev \in Nat
    BY <1>2, <1>6, <1>7
  <2>3. CASE e.rev > latest[t]
    <3>1. latest'[t] = e.rev
      BY <2>1, <2>3
    <3>2. \A r \in PostedRevs(t) : r <= e.rev
      BY <1>5, <1>6, <2>2, <2>3
    <3>3. QED
      BY <1>4, <1>7, <2>2, <3>1, <3>2
  <2>4. CASE ~(e.rev > latest[t])
    BY <1>4, <1>5, <1>6, <1>7, <2>1, <2>2, <2>4
  <2>5. QED
    BY <2>3, <2>4
<1>8. CASE ~(e.type = "task_posted" /\ e.task = t)
  <2>1. latest'[t] = latest[t]
    BY <1>1, <1>2, <1>8 DEF LatestAfter
  <2>2. QED
    BY <1>4, <1>5, <1>8, <2>1
<1>9. QED
  BY <1>7, <1>8

\* The target of a committed event depends on the prefix alone.
LEMMA TargetStays ==
    ASSUME TypeOK, NEW e \in Offered, Commit(e), NEW n \in Committed
    PROVE  TargetAt(n)' = TargetAt(n)
<1>1. log'[n] = log[n] /\ \A k \in 1 .. n : log'[k] = log[k]
  BY LogGrows
<1>2. RevAt(n)' = RevAt(n)
  BY <1>1 DEF RevAt
<1>3. QED
  BY <1>1, <1>2 DEF TargetAt

\* At its commit it is the target the fold applied it to.
LEMMA TargetBegins ==
    ASSUME TypeOK, LatestIsNewest, NEW e \in Offered, Commit(e),
           NEW version, version = Len(log) + 1
    PROVE  TargetAt(version)' = Target(e)
<1> DEFINE S == {1} \cup {log'[m].rev : m \in
                    {k \in 1 .. version : log'[k].type = "task_posted" /\ log'[k].task = e.task}}
<1>0. /\ Len(log) \in Nat /\ Committed = 1 .. Len(log)
      /\ \A n \in Committed : log'[n] = log[n]
      /\ log'[version] = e
  BY LogGrows
<1>1. e.task \in Tasks /\ (e.rev = None => e.type # "task_posted")
  BY EventShape, OfferedAssumption, NoneAssumption
<1>2. RevAt(version)' = IF e.rev # None THEN e.rev ELSE Max(S)
  BY <1>0 DEF RevAt
<1>3. ASSUME e.rev = None PROVE Max(S) = latest[e.task]
  <2>2. S = PostedRevs(e.task)
    BY <1>0, <1>1, <1>3 DEF PostedRevs
  <2>3. S \subseteq Nat
    <3>1. \A k \in Committed : log[k].type = "task_posted" => log[k].rev \in Revs
      BY CommittedShape, EventShape
    <3>2. QED
      BY <2>2, <3>1, RevsAssumption DEF PostedRevs
  <2>4. latest[e.task] \in S /\ \A y \in S : y <= latest[e.task]
    BY <1>1, <2>2 DEF LatestIsNewest
  <2>5. QED
    BY <2>3, <2>4, MaxIs
<1>7. QED
  BY <1>0, <1>2, <1>3 DEF TargetAt, Target, EffectiveRev

-----------------------------------------------------------------------------
(* No evidence twice.                                                      *)

\* A new event has an id of its own.
LEMMA NewId ==
    ASSUME TypeOK, IndexesCoverLog, NEW e \in Offered, Outcome(e) = "APPENDED"
    PROVE  ~Logged(e.id)
<1>1. byId[e.id] = 0
  BY AppendedFacts
<1>2. SUFFICES ASSUME NEW k \in Committed, log[k].id = e.id PROVE FALSE
  BY DEF Logged
<1>3. byId[log[k].id] = k
  BY DEF IndexesCoverLog
<1>4. k # 0
  BY CommittedShape
<1>5. QED
  BY <1>1, <1>2, <1>3, <1>4

LEMMA EvidenceStep ==
    ASSUME TypeOK, IndexesCoverLog, EvidenceLogged,
           NEW e \in Offered, Outcome(e) = "APPENDED", Commit(e)
    PROVE  EvidenceLogged'
<1> DEFINE version == Len(log) + 1
           Known(id) == \E k \in Committed' : log'[k].id = id
           Used(m) == log'[m].refs \cup {log'[m].cause}
<1>0. /\ \A n \in Committed : n \in Committed' /\ log'[n] = log[n]
      /\ \A n \in Committed' : n \in Committed \/ (n = version /\ log'[n] = e)
      /\ version \in Committed' /\ log'[version] = e
      /\ e.type = "task_replan" => Target(e) = <<e.task, e.rev>>
  BY LogGrows, CommitApplies
<1>1. SUFFICES ASSUME NEW tr \in TaskRevs
               PROVE  /\ \A id \in view'[tr].pending : Known(id)
                      /\ \A m \in Committed' : OfType(log'[m], "task_replan", tr) =>
                            \A id \in Used(m) : Known(id) /\ id \notin view'[tr].pending
  BY Zenon DEF EvidenceLogged, Logged, Is, OfType, Consumed
<1>2. /\ \A id : Logged(id) => Known(id)
      /\ Known(e.id)
  BY <1>0 DEF Logged
<1>3. /\ \A id \in view[tr].pending : Logged(id)
      /\ \A m \in Committed : OfType(log[m], "task_replan", tr) =>
            \A id \in log[m].refs \cup {log[m].cause} : Logged(id) /\ id \notin view[tr].pending
  BY Zenon DEF EvidenceLogged, Is, OfType, Consumed
<1>4. view'[tr].pending \subseteq view[tr].pending \cup {e.id}
  <2>1. CASE tr # Target(e)
    BY <2>1, CommitApplies
  <2>2. CASE tr = Target(e)
    BY <2>2, CommitApplies, PendingShrinks
  <2>3. QED
    BY <2>1, <2>2
<1>5. \A id \in view'[tr].pending : Known(id)
  BY <1>2, <1>3, <1>4
<1>6. ASSUME NEW m \in Committed', OfType(log'[m], "task_replan", tr), NEW id \in Used(m)
      PROVE  Known(id) /\ id \notin view'[tr].pending
  <2>1. CASE m \in Committed
    <3>1. Logged(id) /\ id \notin view[tr].pending
      BY <1>0, <1>3, <1>6, <2>1
    <3>2. id # e.id
      BY <3>1, NewId
    <3>3. QED
      BY <1>2, <1>4, <3>1, <3>2
  <2>2. CASE m \notin Committed
    <3>1. log'[m] = e /\ e.type = "task_replan" /\ tr = Target(e)
      BY <1>0, <1>6, <2>2 DEF OfType
    <3>2. /\ id \in e.refs \cup {e.cause}
          /\ e.refs \cup {e.cause} \subseteq view[tr].pending
          /\ view'[tr].pending = view[tr].pending \ (e.refs \cup {e.cause})
      BY <1>6, <3>1, CommitApplies, ReplanConsumes
    <3>3. QED
      BY <1>2, <1>3, <3>2
  <2>3. QED
    BY <2>1, <2>2
<1>7. QED
  BY <1>5, <1>6

LEMMA TwiceStep ==
    ASSUME TypeOK, EvidenceLogged, NoneTwice,
           NEW e \in Offered, Outcome(e) = "APPENDED", Commit(e)
    PROVE  NoneTwice'
<1> DEFINE version == Len(log) + 1
           Used(f) == f.refs \cup {f.cause}
<1>0. /\ \A n \in Committed : n \in Committed' /\ log'[n] = log[n]
      /\ \A n \in Committed' : n \in Committed \/ (n = version /\ log'[n] = e)
      /\ e.type = "task_replan" => Target(e) = <<e.task, e.rev>>
  BY LogGrows, CommitApplies
<1>1. SUFFICES ASSUME NEW tr \in TaskRevs, NEW m \in Committed', NEW n \in Committed',
                      OfType(log'[m], "task_replan", tr),
                      OfType(log'[n], "task_replan", tr), m # n
               PROVE  Used(log'[m]) \cap Used(log'[n]) = {}
  BY Zenon DEF NoneTwice, Is, OfType, Consumed
<1>2. ASSUME NEW k \in Committed, OfType(log[k], "task_replan", tr),
             OfType(e, "task_replan", tr)
      PROVE  Used(log[k]) \cap Used(e) = {}
  <2>1. \A id \in Used(log[k]) : id \notin view[tr].pending
    BY Zenon, <1>2 DEF EvidenceLogged, Is, OfType, Consumed
  <2>2. tr = Target(e) /\ e.type = "task_replan"
    BY <1>0, <1>2 DEF OfType
  <2>3. Used(e) \subseteq view[tr].pending
    BY <2>2, CommitApplies, ReplanConsumes
  <2>4. QED
    BY <2>1, <2>3
<1>3. CASE m \in Committed /\ n \in Committed
  <2>1. log'[m] = log[m] /\ log'[n] = log[n]
    BY <1>0, <1>3
  <2>2. QED
    BY <1>1, <1>3, <2>1 DEF NoneTwice, Is, OfType, Consumed
<1>4. CASE m \in Committed /\ n \notin Committed
  <2>1. log'[m] = log[m] /\ log'[n] = e
    BY <1>0, <1>4
  <2>2. QED
    BY <1>1, <1>2, <1>4, <2>1
<1>5. CASE m \notin Committed /\ n \in Committed
  <2>1. log'[n] = log[n] /\ log'[m] = e
    BY <1>0, <1>5
  <2>2. Used(log[n]) \cap Used(e) = {}
    BY <1>1, <1>2, <1>5, <2>1
  <2>3. QED
    BY <2>1, <2>2
<1>6. CASE m \notin Committed /\ n \notin Committed
  BY <1>0, <1>1, <1>6
<1>7. QED
  BY <1>3, <1>4, <1>5, <1>6

-----------------------------------------------------------------------------
(* No evidence forgotten.                                                  *)

LEMMA ForgottenStep ==
    ASSUME TypeOK, LatestIsNewest, CluesKnown, NoneForgotten,
           NEW e \in Offered, Outcome(e) = "APPENDED", Commit(e)
    PROVE  NoneForgotten'
<1> DEFINE Named(f, id, tr) ==
              \/ OfType(f, "task_replan", tr) /\ id \in f.refs \cup {f.cause}
              \/ OfType(f, "task_assigned", tr) /\ id \in f.refs
           Safe(n, tr) ==
              \/ view'[tr].terminal # None
              \/ log'[n].id \in view'[tr].pending
              \/ \E m \in n + 1 .. Len(log') : Named(log'[m], log'[n].id, tr)
<1>0. /\ Len(log) \in Nat /\ Committed = 1 .. Len(log) /\ Len(log') = Len(log) + 1
      /\ \A n \in Committed : n \in Committed' /\ log'[n] = log[n]
      /\ \A n \in Committed' : n \in Committed \/ (n = Len(log) + 1 /\ log'[n] = e)
      /\ log'[Len(log) + 1] = e
  BY LogGrows
<1>1. SUFFICES ASSUME NEW n \in Committed', log'[n].type = "clue"
               PROVE  Safe(n, TargetAt(n)')
  BY Zenon DEF NoneForgotten, Taken, Is, OfType, Consumed
<1>2. CASE n \notin Committed
  <2>1. n = Len(log) + 1 /\ log'[n] = e /\ e.type = "clue"
    BY <1>0, <1>1, <1>2
  <2>2. TargetAt(n)' = Target(e)
    BY <2>1, TargetBegins
  <2>3. view[Target(e)].terminal = None => Apply(view[Target(e)], e).pending =
                                             view[Target(e)].pending \cup {e.id}
    BY <2>1, CommitApplies DEF Apply, TerminalTypes, View
  <2>4. view'[Target(e)].terminal # None \/ e.id \in view'[Target(e)].pending
    BY <2>1, <2>3, CommitApplies, Frozen
  <2>5. QED
    BY <2>1, <2>2, <2>4
<1>3. CASE n \in Committed
  <2> DEFINE tr == TargetAt(n)
             id == log[n].id
  <2>1. TargetAt(n)' = tr /\ log'[n] = log[n]
    BY <1>0, <1>3, TargetStays
  <2>2. \/ view[tr].terminal # None
        \/ id \in view[tr].pending
        \/ \E m \in n + 1 .. Len(log) : Named(log[m], id, tr)
    BY <1>1, <1>3, <2>1 DEF NoneForgotten, Taken, Is, OfType, Consumed
  <2>3. CASE \E m \in n + 1 .. Len(log) : Named(log[m], id, tr)
    <3>1. PICK m \in n + 1 .. Len(log) : Named(log[m], id, tr)
      BY <2>3
    <3>2. m \in n + 1 .. Len(log') /\ log'[m] = log[m]
      BY <1>0, <1>3
    <3>3. Named(log'[m], id, tr)
      BY <3>1, <3>2
    <3>4. QED
      BY <2>1, <3>2, <3>3
  <2>4. CASE (view[tr].terminal # None \/ id \in view[tr].pending) /\ tr = Target(e)
    <3>1. \/ view'[tr].terminal # None
          \/ id \in view'[tr].pending
          \/ e.type = "task_replan" /\ id \in e.refs \cup {e.cause}
          \/ e.type = "task_assigned" /\ id \in e.refs
      BY <2>4, CommitApplies, PendingOrTaken
    <3>2. e.type \in {"task_replan", "task_assigned"} => OfType(e, e.type, tr)
      BY <2>4, CommitApplies DEF OfType
    <3>3. Len(log) + 1 \in n + 1 .. Len(log')
      BY <1>0, <1>3
    <3>4. \/ view'[tr].terminal # None
          \/ id \in view'[tr].pending
          \/ Named(e, id, tr)
      BY <3>1, <3>2
    <3>5. QED
      BY <1>0, <2>1, <3>3, <3>4
  <2>5. CASE (view[tr].terminal # None \/ id \in view[tr].pending) /\ tr # Target(e)
    <3>1. tr \in TaskRevs => view'[tr] = view[tr]
      BY <2>5, CommitApplies
    <3>2. tr \in TaskRevs
      BY <1>1, <1>3, <2>1 DEF CluesKnown
    <3>3. QED
      BY <2>1, <2>5, <3>1, <3>2
  <2>6. QED
    BY <2>2, <2>3, <2>4, <2>5
<1>4. QED
  BY <1>2, <1>3

LEMMA KnownStep ==
    ASSUME TypeOK, LatestIsNewest, CluesKnown, NEW e \in Offered, Commit(e)
    PROVE  CluesKnown'
<1>1. SUFFICES ASSUME NEW n \in Committed', log'[n].type = "clue"
               PROVE  TargetAt(n)' \in TaskRevs
  BY Zenon DEF CluesKnown, TaskRevs
<1>2. CASE n \in Committed
  BY <1>1, <1>2, TargetStays, LogGrows DEF CluesKnown
<1>3. CASE n \notin Committed
  <2>1. n = Len(log) + 1 /\ log'[n] = e
    BY <1>3, LogGrows
  <2>2. QED
    BY <1>1, <2>1, TargetBegins, TargetType
<1>4. QED
  BY <1>2, <1>3

-----------------------------------------------------------------------------
(* Together.                                                               *)

ClueInv == LatestIsNewest /\ CluesKnown /\ EvidenceLogged /\ NoneForgotten /\ NoneTwice

LEMMA ClueInvStep == BoardInv /\ ClueInv /\ [Next]_vars => ClueInv'
<1>1. ASSUME ClueInv, UNCHANGED vars PROVE ClueInv'
  <2>1. log' = log /\ latest' = latest /\ view' = view
    BY <1>1 DEF vars
  <2>2. LatestIsNewest'
    BY <1>1, <2>1 DEF ClueInv, LatestIsNewest, PostedRevs, Committed
  <2>t. \A n : TargetAt(n)' = TargetAt(n)
    BY <2>1 DEF TargetAt, RevAt
  <2>3. CluesKnown'
    BY <1>1, <2>1, <2>t DEF ClueInv, CluesKnown, Committed
  <2>4. EvidenceLogged'
    BY <1>1, <2>1 DEF ClueInv, EvidenceLogged, Logged, Consumed, Is, Committed
  <2>5. NoneForgotten'
    BY <1>1, <2>1, <2>t DEF ClueInv, NoneForgotten, Taken, Consumed, Is, Committed
  <2>6. NoneTwice'
    BY <1>1, <2>1 DEF ClueInv, NoneTwice, Consumed, Is, Committed
  <2>7. QED
    BY <2>2, <2>3, <2>4, <2>5, <2>6 DEF ClueInv
<1>2. ASSUME BoardInv, ClueInv, NEW e \in Offered, Outcome(e) = "APPENDED", Commit(e)
      PROVE  ClueInv'
  BY <1>2, LatestStep, KnownStep, EvidenceStep, ForgottenStep, TwiceStep DEF BoardInv, ClueInv
<1>3. QED
  BY <1>1, <1>2, NextIsCommit

LEMMA ClueInvInit == Init => ClueInv
<1>1. SUFFICES ASSUME Init PROVE ClueInv
  OBVIOUS
<1>2. Committed = {}
  BY <1>1 DEF Init, Committed
<1>3. \A tr \in TaskRevs : view[tr].pending = {}
  BY <1>1 DEF Init, EmptyView
<1>4. LatestIsNewest
  <2>1. \A t \in Tasks : PostedRevs(t) = {1}
    BY <1>2 DEF PostedRevs
  <2>2. \A t \in Tasks : latest[t] = 1
    BY <1>1 DEF Init
  <2>3. QED
    BY <2>1, <2>2 DEF LatestIsNewest
<1>5. QED
  BY <1>2, <1>3, <1>4 DEF ClueInv, CluesKnown, EvidenceLogged, NoneForgotten, NoneTwice

\* No clue is lost and none is acted on twice, in any order of events and with
\* any number of producers: until the task ends, a committed clue is pending or
\* a later replan or plan names it; and two replans share no evidence.
THEOREM CluesConsumedOnce == Spec => []ClueConsumedOnce
<1>1. ClueInv => ClueConsumedOnce
  BY ClueHalves DEF ClueInv
<1>2. QED
  BY <1>1, ClueInvInit, ClueInvStep, BoardInvHolds, PTL DEF Spec

-----------------------------------------------------------------------------
(* The fold from scratch.                                                  *)

\* One iteration of the fold for tr, at position k.
StepOf(tr, v, k) == IF TargetAt(k) = tr THEN Apply(v, log[k]) ELSE v

\* g is the recursive function the fold is evaluated by, on the positions up to n.
FoldsTo(g, tr, n) ==
    g = [s \in SUBSET (1 .. n) |->
            IF s = {} THEN EmptyView ELSE StepOf(tr, g[s \ {Max(s)}], Max(s))]

LEMMA MaxOf ==
    ASSUME NEW n \in Nat, NEW s, s \subseteq 1 .. n, s # {}
    PROVE  /\ Max(s) \in s
           /\ \A y \in s : Max(s) >= y
<1>1. \E x \in s : \A y \in s : x >= y
  <2>1. s \subseteq 0 .. n
    OBVIOUS
  <2>2. PICK x \in s : \A y \in s : y <= x
    BY <2>1, LargestOf
  <2>3. \A y \in s : x >= y
    BY <2>2
  <2>4. QED
    BY <2>3
<1>2. QED
  BY <1>1 DEF Max

\* The recursive function exists for the empty log, and extends by a position.
LEMMA FoldExtends ==
    ASSUME NEW n \in Nat, n # 0, NEW tr, NEW h, FoldsTo(h, tr, n - 1)
    PROVE  \E g : FoldsTo(g, tr, n)
<1> DEFINE g == [s \in SUBSET (1 .. n) |->
                    IF s = {} THEN EmptyView ELSE StepOf(tr, h[s \ {Max(s)}], Max(s))]
<1>1. \A s \in SUBSET (1 .. (n - 1)) : g[s] = h[s]
  <2>1. SUBSET (1 .. (n - 1)) \subseteq SUBSET (1 .. n)
    OBVIOUS
  <2>2. QED
    BY <2>1 DEF FoldsTo
<1>2. \A s \in SUBSET (1 .. n) : s # {} => s \ {Max(s)} \in SUBSET (1 .. (n - 1))
  <2>1. SUFFICES ASSUME NEW s \in SUBSET (1 .. n), s # {}, NEW y \in s, y # Max(s)
                 PROVE  y \in 1 .. (n - 1)
    OBVIOUS
  <2>2. Max(s) \in s /\ Max(s) >= y
    BY <2>1, MaxOf
  <2>3. Max(s) \in 1 .. n /\ y \in 1 .. n
    BY <2>2
  <2>4. QED
    BY <2>1, <2>2, <2>3
<1>3. \A s \in SUBSET (1 .. n) : s # {} => g[s \ {Max(s)}] = h[s \ {Max(s)}]
  BY <1>1, <1>2
<1>4. FoldsTo(g, tr, n)
  BY <1>3 DEF FoldsTo
<1>5. QED
  BY <1>4

LEMMA FoldExists ==
    ASSUME NEW n \in Nat, NEW tr
    PROVE  \E g : FoldsTo(g, tr, n)
<1> DEFINE S == {k \in 0 .. n : ~ \E g : FoldsTo(g, tr, k)}
<1>1. SUFFICES ASSUME S # {} PROVE FALSE
  OBVIOUS
<1>2. PICK k \in S : \A y \in S : k <= y
  <2>1. S \subseteq 0 .. n
    OBVIOUS
  <2> HIDE DEF S
  <2>2. QED
    BY <1>1, <2>1, SmallestOf
<1>3. k # 0
  <2>1. SUBSET (1 .. 0) = {{}}
    OBVIOUS
  <2>2. FoldsTo([s \in SUBSET (1 .. 0) |-> EmptyView], tr, 0)
    BY <2>1 DEF FoldsTo
  <2>3. QED
    BY <2>2
<1>4. k \in Nat /\ k - 1 \in 0 .. n /\ k - 1 \notin S
  BY <1>2, <1>3
<1>5. PICK h : FoldsTo(h, tr, k - 1)
  BY <1>4
<1>6. \E g : FoldsTo(g, tr, k)
  BY <1>3, <1>4, <1>5, FoldExtends
<1>7. QED
  BY <1>6

\* The fold of the community modules is the value of that function.
LEMMA FoldIs ==
    ASSUME NEW tr, Len(log) \in Nat
    PROVE  \E g : FoldsTo(g, tr, Len(log)) /\ FoldOf(tr) = g[1 .. Len(log)]
<1> DEFINE n == Len(log)
           ids == [k \in 1 .. n |-> k]
           Evaluates(g) ==
             g = [s \in SUBSET (DOMAIN ids) |->
                    IF s = {} THEN EmptyView
                    ELSE IF TargetAt(ids[Max(s)]) = tr
                         THEN Apply(g[s \ {Max(s)}], log[ids[Max(s)]])
                         ELSE g[s \ {Max(s)}]]
           h == CHOOSE g : Evaluates(g)
<1>1. FoldOf(tr) = h[DOMAIN ids]
  BY DEF FoldOf, FoldLeft, MapThenFoldSet
<1>2. DOMAIN ids = 1 .. n
  OBVIOUS
<1>3. \A s \in SUBSET (1 .. n) : s # {} => ids[Max(s)] = Max(s)
  <2>1. \A s \in SUBSET (1 .. n) : s # {} => Max(s) \in 1 .. n
    BY MaxOf
  <2>2. QED
    BY <2>1
<1>4. \A g : FoldsTo(g, tr, n) <=> Evaluates(g)
  <2>1. SUFFICES ASSUME NEW g PROVE FoldsTo(g, tr, n) <=> Evaluates(g)
    OBVIOUS
  <2>2. [s \in SUBSET (1 .. n) |->
            IF s = {} THEN EmptyView ELSE StepOf(tr, g[s \ {Max(s)}], Max(s))]
        = [s \in SUBSET (DOMAIN ids) |->
            IF s = {} THEN EmptyView
            ELSE IF TargetAt(ids[Max(s)]) = tr
                 THEN Apply(g[s \ {Max(s)}], log[ids[Max(s)]])
                 ELSE g[s \ {Max(s)}]]
    <3> HIDE DEF ids, n
    <3> QED
      BY <1>2, <1>3 DEF StepOf
  <2>3. QED
    BY <2>2 DEF FoldsTo
<1>5. \E g : Evaluates(g)
  BY <1>4, FoldExists
<1>6. Evaluates(h)
  BY <1>5
<1>7. FoldsTo(h, tr, n)
  <2> HIDE DEF h, Evaluates
  <2> QED
    BY <1>4, <1>6
<1>8. QED
  <2> HIDE DEF h
  <2> QED
    BY <1>1, <1>2, <1>7

\* The fold, value by value: V[k] is the fold of the first k events.
FoldsAlong(tr, V) ==
    /\ V[0] = EmptyView
    /\ \A k \in 1 .. Len(log) : V[k] = StepOf(tr, V[k - 1], k)
    /\ V[Len(log)] = FoldOf(tr)

HasFolds == Len(log) \in Nat => \A tr : \E V : FoldsAlong(tr, V)

LEMMA FoldPrefixes == HasFolds
<1>1. SUFFICES ASSUME Len(log) \in Nat, NEW tr PROVE \E V : FoldsAlong(tr, V)
  BY DEF HasFolds
<1> DEFINE n == Len(log)
<1>2. PICK g : FoldsTo(g, tr, n) /\ FoldOf(tr) = g[1 .. n]
  BY <1>1, FoldIs
<1> DEFINE V == [k \in 0 .. n |-> g[1 .. k]]
<1>3. \A k \in 0 .. n : V[k] = g[1 .. k]
  OBVIOUS
<1>4. n \in 0 .. n /\ 0 \in 0 .. n
  BY <1>1
<1>5. V[0] = EmptyView
  <2>1. 1 .. 0 = {} /\ {} \in SUBSET (1 .. n)
    OBVIOUS
  <2>2. g[{}] = EmptyView
    BY <1>2, <2>1 DEF FoldsTo
  <2>3. QED
    BY <1>3, <1>4, <2>1, <2>2
<1>6. ASSUME NEW k \in 1 .. n PROVE V[k] = StepOf(tr, V[k - 1], k)
  <2>0. n \in Nat /\ k \in Nat /\ k <= n /\ 1 <= k
    BY <1>1
  <2>1. 1 .. k \in SUBSET (1 .. n) /\ k \in 1 .. k
    <3> HIDE DEF n
    <3> QED
      BY <2>0
  <2>2. Max(1 .. k) = k
    <3>1. 1 .. k \subseteq Nat /\ \A y \in 1 .. k : y <= k
      BY <2>0
    <3>2. QED
      BY <2>1, <3>1, MaxIs
  <2>3. (1 .. k) \ {k} = 1 .. (k - 1)
    BY <1>1
  <2>4. g[1 .. k] = StepOf(tr, g[1 .. (k - 1)], k)
    BY <1>2, <2>1, <2>2, <2>3 DEF FoldsTo
  <2>5. k \in 0 .. n /\ k - 1 \in 0 .. n
    BY <1>1
  <2>6. QED
    BY <1>3, <2>4, <2>5
<1>7. V[n] = FoldOf(tr)
  BY <1>2, <1>3, <1>4
<1>8. QED
  BY <1>5, <1>6, <1>7 DEF FoldsAlong

\* The fold of the longer log is one more iteration.
LEMMA FoldStep ==
    ASSUME TypeOK, LatestIsNewest, NEW e \in Offered, Commit(e), NEW tr
    PROVE  FoldOf(tr)' = IF Target(e) = tr THEN Apply(FoldOf(tr), e) ELSE FoldOf(tr)
<1>n. PICK n : n = Len(log)
  OBVIOUS
<1>0. /\ n \in Nat /\ Committed = 1 .. n /\ Len(log') = n + 1
      /\ \A k \in 1 .. n : log'[k] = log[k]
  BY <1>n, LogGrows
<1>1. PICK V : FoldsAlong(tr, V)
  BY <1>0, <1>n, FoldPrefixes DEF HasFolds
<1>2. PICK W : FoldsAlong(tr, W)'
  <2>1. HasFolds'
    BY FoldPrefixes, PTL
  <2>2. QED
    BY <1>0, <2>1 DEF HasFolds
<1>3. /\ W[0] = EmptyView
      /\ \A k \in 1 .. n + 1 : W[k] = StepOf(tr, W[k - 1], k)'
      /\ W[n + 1] = FoldOf(tr)'
  BY <1>0, <1>2 DEF FoldsAlong
<1>4. \A k \in 1 .. n : \A v : StepOf(tr, v, k)' = StepOf(tr, v, k)
  BY <1>0, TargetStays DEF StepOf
<1>5. \A k \in 0 .. n : V[k] = W[k]
  <2>1. \A k \in 1 .. n : V[k] = StepOf(tr, V[k - 1], k) /\ W[k] = StepOf(tr, W[k - 1], k)'
    BY <1>0, <1>n, <1>1, <1>3 DEF FoldsAlong
  <2>2. V[0] = W[0]
    BY <1>1, <1>3 DEF FoldsAlong
  <2>3. \A k \in 1 .. n : V[k - 1] = W[k - 1] => V[k] = W[k]
    BY <1>4, <2>1
  <2> DEFINE S == {k \in 0 .. n : V[k] # W[k]}
  <2>4. SUFFICES ASSUME S # {} PROVE FALSE
    OBVIOUS
  <2>5. PICK k \in S : \A y \in S : k <= y
    <3>1. S \subseteq 0 .. n
      OBVIOUS
    <3> HIDE DEF S
    <3>2. QED
      BY <1>0, <2>4, <3>1, SmallestOf
  <2>6. k # 0
    BY <2>2
  <2>7. k \in 1 .. n /\ k - 1 \in 0 .. n /\ k - 1 \notin S
    BY <1>0, <2>5, <2>6
  <2>8. V[k] = W[k]
    BY <2>3, <2>7
  <2>9. QED
    BY <2>8
<1>6. n \in 0 .. n /\ n + 1 \in 1 .. n + 1 /\ (n + 1) - 1 = n
  BY <1>0
<1>7. W[n] = FoldOf(tr)
  BY <1>n, <1>1, <1>5, <1>6 DEF FoldsAlong
<1>8. FoldOf(tr)' = IF TargetAt(n + 1)' = tr THEN Apply(W[n], log'[n + 1]) ELSE W[n]
  BY <1>3, <1>6 DEF StepOf
<1>9. TargetAt(n + 1)' = Target(e) /\ log'[n + 1] = e
  BY <1>0, <1>n, LogGrows, TargetBegins
<1>10. QED
  BY <1>7, <1>8, <1>9

\* A step that leaves the log alone leaves its fold alone.
LEMMA FoldStays ==
    ASSUME TypeOK, UNCHANGED vars, NEW tr
    PROVE  FoldOf(tr)' = FoldOf(tr)
<1>1. log' = log
  BY DEF vars
<1>2. QED
  BY <1>1 DEF FoldOf, TargetAt, RevAt, FoldLeft, MapThenFoldSet

LEMMA FoldInvStep ==
    BoardInv /\ ClueInv /\ FoldIsIncremental /\ [Next]_vars => FoldIsIncremental'
<1>1. ASSUME BoardInv, FoldIsIncremental, UNCHANGED vars PROVE FoldIsIncremental'
  <2>1. view' = view /\ TypeOK
    BY <1>1 DEF vars, BoardInv
  <2>2. QED
    BY <1>1, <2>1, FoldStays DEF FoldIsIncremental, TaskRevs
<1>2. ASSUME BoardInv, ClueInv, FoldIsIncremental,
             NEW e \in Offered, Outcome(e) = "APPENDED", Commit(e)
      PROVE  FoldIsIncremental'
  <2>1. SUFFICES ASSUME NEW tr \in TaskRevs PROVE view'[tr] = FoldOf(tr)'
    BY DEF FoldIsIncremental, TaskRevs
  <2>2. view[tr] = FoldOf(tr)
    BY <1>2 DEF FoldIsIncremental
  <2>3. view'[tr] = IF Target(e) = tr THEN Apply(view[tr], e) ELSE view[tr]
    BY <1>2, CommitApplies DEF BoardInv
  <2>4. FoldOf(tr)' = IF Target(e) = tr THEN Apply(FoldOf(tr), e) ELSE FoldOf(tr)
    BY <1>2, FoldStep DEF BoardInv, ClueInv
  <2>5. QED
    BY <2>2, <2>3, <2>4
<1>3. QED
  BY <1>1, <1>2, NextIsCommit

LEMMA FoldInvInit == Init => FoldIsIncremental
<1>1. SUFFICES ASSUME Init, NEW tr \in TaskRevs PROVE view[tr] = FoldOf(tr)
  BY DEF FoldIsIncremental
<1>2. log = << >> /\ Len(log) = 0 /\ view[tr] = EmptyView
  BY <1>1 DEF Init
<1>3. PICK V : FoldsAlong(tr, V)
  BY <1>2, FoldPrefixes DEF HasFolds
<1>4. QED
  BY <1>2, <1>3 DEF FoldsAlong

\* A view never changes retroactively: the fold of the whole log, with the legacy
\* clues resolved by position, is what folding each event at its commit gave.
THEOREM FoldIncremental == Spec => []FoldIsIncremental
  BY FoldInvInit, FoldInvStep, ClueInvInit, ClueInvStep, BoardInvHolds, PTL DEF Spec
=============================================================================
