---------------------------- MODULE TaskViewProofs ----------------------------
(***************************************************************************)
(* Lemmas about the fold and the gate of one task revision, for every view *)
(* and event.  What holds of the Blackboard and of the processes on top of *)
(* it is proved from these.                                                *)
(***************************************************************************)
EXTENDS TaskView, FiniteSetTheorems, TLAPS

-----------------------------------------------------------------------------
(* Shapes.                                                                 *)

\* What the schema says of the fields the proofs use.
LEMMA EventShape ==
    ASSUME NEW e \in Event
    PROVE  /\ e.id \in EventIds
           /\ e.key \in Keys \cup {None}
           /\ e.task \in Tasks
           /\ e.rev \in Revs \cup {None}
           /\ e.type \notin {"clue", "estop"} => e.rev \in Revs
<1>1. CASE e \in PostedEvent \cup RoundEvent \cup AssignedEvent \cup WorkEvent
  BY <1>1 DEF PostedEvent, RoundEvent, AssignedEvent, WorkEvent
<1>2. CASE e \in ReplanEvent \cup DoneEvent \cup FailedEvent \cup ReceiptEvent
                \cup InterceptEvent
  BY <1>2 DEF ReplanEvent, DoneEvent, FailedEvent, ReceiptEvent, InterceptEvent
<1>3. CASE e \in ClueEvent
  BY <1>3 DEF ClueEvent
<1>4. CASE e \in BidEvent \cup EstopEvent
  BY <1>4 DEF BidEvent, EstopEvent
<1>5. QED
  BY <1>1, <1>2, <1>3, <1>4 DEF Event

LEMMA RoundShape ==
    ASSUME NEW e \in Event, e.type = "bid_round_opened"
    PROVE  e.epoch \in Nat \ {0} /\ e.number \in Nat \ {0}
  BY DEF Event, PostedEvent, RoundEvent, AssignedEvent, WorkEvent, ClueEvent,
         ReplanEvent, DoneEvent, FailedEvent, ReceiptEvent,
         InterceptEvent, BidEvent, EstopEvent

LEMMA AssignedShape ==
    ASSUME NEW e \in Event, e.type = "task_assigned"
    PROVE  /\ e.epoch \in Nat \ {0}
           /\ e.plan \in PlanIds
           /\ e.asgs \in SUBSET AssignmentIds
           /\ e.refs \in SUBSET EventIds
  BY DEF Event, PostedEvent, RoundEvent, AssignedEvent, WorkEvent, ClueEvent,
         ReplanEvent, DoneEvent, FailedEvent, ReceiptEvent,
         InterceptEvent, BidEvent, EstopEvent

LEMMA WorkShape ==
    ASSUME NEW e \in Event, e.type \in {"action_intent", "assignment_completed"}
    PROVE  e.epoch \in Nat \ {0} /\ e.plan \in PlanIds /\ e.asg \in AssignmentIds
  BY DEF Event, PostedEvent, RoundEvent, AssignedEvent, WorkEvent, ClueEvent,
         ReplanEvent, DoneEvent, FailedEvent, ReceiptEvent,
         InterceptEvent, BidEvent, EstopEvent

LEMMA ReplanShape ==
    ASSUME NEW e \in Event, e.type = "task_replan"
    PROVE  e.from \in Nat /\ e.cause \in EventIds /\ e.refs \in SUBSET EventIds
  BY DEF Event, PostedEvent, RoundEvent, AssignedEvent, WorkEvent, ClueEvent,
         ReplanEvent, DoneEvent, FailedEvent, ReceiptEvent,
         InterceptEvent, BidEvent, EstopEvent

\* The fold maps views to views.
LEMMA ApplyType ==
    ASSUME NEW v \in View, NEW e \in Event
    PROVE  Apply(v, e) \in View
<1>1. ApplyPosted(v, e) \in View
  BY DEF ApplyPosted, View, Statuses
<1>2. ASSUME e.type = "bid_round_opened" PROVE ApplyRound(v, e) \in View
  BY <1>2, RoundShape DEF ApplyRound, View, Statuses, Round
<1>3. ASSUME e.type = "task_assigned" PROVE ApplyAssigned(v, e) \in View
  BY <1>3, AssignedShape DEF ApplyAssigned, View, Statuses, Plan
<1>4. ApplyIntent(v, e) \in View
  BY DEF ApplyIntent, View, Statuses
<1>5. ASSUME e.type = "assignment_completed" PROVE ApplyCompleted(v, e) \in View
  BY <1>5, WorkShape DEF ApplyCompleted, View
<1>6. ASSUME e.type = "task_replan" PROVE ApplyReplan(v, e) \in View
  <2>1. e.from + 1 \in Nat
    BY <1>6, ReplanShape
  <2>2. v.pending \ (e.refs \cup {e.cause}) \in SUBSET EventIds
    BY DEF View
  <2>3. QED
    BY <2>1, <2>2 DEF ApplyReplan, View, Statuses
<1>7. ApplyTerminal(v, e) \in View
  BY EventShape DEF ApplyTerminal, View, Statuses
<1>8. [v EXCEPT !.pending = @ \cup {e.id}] \in View
  BY EventShape DEF View
<1>9. QED
  BY <1>1, <1>2, <1>3, <1>4, <1>5, <1>6, <1>7, <1>8 DEF Apply, TerminalTypes

LEMMA EmptyViewType == EmptyView \in View
  BY DEF EmptyView, View, Statuses

\* What the gate demands of every event that may change the phase.
LEMMA AcceptedGated ==
    ASSUME NEW v, NEW e, e.type \in GatedTypes, Accepts(v, e)
    PROVE  /\ v.posted
           /\ v.terminal = None
           /\ e.type = "bid_round_opened" => AcceptsRound(v, e)
           /\ e.type = "task_assigned" => AcceptsAssigned(v, e)
           /\ e.type = "task_replan" => AcceptsReplan(v, e)
           /\ e.type = "task_done" => AcceptsDone(v, e)
  BY DEF Accepts

\* Other events leave plan, round, terminal, epoch and posted alone.
LEMMA FactsKeepPhase ==
    ASSUME NEW v \in View, NEW e \in Event,
           e.type \notin GatedTypes \ {"action_intent"}
    PROVE  /\ Apply(v, e).posted = v.posted
           /\ Apply(v, e).plan = v.plan
           /\ Apply(v, e).round = v.round
           /\ Apply(v, e).terminal = v.terminal
           /\ Apply(v, e).epoch = v.epoch
           /\ v.terminal # None => Apply(v, e) = v
  BY DEF View, Apply, GatedTypes, TerminalTypes, ApplyIntent, ApplyCompleted

LEMMA ApplyKeepsTerminal ==
    ASSUME NEW v \in View, NEW e \in Event, e.type \notin TerminalTypes
    PROVE  Apply(v, e).terminal = v.terminal
  BY DEF View, Apply, TerminalTypes, ApplyPosted, ApplyRound,
         ApplyAssigned, ApplyIntent, ApplyCompleted, ApplyReplan

\* The gate's conditions on a terminal imply the fold's.
LEMMA AcceptedTerminal ==
    ASSUME NEW v \in View, NEW e \in Event, e.type \in TerminalTypes, Accepts(v, e)
    PROVE  v.terminal = None /\ Apply(v, e).terminal = e.id
<1>1. v.terminal = None /\ e.epoch = v.epoch
  BY DEF TerminalTypes, GatedTypes, Accepts, AcceptsDone, AcceptsFailed
<1>2. Apply(v, e) = ApplyTerminal(v, e)
  BY <1>1 DEF Apply, TerminalTypes
<1>3. e.type = "task_done" => AcceptsDone(v, e)
  BY DEF TerminalTypes, GatedTypes, Accepts
<1>4. QED
  BY <1>1, <1>2, <1>3 DEF ApplyTerminal, AcceptsDone, View

-----------------------------------------------------------------------------
(* How the fold moves plan, epoch and completions of an accepted event.    *)

Accepted(v, e) == e.type \in GatedTypes \ {"task_posted"} => Accepts(v, e)

LEMMA AssignedApplies ==
    ASSUME NEW v \in View, NEW e \in Event, e.type = "task_assigned", Accepted(v, e)
    PROVE  /\ v.plan = None /\ v.epoch = e.epoch
           /\ Apply(v, e).epoch = v.epoch
           /\ Apply(v, e).plan = [id |-> e.plan, epoch |-> e.epoch, asgs |-> e.asgs]
           /\ Apply(v, e).plan # None
           /\ Apply(v, e).completed = {}
           /\ Apply(v, e).round = None
<1>1. v.terminal = None /\ AcceptsAssigned(v, e)
  BY AcceptedGated DEF Accepted, GatedTypes
<1>2. Apply(v, e) = ApplyAssigned(v, e)
  BY <1>1 DEF Apply, TerminalTypes
<1>3. [id |-> e.plan, epoch |-> e.epoch, asgs |-> e.asgs] # None
  BY AssignedShape, NoneAssumption
<1>4. QED
  BY <1>1, <1>2, <1>3 DEF AcceptsAssigned, ApplyAssigned, View

LEMMA ReplanApplies ==
    ASSUME NEW v \in View, NEW e \in Event, e.type = "task_replan", Accepted(v, e)
    PROVE  /\ e.from = v.epoch
           /\ Apply(v, e).epoch = v.epoch + 1
           /\ Apply(v, e).plan = None
           /\ Apply(v, e).round = None
           /\ Apply(v, e).pending = v.pending \ (e.refs \cup {e.cause})
<1>1. v.terminal = None /\ AcceptsReplan(v, e)
  BY AcceptedGated DEF Accepted, GatedTypes
<1>2. Apply(v, e) = ApplyReplan(v, e)
  BY <1>1 DEF Apply, TerminalTypes
<1>3. QED
  BY <1>1, <1>2 DEF AcceptsReplan, ApplyReplan, View

LEMMA RoundApplies ==
    ASSUME NEW v \in View, NEW e \in Event, e.type = "bid_round_opened", Accepted(v, e),
           v.round # None => v.round.epoch = v.epoch /\ v.epoch # 0
    PROVE  /\ v.plan = None /\ Apply(v, e).plan = None
           /\ v.epoch # 0 => Apply(v, e).epoch = v.epoch
           /\ v.epoch = 0 => Apply(v, e).epoch = 1
           /\ Apply(v, e).round = [epoch |-> e.epoch, number |-> e.number]
           /\ e.epoch = Apply(v, e).epoch
           /\ Apply(v, e) # v
<1>1. v.terminal = None /\ AcceptsRound(v, e)
  BY AcceptedGated DEF Accepted, GatedTypes
<1>2. Apply(v, e) = ApplyRound(v, e)
  BY <1>1 DEF Apply, TerminalTypes
<1>3. e.epoch \in Nat \ {0} /\ e.number \in Nat \ {0}
  BY RoundShape
<1>4. v.round # None => v.round \in Round /\ e.number > v.round.number
  <2>1. SUFFICES ASSUME v.round # None
                 PROVE  v.round \in Round /\ e.number > v.round.number
    OBVIOUS
  <2>2. v.round \in Round
    BY <2>1 DEF View
  <2>3. e.epoch = v.round.epoch
    BY <1>1, <2>1 DEF AcceptsRound, NextRoundEpoch
  <2>4. ~(e.number <= v.round.number)
    BY <1>1, <2>1, <2>3 DEF AcceptsRound
  <2>5. QED
    BY <1>3, <2>2, <2>4 DEF Round
<1>5. Apply(v, e) = [v EXCEPT !.epoch  = e.epoch,
                              !.round  = [epoch |-> e.epoch, number |-> e.number],
                              !.status = "bidding"]
  BY <1>1, <1>2, <1>4 DEF AcceptsRound, ApplyRound
<1>6. Apply(v, e).round # v.round
  <2>1. Apply(v, e).round = [epoch |-> e.epoch, number |-> e.number]
    BY <1>5 DEF View
  <2>2. [epoch |-> e.epoch, number |-> e.number] # None
    BY <1>3, NoneAssumption
  <2>3. v.round # None => v.round.number # e.number
    BY <1>3, <1>4 DEF Round
  <2>4. QED
    BY <2>1, <2>2, <2>3
<1>7. QED
  BY <1>1, <1>5, <1>6 DEF AcceptsRound, NextRoundEpoch, View

LEMMA CompletedApplies ==
    ASSUME NEW v \in View, NEW e \in Event, e.type = "assignment_completed"
    PROVE  /\ Apply(v, e).plan = v.plan
           /\ Apply(v, e).epoch = v.epoch
           /\ Apply(v, e).round = v.round
           /\ \A a \in Apply(v, e).completed : a \in v.completed \/
                 (/\ v.plan # None /\ a = e.asg
                  /\ e.plan = v.plan.id /\ e.epoch = v.plan.epoch)
<1>1. CASE v.terminal # None
  BY <1>1 DEF Apply
<1>2. CASE v.terminal = None
  <2>1. Apply(v, e) = ApplyCompleted(v, e)
    BY <1>2 DEF Apply, TerminalTypes
  <2>2. QED
    BY <2>1 DEF ApplyCompleted, View
<1>3. QED
  BY <1>1, <1>2

\* The events that have a say in plan, epoch and completions.
PlanTypes == {"bid_round_opened", "task_assigned", "assignment_completed", "task_replan"}

LEMMA OthersKeepPlan ==
    ASSUME NEW v \in View, NEW e \in Event, e.type \notin PlanTypes
    PROVE  /\ Apply(v, e).plan = v.plan
           /\ Apply(v, e).epoch = v.epoch
           /\ Apply(v, e).completed = v.completed
           /\ Apply(v, e).round \in {v.round, None}
<1>1. CASE v.terminal # None
  BY <1>1 DEF Apply
<1>2. CASE v.terminal = None /\ e.type \in TerminalTypes
  <2>1. Apply(v, e) = ApplyTerminal(v, e)
    BY <1>2 DEF Apply, TerminalTypes
  <2>2. QED
    BY <2>1 DEF ApplyTerminal, View
<1>3. CASE v.terminal = None /\ e.type \notin TerminalTypes
  BY <1>3 DEF Apply, ApplyPosted, ApplyIntent, PlanTypes, TerminalTypes, View
<1>4. QED
  BY <1>1, <1>2, <1>3

-----------------------------------------------------------------------------
(* What the view says of the events behind it.                             *)

OfType(f, ty, tr) == f.type = ty /\ <<f.task, f.rev>> = tr

\* No plan is of a later epoch than the view, one of its epoch is its plan, and
\* what was replanned is behind.
EpochBehind(f, tr, v) ==
    /\ OfType(f, "task_assigned", tr) =>
          f.epoch < v.epoch \/ (f.epoch = v.epoch /\ v.plan # None)
    /\ OfType(f, "task_replan", tr) => f.from < v.epoch

\* An event that is behind stays behind.
LEMMA BehindStays ==
    ASSUME NEW v \in View, NEW e \in Event, Accepted(v, e),
           v.round # None => v.round.epoch = v.epoch /\ v.epoch # 0,
           NEW f \in Event, NEW tr, EpochBehind(f, tr, v)
    PROVE  EpochBehind(f, tr, Apply(v, e))
<1> DEFINE w == Apply(v, e)
<1>1. /\ v.epoch \in Nat
      /\ f.type = "task_assigned" => f.epoch \in Nat \ {0}
      /\ f.type = "task_replan" => f.from \in Nat
  BY AssignedShape, ReplanShape DEF View
<1>2. CASE e.type = "bid_round_opened"
  <2>1. v.plan = None /\ (w.epoch = v.epoch \/ (v.epoch = 0 /\ w.epoch = 1))
    BY <1>2, RoundApplies
  <2>2. QED
    BY <1>1, <2>1 DEF EpochBehind, OfType
<1>3. CASE e.type = "task_assigned"
  <2>1. v.plan = None /\ w.epoch = v.epoch
    BY <1>3, AssignedApplies
  <2>2. QED
    BY <1>1, <2>1 DEF EpochBehind, OfType
<1>4. CASE e.type = "task_replan"
  <2>1. w.epoch = v.epoch + 1
    BY <1>4, ReplanApplies
  <2>2. QED
    BY <1>1, <2>1 DEF EpochBehind, OfType
<1>5. CASE e.type \notin {"bid_round_opened", "task_assigned", "task_replan"}
  <2>1. w.plan = v.plan /\ w.epoch = v.epoch
    BY <1>5, CompletedApplies, OthersKeepPlan DEF PlanTypes
  <2>2. QED
    BY <2>1 DEF EpochBehind
<1>6. QED
  BY <1>2, <1>3, <1>4, <1>5

\* So is the event that was just accepted.
LEMMA BehindBegins ==
    ASSUME NEW v \in View, NEW e \in Event, Accepted(v, e), NEW tr
    PROVE  EpochBehind(e, tr, Apply(v, e))
<1>1. e.type = "task_replan" => e.from < Apply(v, e).epoch
  <2>1. ASSUME e.type = "task_replan" PROVE e.from < Apply(v, e).epoch
    <3>1. e.from = v.epoch /\ Apply(v, e).epoch = v.epoch + 1 /\ v.epoch \in Nat
      BY <2>1, ReplanApplies DEF View
    <3>2. QED
      BY <3>1
  <2>2. QED
    BY <2>1
<1>2. e.type = "task_assigned" => Apply(v, e).epoch = e.epoch /\ Apply(v, e).plan # None
  <2>1. ASSUME e.type = "task_assigned"
        PROVE  Apply(v, e).epoch = e.epoch /\ Apply(v, e).plan # None
    <3>1. v.epoch = e.epoch /\ Apply(v, e).epoch = v.epoch /\ Apply(v, e).plan # None
      BY <2>1, AssignedApplies
    <3>2. QED
      BY <3>1
  <2>2. QED
    BY <2>1
<1>3. QED
  BY <1>1, <1>2 DEF EpochBehind, OfType

-----------------------------------------------------------------------------
(* What is pending.                                                        *)

\* What an accepted replan consumes was pending, and is not any more.
LEMMA ReplanConsumes ==
    ASSUME NEW v \in View, NEW e \in Event, Accepted(v, e), e.type = "task_replan"
    PROVE  /\ e.refs \cup {e.cause} \subseteq v.pending
           /\ Apply(v, e).pending = v.pending \ (e.refs \cup {e.cause})
<1>1. AcceptsReplan(v, e)
  BY AcceptedGated DEF Accepted, GatedTypes
<1>2. QED
  BY <1>1, ReplanApplies DEF AcceptsReplan

\* How an accepted event changes what is pending.
LEMMA PendingApplies ==
    ASSUME NEW v \in View, NEW e \in Event, Accepted(v, e), v.terminal = None,
           Apply(v, e).terminal = None
    PROVE  /\ e.type = "clue" => Apply(v, e).pending = v.pending \cup {e.id}
           /\ e.type = "task_replan" =>
                 Apply(v, e).pending = v.pending \ (e.refs \cup {e.cause})
           /\ e.type = "task_assigned" => Apply(v, e).pending = v.pending \ e.refs
           /\ e.type \notin {"clue", "task_replan", "task_assigned"} =>
                 Apply(v, e).pending = v.pending
<1>1. e.type = "clue" => Apply(v, e).pending = v.pending \cup {e.id}
  BY DEF Apply, TerminalTypes, View
<1>3. ASSUME e.type = "task_assigned" PROVE Apply(v, e).pending = v.pending \ e.refs
  <2>1. AcceptsAssigned(v, e)
    BY <1>3, AcceptedGated DEF Accepted, GatedTypes
  <2>2. Apply(v, e) = ApplyAssigned(v, e)
    BY <1>3 DEF Apply, TerminalTypes
  <2>3. QED
    BY <2>1, <2>2 DEF AcceptsAssigned, ApplyAssigned, View
<1>4. ASSUME e.type \notin {"clue", "task_replan", "task_assigned"}
      PROVE  Apply(v, e).pending = v.pending
  <2>1. CASE e.type \in TerminalTypes
    <3>1. Accepts(v, e)
      BY <2>1 DEF Accepted, GatedTypes, TerminalTypes
    <3>2. Apply(v, e).terminal = e.id /\ e.id # None
      BY <2>1, <3>1, AcceptedTerminal, EventShape, NoneAssumption
    <3>3. QED
      BY <3>2
  <2>2. CASE e.type \notin TerminalTypes
    <3>1. Apply(v, e) \in {v, ApplyPosted(v, e), ApplyRound(v, e), ApplyIntent(v, e),
                           ApplyCompleted(v, e)}
      BY <1>4, <2>2 DEF Apply, TerminalTypes
    <3>2. QED
      BY <3>1 DEF ApplyPosted, ApplyRound, ApplyIntent, ApplyCompleted, View
  <2>3. QED
    BY <2>1, <2>2
<1>5. QED
  BY <1>1, <1>3, <1>4, ReplanConsumes

\* A view that is not ended has not been: the terminal freezes it.
LEMMA Frozen ==
    ASSUME NEW v, NEW e, v.terminal # None
    PROVE  Apply(v, e) = v
  BY DEF Apply

\* Nothing of a terminated view is pending.
LEMMA PendingShrinks ==
    ASSUME NEW v \in View, NEW e \in Event, Accepted(v, e)
    PROVE  Apply(v, e).pending \subseteq v.pending \cup (IF e.type = "clue" THEN {e.id} ELSE {})
<1>1. CASE v.terminal # None
  BY <1>1, Frozen
<1>2. CASE v.terminal = None /\ Apply(v, e).terminal = None
  <2>1. CASE e.type = "clue"
    BY <1>2, <2>1, PendingApplies
  <2>2. CASE e.type = "task_replan"
    BY <2>2, ReplanConsumes
  <2>3. CASE e.type = "task_assigned"
    <3>1. Apply(v, e).pending = v.pending \ e.refs
      BY <1>2, <2>3, PendingApplies
    <3>2. QED
      BY <3>1
  <2>4. CASE e.type \notin {"clue", "task_replan", "task_assigned"}
    BY <1>2, <2>4, PendingApplies
  <2>5. QED
    BY <2>1, <2>2, <2>3, <2>4
<1>3. CASE v.terminal = None /\ Apply(v, e).terminal # None
  <2>1. e.type \in TerminalTypes
    BY <1>3, ApplyKeepsTerminal
  <2>2. Apply(v, e) = ApplyTerminal(v, e)
    BY <1>3, <2>1 DEF Apply, TerminalTypes
  <2>3. Apply(v, e).pending \in {v.pending, {}}
    BY <2>2 DEF ApplyTerminal, View
  <2>4. QED
    BY <2>3
<1>4. QED
  BY <1>1, <1>2, <1>3

\* A pending clue stays pending, unless the event ends the task or names it.
LEMMA PendingOrTaken ==
    ASSUME NEW v \in View, NEW e \in Event, Accepted(v, e),
           NEW id, v.terminal # None \/ id \in v.pending
    PROVE  \/ Apply(v, e).terminal # None
           \/ id \in Apply(v, e).pending
           \/ e.type = "task_replan" /\ id \in e.refs \cup {e.cause}
           \/ e.type = "task_assigned" /\ id \in e.refs
<1>1. CASE v.terminal # None
  BY <1>1, Frozen
<1>2. CASE v.terminal = None /\ Apply(v, e).terminal = None
  <2>1. CASE e.type = "clue"
    BY <1>2, <2>1, PendingApplies
  <2>2. CASE e.type = "task_replan"
    BY <1>2, <2>2, ReplanConsumes
  <2>3. CASE e.type = "task_assigned"
    <3>1. Apply(v, e).pending = v.pending \ e.refs
      BY <1>2, <2>3, PendingApplies
    <3>2. QED
      BY <1>2, <2>3, <3>1
  <2>4. CASE e.type \notin {"clue", "task_replan", "task_assigned"}
    BY <1>2, <2>4, PendingApplies
  <2>5. QED
    BY <2>1, <2>2, <2>3, <2>4
<1>3. QED
  BY <1>1, <1>2

-----------------------------------------------------------------------------
(* Induction on positions.  No induction principle can be instantiated     *)
(* here, so each induction picks the least counterexample: the sets        *)
(* Below(x) of a finite set have a smallest one under inclusion.           *)

LEMMA WellFoundedSubsets ==
    ASSUME NEW I, IsFiniteSet(I), NEW T, T \subseteq SUBSET I, T # {}
    PROVE  \E t \in T : \A u \in T : u \subseteq t => u = t
<1>1. FiniteSubsetsOf(I) = SUBSET I
  BY FS_FiniteSubsetsOfFinite
<1>2. IsWellFoundedOn(StrictSubsetOrdering(I), SUBSET I)
  BY <1>1, FS_StrictSubsetOrderingWellFounded
<1>3. PICK t \in T : \A u \in T : ~ (<<u, t>> \in StrictSubsetOrdering(I))
  BY ONLY <1>2, T \subseteq SUBSET I, T # {}, WFMin
<1>4. QED
  BY <1>3 DEF StrictSubsetOrdering

LEMMA SmallestOf ==
    ASSUME NEW n \in Nat, NEW S, S \subseteq 0 .. n, S # {}
    PROVE  \E x \in S : \A y \in S : x <= y
<1> DEFINE Below(x) == {y \in S : y < x}
<1>1. IsFiniteSet(0 .. n)
  BY FS_Interval
<1>2. {Below(x) : x \in S} \subseteq SUBSET (0 .. n) /\ {Below(x) : x \in S} # {}
  OBVIOUS
<1>3. PICK t \in {Below(x) : x \in S} : \A u \in {Below(x) : x \in S} : u \subseteq t => u = t
  <2> DEFINE T == {Below(x) : x \in S}
             I == 0 .. n
  <2>1. T \subseteq SUBSET I /\ T # {} /\ IsFiniteSet(I)
    BY <1>1, <1>2
  <2> HIDE DEF T, I
  <2>2. \E t \in T : \A u \in T : u \subseteq t => u = t
    BY <2>1, WellFoundedSubsets
  <2>3. QED
    BY <2>2 DEF T
<1>4. PICK x \in S : t = Below(x)
  BY <1>3
<1>5. \A y \in S : ~(y < x)
  <2>1. SUFFICES ASSUME NEW y \in S, y < x PROVE FALSE
    OBVIOUS
  <2>2. x \in Int /\ y \in Int /\ \A z \in S : z \in Int
    OBVIOUS
  <2>3. \A z \in S : z < y => z < x
    BY <2>1, <2>2
  <2>4. Below(y) \subseteq Below(x)
    BY <2>3
  <2>5. y \in Below(x) /\ y \notin Below(y)
    BY <2>1, <2>2
  <2>6. Below(y) = Below(x)
    BY <1>3, <1>4, <2>4
  <2>7. QED
    BY <2>5, <2>6
<1>6. QED
  BY <1>5

LEMMA LargestOf ==
    ASSUME NEW n \in Nat, NEW S, S \subseteq 0 .. n, S # {}
    PROVE  \E x \in S : \A y \in S : y <= x
<1> DEFINE T == {n - y : y \in S}
<1>1. T \subseteq 0 .. n /\ T # {}
  <2>1. \A y \in S : n - y \in 0 .. n
    OBVIOUS
  <2>2. QED
    BY <2>1
<1>2. PICK x \in T : \A y \in T : x <= y
  <2> HIDE DEF T
  <2> QED BY <1>1, SmallestOf
<1>3. PICK z \in S : x = n - z
  BY <1>2
<1>4. \A y \in S : y <= z
  BY <1>2, <1>3
<1>5. QED
  BY <1>4
=============================================================================
