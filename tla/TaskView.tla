------------------------------ MODULE TaskView ------------------------------
(***************************************************************************)
(* The coordination view of ONE task revision, and the transition gate the *)
(* Blackboard applies before it commits an event of that revision.         *)
(*                                                                         *)
(*   Apply(v, e)    one iteration of the fold _task_coordination_view      *)
(*   Accepts(v, e)  _validate_v2_transition_locked, as a predicate: TRUE   *)
(*                  iff the gate returns no rejection code                 *)
(*                                                                         *)
(* The two were written separately in the code (board.py and view.py) and  *)
(* have to agree: an event the gate commits and the fold then ignores      *)
(* occupies an index for ever without having happened.                     *)
(*                                                                         *)
(* Events are the schema-version-2 events plus the one legacy event the    *)
(* fold special-cases, a CLUE without task_revision.  The schema           *)
(* (validation.py) forces assignment_epoch = coordination_epoch and        *)
(* to_epoch = from_epoch + 1, so neither second field is carried.          *)
(***************************************************************************)
EXTENDS Integers, FiniteSets

CONSTANTS
    Tasks,          \* task ids
    Revs,           \* task revisions
    EventIds,       \* event ids
    Keys,           \* idempotency keys
    PlanIds,        \* plan ids
    AssignmentIds,  \* assignment ids
    None            \* the absent value

ASSUME RevsAssumption == Revs \subseteq Nat \ {0} /\ 1 \in Revs

ASSUME NoneAssumption ==
    /\ None \notin EventIds
    /\ None \notin Keys
    /\ None \notin Revs
    /\ None \notin [epoch : Nat, number : Nat]
    /\ None \notin [id : PlanIds, epoch : Nat, asgs : SUBSET AssignmentIds]

-----------------------------------------------------------------------------
(* Events, one record set per shape of payload.                            *)

TerminalTypes == {"task_done", "task_failed"}

GatedTypes == {"task_posted", "bid_round_opened", "task_assigned",
               "action_intent", "task_replan"} \cup TerminalTypes

PostedEvent ==
    [type : {"task_posted"}, task : Tasks, rev : Revs,
     id : EventIds, key : Keys \cup {None}]

RoundEvent ==
    [type : {"bid_round_opened"}, task : Tasks, rev : Revs,
     id : EventIds, key : Keys \cup {None},
     epoch : Nat \ {0}, number : Nat \ {0}]

AssignedEvent ==
    [type : {"task_assigned"}, task : Tasks, rev : Revs,
     id : EventIds, key : Keys \cup {None},
     epoch : Nat \ {0}, plan : PlanIds, asgs : SUBSET AssignmentIds,
     refs : SUBSET EventIds]

WorkEvent ==
    [type : {"action_intent", "assignment_completed"}, task : Tasks, rev : Revs,
     id : EventIds, key : Keys \cup {None},
     epoch : Nat \ {0}, plan : PlanIds, asg : AssignmentIds]

ClueEvent ==
    [type : {"clue"}, task : Tasks, rev : Revs \cup {None},
     id : EventIds, key : Keys \cup {None}]

ReplanEvent ==
    [type : {"task_replan"}, task : Tasks, rev : Revs,
     id : EventIds, key : Keys \cup {None},
     from : Nat, cause : EventIds, refs : SUBSET EventIds]

DoneEvent ==
    [type : {"task_done"}, task : Tasks, rev : Revs,
     id : EventIds, key : Keys \cup {None},
     epoch : Nat \ {0}, plan : PlanIds, done : SUBSET AssignmentIds]

FailedEvent ==
    [type : {"task_failed"}, task : Tasks, rev : Revs,
     id : EventIds, key : Keys \cup {None}, epoch : Nat]

\* good: success, outcome confirmed and allowed by the post check.
ReceiptEvent ==
    [type : {"receipt"}, task : Tasks, rev : Revs,
     id : EventIds, key : Keys \cup {None},
     epoch : Nat \ {0}, plan : PlanIds, asg : AssignmentIds, good : BOOLEAN]

InterceptEvent ==
    [type : {"safety_intercept"}, task : Tasks, rev : Revs,
     id : EventIds, key : Keys \cup {None},
     epoch : Nat \ {0}, plan : PlanIds, asg : AssignmentIds]

BidEvent ==
    [type : {"bid"}, task : Tasks, rev : Revs,
     id : EventIds, key : Keys \cup {None}]

\* An estop that names no task is carried with rev = None.
EstopEvent ==
    [type : {"estop"}, task : Tasks, rev : Revs \cup {None},
     id : EventIds, key : Keys \cup {None}]

Event == PostedEvent \cup RoundEvent \cup AssignedEvent \cup WorkEvent \cup
         ClueEvent \cup ReplanEvent \cup DoneEvent \cup FailedEvent \cup
         ReceiptEvent \cup InterceptEvent \cup BidEvent \cup EstopEvent

-----------------------------------------------------------------------------
(* The view.                                                               *)

Round == [epoch : Nat, number : Nat]
Plan  == [id : PlanIds, epoch : Nat, asgs : SUBSET AssignmentIds]

Statuses == {"unknown", "posted", "bidding", "assigned", "running",
             "replanning", "done", "failed"}

View ==
    [posted    : BOOLEAN,
     status    : Statuses,
     epoch     : Nat,
     round     : Round \cup {None},
     plan      : Plan \cup {None},
     completed : SUBSET AssignmentIds,
     pending   : SUBSET EventIds,
     terminal  : EventIds \cup {None}]

EmptyView ==
    [posted |-> FALSE, status |-> "unknown", epoch |-> 0, round |-> None,
     plan |-> None, completed |-> {}, pending |-> {}, terminal |-> None]

ReplanPending(v) == v.pending # {} /\ v.terminal = None

\* The first round of a task opens epoch 1; later ones stay in their epoch.
NextRoundEpoch(v) == IF v.epoch = 0 THEN 1 ELSE v.epoch

-----------------------------------------------------------------------------
(* The fold, one operator per branch.                                      *)

ApplyPosted(v, e) ==
    IF v.posted THEN v ELSE [v EXCEPT !.posted = TRUE, !.status = "posted"]

ApplyRound(v, e) ==
    IF /\ e.epoch = NextRoundEpoch(v)
       /\ v.plan = None
       /\ v.round # None => e.number > v.round.number
    THEN [v EXCEPT !.epoch  = e.epoch,
                   !.round  = [epoch |-> e.epoch, number |-> e.number],
                   !.status = "bidding"]
    ELSE v

ApplyAssigned(v, e) ==
    IF /\ e.epoch = v.epoch
       /\ v.round # None
       /\ v.plan # None => v.plan.id = e.plan
    THEN [v EXCEPT !.plan      = [id |-> e.plan, epoch |-> e.epoch, asgs |-> e.asgs],
                   !.round     = None,
                   !.status    = "assigned",
                   !.completed = IF v.plan = None THEN {} ELSE @,
                   !.pending   = @ \ e.refs]
    ELSE v

ApplyIntent(v, e) ==
    IF v.plan # None /\ e.epoch = v.epoch /\ e.plan = v.plan.id
    THEN [v EXCEPT !.status = "running"]
    ELSE v

\* Mutant: a completion of a replaced plan counts for the current one.
ApplyCompleted_AnyPlan(v, e) ==
    IF v.plan # None /\ e.asg \in v.plan.asgs
    THEN [v EXCEPT !.completed = @ \cup {e.asg}]
    ELSE v

ApplyCompleted(v, e) ==
    IF v.plan # None /\ e.plan = v.plan.id /\ e.epoch = v.plan.epoch
       /\ e.asg \in v.plan.asgs
    THEN [v EXCEPT !.completed = @ \cup {e.asg}]
    ELSE v

\* Mutant: only the cause is consumed, the other evidence stays pending.
ApplyReplan_KeepsRefs(v, e) ==
    IF e.from = v.epoch /\ e.cause \in v.pending /\ e.refs \subseteq v.pending
    THEN [v EXCEPT !.pending = @ \ {e.cause}, !.epoch = e.from + 1, !.round = None,
                   !.plan = None, !.completed = {}, !.status = "replanning"]
    ELSE v

\* Mutant: the plan survives its epoch.
ApplyReplan_KeepsPlan(v, e) ==
    IF e.from = v.epoch /\ e.cause \in v.pending /\ e.refs \subseteq v.pending
    THEN [v EXCEPT !.pending = @ \ (e.refs \cup {e.cause}), !.epoch = e.from + 1,
                   !.round = None, !.completed = {}, !.status = "replanning"]
    ELSE v

ApplyReplan(v, e) ==
    IF /\ e.from = v.epoch
       /\ e.cause \in v.pending
       /\ e.refs \subseteq v.pending
    THEN [v EXCEPT !.pending   = @ \ (e.refs \cup {e.cause}),
                   !.epoch     = e.from + 1,
                   !.round     = None,
                   !.plan      = None,
                   !.completed = {},
                   !.status    = "replanning"]
    ELSE v

\* Mutant: the event type is stored as the status.
ApplyTerminal_RawStatus(v, e) ==
    IF e.epoch = v.epoch
    THEN [v EXCEPT !.terminal = e.id, !.round = None, !.status = e.type,
                   !.pending = {}]
    ELSE v

ApplyTerminal(v, e) ==
    IF /\ e.epoch = v.epoch
       /\ e.type = "task_done" =>
             /\ v.plan # None
             /\ v.plan.id = e.plan
             /\ v.plan.asgs # {}
             /\ v.plan.asgs \subseteq v.completed
    THEN [v EXCEPT !.terminal = e.id,
                   !.round    = None,
                   !.status   = IF e.type = "task_done" THEN "done" ELSE "failed",
                   !.pending  = {}]
    ELSE v

\* The first terminal freezes the view: every later event is skipped.
Apply(v, e) ==
    IF v.terminal # None THEN v ELSE
    CASE e.type = "task_posted"          -> ApplyPosted(v, e)
      [] e.type = "bid_round_opened"     -> ApplyRound(v, e)
      [] e.type = "task_assigned"        -> ApplyAssigned(v, e)
      [] e.type = "action_intent"        -> ApplyIntent(v, e)
      [] e.type = "assignment_completed" -> ApplyCompleted(v, e)
      [] e.type = "clue"                 -> [v EXCEPT !.pending = @ \cup {e.id}]
      [] e.type = "task_replan"          -> ApplyReplan(v, e)
      [] e.type \in TerminalTypes        -> ApplyTerminal(v, e)
      [] OTHER                           -> v

-----------------------------------------------------------------------------
(* The gate, one operator per gated type.  v is the view of the committed  *)
(* prefix.  TASK_POSTED is gated on the log itself (module Board).         *)

\* Mutant: a round of the same epoch need not advance.
AcceptsRound_AnyNumber(v, e) == e.epoch = NextRoundEpoch(v) /\ v.plan = None

AcceptsRound(v, e) ==
    /\ e.epoch = NextRoundEpoch(v)
    /\ v.plan = None
    /\ v.round # None =>
          ~(e.epoch = v.round.epoch /\ e.number <= v.round.number)

AcceptsAssigned(v, e) ==
    /\ e.epoch = v.epoch
    /\ v.round # None
    /\ v.plan = None

\* Mutant: the gate checks the assignment but not the plan it belongs to.
AcceptsIntent_AnyPlan(v, e) == v.plan # None /\ e.asg \in v.plan.asgs

AcceptsIntent(v, e) ==
    /\ e.epoch = v.epoch
    /\ v.plan # None
    /\ e.plan = v.plan.id
    /\ e.asg \in v.plan.asgs
    /\ e.epoch = v.plan.epoch     \* its assignment_epoch is the plan's

AcceptsReplan(v, e) ==
    /\ e.from = v.epoch
    /\ e.cause \in v.pending
    /\ e.refs \subseteq v.pending

AcceptsDone(v, e) ==
    /\ e.epoch = v.epoch
    /\ v.plan # None
    /\ e.plan = v.plan.id
    /\ v.plan.asgs # {}
    /\ v.plan.asgs \subseteq v.completed
    /\ e.done = v.completed

\* Mutant: a failure of any epoch ends the task.
AcceptsFailed_AnyEpoch(v, e) == TRUE

AcceptsFailed(v, e) == e.epoch = v.epoch

Accepts(v, e) ==
    e.type \in GatedTypes =>
        /\ v.posted
        /\ v.terminal = None
        /\ e.type = "bid_round_opened" => AcceptsRound(v, e)
        /\ e.type = "task_assigned"    => AcceptsAssigned(v, e)
        /\ e.type = "action_intent"    => AcceptsIntent(v, e)
        /\ e.type = "task_replan"      => AcceptsReplan(v, e)
        /\ e.type = "task_done"        => AcceptsDone(v, e)
        /\ e.type = "task_failed"      => AcceptsFailed(v, e)
=============================================================================
