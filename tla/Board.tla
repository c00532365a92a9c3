-------------------------------- MODULE Board --------------------------------
(***************************************************************************)
(* The in-process Blackboard: an append-only log shared by every actor.    *)
(*                                                                         *)
(* Blackboard.append validates the schema, then under one lock consults    *)
(* the idempotency, terminal and id indexes, applies the transition gate   *)
(* and either commits the event or returns an explicit result.  A call is  *)
(* therefore one atomic step, and a call that does not commit leaves the   *)
(* Blackboard alone.  Producers are arbitrary: any event in Offered may be *)
(* offered at any time, any number of times (retries, stale producers,     *)
(* restarts).                                                              *)
(*                                                                         *)
(* The code refolds the whole log for every query.  The fold is a left     *)
(* fold of the log, so the model carries its value for every task revision *)
(* in the variable view and the accumulator of _effective_task_revisions   *)
(* in latest; FoldIsIncremental checks them against a fold from scratch.   *)
(***************************************************************************)
EXTENDS TaskView, Sequences

CONSTANTS
    Offered,    \* the schema-valid events producers may offer
    MaxLog      \* bound on the log, for model checking

ASSUME OfferedAssumption == Offered \subseteq Event

ASSUME MaxLogAssumption == MaxLog \in Nat

VARIABLES
    log,         \* _events; the event at position n has version n
    byId,        \* _event_id_index:    version, or 0 for no entry
    byKey,       \* _idempotency_index: version, or 0
    byTerminal,  \* _terminal_index:    version, or 0
    latest,      \* newest revision posted, per task (1 before any)
    view         \* the coordination view, per task revision

vars == <<log, byId, byKey, byTerminal, latest, view>>

TaskRevs == Tasks \X Revs

Init ==
    /\ log = << >>
    /\ byId = [i \in EventIds |-> 0]
    /\ byKey = [k \in Keys |-> 0]
    /\ byTerminal = [tr \in TaskRevs |-> 0]
    /\ latest = [t \in Tasks |-> 1]
    /\ view = [tr \in TaskRevs |-> EmptyView]

-----------------------------------------------------------------------------
Committed == DOMAIN log

IsTerminal(e) == e.type \in TerminalTypes

\* The revision an event counts for: its own, or, for a legacy CLUE without
\* one, the newest revision already posted at its position in the stream.
EffectiveRev(e) == IF e.rev = None THEN latest[e.task] ELSE e.rev

Target(e) == <<e.task, EffectiveRev(e)>>

TerminalEntry(e) ==
    IF IsTerminal(e) THEN byTerminal[<<e.task, e.rev>>] ELSE 0

\* Mutant: the idempotency key is not looked up.
KeyEntry_Ignored(e) == 0

KeyEntry(e) == IF e.key = None THEN 0 ELSE byKey[e.key]

SameTerminalKey(e, f) ==
    IsTerminal(e) /\ IsTerminal(f) /\ e.task = f.task /\ e.rev = f.rev

AlreadyPosted(e) ==
    \E n \in Committed :
        log[n].type = "task_posted" /\ log[n].task = e.task /\ log[n].rev = e.rev

\* _validate_v2_transition_locked on the committed prefix.
GateAccepts(e) ==
    IF e.type = "task_posted"
    THEN ~AlreadyPosted(e)
    ELSE Accepts(view[Target(e)], e)

\* The status append returns.  Equality of events is canonical equality.
Outcome(e) ==
    LET k == KeyEntry(e)
        t == TerminalEntry(e)
        i == byId[e.id]
    IN  CASE k # 0 -> IF log[k] = e THEN "DUPLICATE_SAME"
                      ELSE IF SameTerminalKey(e, log[k])
                      THEN "TERMINAL_CONFLICT" ELSE "KEY_CONFLICT"
          [] k = 0 /\ t # 0 ->
                      IF log[t] = e THEN "DUPLICATE_SAME" ELSE "TERMINAL_CONFLICT"
          [] k = 0 /\ t = 0 /\ i # 0 ->
                      IF log[i] = e THEN "DUPLICATE_SAME" ELSE "KEY_CONFLICT"
          [] k = 0 /\ t = 0 /\ i = 0 ->
                      IF GateAccepts(e) THEN "APPENDED" ELSE "REJECTED"

LatestAfter(e) ==
    IF e.type = "task_posted"
    THEN [latest EXCEPT ![e.task] = IF e.rev > @ THEN e.rev ELSE @]
    ELSE latest

Commit(e) ==
    LET version == Len(log) + 1
    IN  /\ log' = Append(log, e)
        /\ byId' = [byId EXCEPT ![e.id] = version]
        /\ byKey' = IF e.key = None THEN byKey
                    ELSE [byKey EXCEPT ![e.key] = version]
        /\ byTerminal' = IF IsTerminal(e)
                         THEN [byTerminal EXCEPT ![<<e.task, e.rev>>] = version]
                         ELSE byTerminal
        /\ latest' = LatestAfter(e)
        /\ view' = [view EXCEPT ![Target(e)] = Apply(@, e)]

\* One call of append.
Offer(e) ==
    /\ Len(log) < MaxLog
    /\ IF Outcome(e) = "APPENDED" THEN Commit(e) ELSE UNCHANGED vars

Next == \E e \in Offered : Offer(e)

Spec == Init /\ [][Next]_vars

-----------------------------------------------------------------------------
(* Properties.                                                             *)

\* Event n is an event of type ty of the task revision tr.
Is(n, ty, tr) == log[n].type = ty /\ <<log[n].task, log[n].rev>> = tr

\* Every variable keeps its shape; indexes and views stay total.
TypeOK ==
    /\ log \in Seq(Offered)
    /\ byId \in [EventIds -> Nat]
    /\ byKey \in [Keys -> Nat]
    /\ byTerminal \in [TaskRevs -> Nat]
    /\ latest \in [Tasks -> Revs]
    /\ view \in [TaskRevs -> View]

\* Retries, restarts and competing producers never commit the same thing
\* twice: ids, idempotency keys and task terminals are unique in the log.
CommittedOnce ==
    \A m, n \in Committed :
        m # n => /\ log[m].id # log[n].id
                 /\ log[m].key # None => log[m].key # log[n].key
                 /\ ~SameTerminalKey(log[m], log[n])

\* The promise in the docstring of _validate_v2_transition_locked: a stale
\* terminal never wins the terminal key and blocks the real one.  A terminal
\* occupies the index exactly when the fold took it as the task's terminal.
TerminalOwnership ==
    \A tr \in TaskRevs :
        /\ byTerminal[tr] # 0 <=> view[tr].terminal # None
        /\ byTerminal[tr] # 0 =>
              /\ byTerminal[tr] \in Committed
              /\ log[byTerminal[tr]].id = view[tr].terminal

\* The gate and the fold agree: an ownership event that was committed has
\* its effect on the view (ACTION_INTENT may repeat "running").
TookEffect(e, v, w) ==
    CASE e.type = "task_posted"      -> w.posted /\ ~v.posted
      [] e.type = "bid_round_opened" -> w.round = [epoch |-> e.epoch, number |-> e.number]
                                        /\ w # v
      [] e.type = "task_assigned"    -> w.plan # None /\ w.plan # v.plan
      [] e.type = "action_intent"    -> w.status = "running"
      [] e.type = "task_replan"      -> w.epoch = v.epoch + 1 /\ e.cause \notin w.pending
      [] OTHER                       -> v.terminal = None /\ w.terminal = e.id

CommittedTakesEffect ==
    [][\A e \in Offered :
         log' = Append(log, e) /\ e.type \in GatedTypes
           => TookEffect(e, view[Target(e)], view'[Target(e)])]_vars

\* An ACTION_INTENT is committed only under the plan that was current at its
\* commit: a TASK_ASSIGNED with its plan, epoch and assignment precedes it and
\* neither a replan of that epoch nor a terminal lies in between.
IntentsUnderCurrentPlan ==
    \A n \in Committed : log[n].type = "action_intent" =>
        LET tr == <<log[n].task, log[n].rev>>
        IN  /\ \E m \in 1 .. n - 1 :
                 /\ Is(m, "task_assigned", tr)
                 /\ log[m].epoch = log[n].epoch
                 /\ log[m].plan = log[n].plan
                 /\ log[n].asg \in log[m].asgs
                 /\ \A k \in Committed \ {m} :
                      Is(k, "task_assigned", tr) => log[k].epoch # log[n].epoch
            /\ \A k \in 1 .. n - 1 :
                 /\ Is(k, "task_replan", tr) => log[k].from < log[n].epoch
                 /\ ~(\E ty \in TerminalTypes : Is(k, ty, tr))

\* TASK_DONE is earned: every assignment of the plan of its epoch has an
\* ASSIGNMENT_COMPLETED of that very epoch before it.  Late completions of a
\* replaced plan are committed too (they are not gated) and must not count.
DoneIsEarned ==
    \A tr \in TaskRevs : \A n \in Committed : Is(n, "task_done", tr) =>
        \E m \in 1 .. n - 1 :
            /\ Is(m, "task_assigned", tr)
            /\ log[m].epoch = log[n].epoch
            /\ log[m].plan = log[n].plan
            /\ \A a \in log[m].asgs : \E k \in m + 1 .. n - 1 :
                  /\ Is(k, "assignment_completed", tr)
                  /\ log[k].epoch = log[n].epoch
                  /\ log[k].plan = log[n].plan
                  /\ log[k].asg = a

-----------------------------------------------------------------------------
(* Refinement: the views of the Blackboard implement the task lifecycle.   *)

PhaseOf(v) ==
    IF v.terminal # None THEN v.status
    ELSE IF v.plan # None THEN "planned"
    ELSE IF v.round # None THEN "bidding"
    ELSE IF v.posted THEN "idle" ELSE "absent"

Lifecycle == INSTANCE TaskLifecycle WITH
    Revisions <- TaskRevs,
    phase <- [tr \in TaskRevs |-> PhaseOf(view[tr])],
    epoch <- [tr \in TaskRevs |-> view[tr].epoch]

\* Whatever producers offer, retry or replay, every task revision follows the
\* lifecycle of TaskLifecycle, and evidence never moves it.
ImplementsLifecycle == Lifecycle!Spec
=============================================================================
