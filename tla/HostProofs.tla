------------------------------ MODULE HostProofs ------------------------------
(***************************************************************************)
(* The host of one robot, whatever the other actors append, wherever the   *)
(* process crashes and whatever is read again.                             *)
(*                                                                         *)
(* SentAtMostOnce, as long as a task has one revision: an action is sent   *)
(* to the robot at most once.  The host may read rounds and replans it     *)
(* consumed long ago again, after an assignment that had to wait.  The     *)
(* argument: such a round or replan lies before the assignment of any      *)
(* action that was carried out, the offset has passed that assignment, and *)
(* so the process ends at SaveOffset before it gets as far as the          *)
(* assignment.                                                             *)
(*                                                                         *)
(* ReportsAreTrue: what is announced, and what is reported of it, at every *)
(* step from the job through the outbox to the log.                        *)
(*                                                                         *)
(* TypeHolds: the positions and sizes that ShapeInv leaves open.           *)
(*                                                                         *)
(* NoneSkipped, as long as a task has one revision: nothing lies before    *)
(* the offset, the input in hand or an input of the mailbox that was       *)
(* neither dealt with nor is to come before it; and a session knows of no  *)
(* epoch and of no action begun that the log does not know of, so that the *)
(* loop ignores only what is over.                                         *)
(*                                                                         *)
(* RawKept: a raw receipt is marked stale only after its outcome was       *)
(* appended.  From the mark on, the RECEIPT is in the process's hands and  *)
(* cannot be refused, or it is on the log already, and no file of another  *)
(* action has the same key.                                                *)
(*                                                                         *)
(* IntentsAreAnswered, if nobody else announces this host's actions or     *)
(* takes the names of its events: without a crash an announced action is   *)
(* answered before the host goes on or ends.  The gate refuses intents     *)
(* alone, an answer whose name is taken finds an answer of the same action *)
(* there, and no intent reaches the log from the outbox, where nobody      *)
(* would answer it.                                                        *)
(***************************************************************************)
EXTENDS AgentHost, TaskViewProofs, FiniteSetTheorems

OneRevision == Revs = {1}

-----------------------------------------------------------------------------
(* What the log says of actions.                                           *)

\* Position n is the assignment that makes a an action of this robot.
Home(n, a) ==
    n \in DOMAIN log /\ log[n].type = "task_assigned" /\ ForMe(log[n]) /\ a = MyAct(log[n])

\* The events that move the epoch of a session, and the epoch they come from.
Moves(f, tr) == OfType(f, "bid_round_opened", tr) \/ OfType(f, "task_replan", tr)

EpochMoved(f) == IF f.type = "task_replan" THEN f.from ELSE f.epoch

\* Position p is such an event, before the assignment of a.
Early(p, a) ==
    p \in DOMAIN log /\ Moves(log[p], <<a.task, a.rev>>) /\ \E h \in DOMAIN log : Home(h, a) /\ p < h

\* a is of the current plan of a task that is not over.
Live(a) == view[<<a.task, a.rev>>].epoch = a.epoch /\ view[<<a.task, a.rev>>].terminal = None

LogShape ==
    /\ log \in Seq(Event)
    /\ \A n \in DOMAIN log : log[n] \in Offered \/ log[n].type \in HostTypes

RoundOf(v) == v.round # None => v.round.epoch = v.epoch /\ v.epoch # 0

ViewsOK == view \in [TaskRevs -> View] /\ \A tr \in TaskRevs : RoundOf(view[tr])

EpochsBehind == \A n \in DOMAIN log, tr \in TaskRevs : EpochBehind(log[n], tr, view[tr])

OnePlanPerEpoch ==
    \A m, n \in DOMAIN log, tr \in TaskRevs :
        /\ OfType(log[m], "task_assigned", tr) /\ OfType(log[n], "task_assigned", tr)
        /\ log[m].epoch = log[n].epoch
        => m = n

\* What moves the epoch before that of an assignment lies before it.
MovesInTurn ==
    \A m, n \in DOMAIN log, tr \in TaskRevs :
        /\ OfType(log[m], "task_assigned", tr) /\ Moves(log[n], tr)
        /\ EpochMoved(log[n]) < log[m].epoch
        => n < m

EndsSeen ==
    \A n \in DOMAIN log : log[n].type \in TerminalTypes =>
        view[<<log[n].task, log[n].rev>>].terminal # None

IndexShape ==
    byId \in [EventIds -> 0 .. Len(log)] /\ byKey \in [Keys -> 0 .. Len(log)]

LogInv ==
    /\ LogShape /\ IndexShape /\ ViewsOK /\ EpochsBehind
    /\ OnePlanPerEpoch /\ MovesInTurn /\ EndsSeen

-----------------------------------------------------------------------------
(* A commit, by the host or by anybody else.                               *)

LEMMA SameApply ==
    ASSUME NEW v, NEW e
    PROVE  Bd!Apply(v, e) = Apply(v, e)
  BY DEF Bd!Apply, Apply, Bd!ApplyPosted, ApplyPosted, Bd!ApplyRound, ApplyRound,
         Bd!NextRoundEpoch, NextRoundEpoch, Bd!ApplyAssigned, ApplyAssigned,
         Bd!ApplyIntent, ApplyIntent, Bd!ApplyCompleted, ApplyCompleted,
         Bd!ApplyReplan, ApplyReplan, Bd!ApplyTerminal, ApplyTerminal,
         Bd!TerminalTypes, TerminalTypes

LEMMA SameGate ==
    ASSUME NEW v, NEW e
    PROVE  Bd!Accepts(v, e) <=> Accepts(v, e)
  BY Zenon DEF Bd!Accepts, Accepts, Bd!AcceptsRound, AcceptsRound,
         Bd!NextRoundEpoch, NextRoundEpoch, Bd!AcceptsAssigned, AcceptsAssigned,
         Bd!AcceptsIntent, AcceptsIntent, Bd!AcceptsReplan, AcceptsReplan,
         Bd!AcceptsDone, AcceptsDone, Bd!AcceptsFailed, AcceptsFailed,
         Bd!TerminalTypes, TerminalTypes, Bd!GatedTypes, GatedTypes

\* The event that is committed passed the gate, and the fold applies it to
\* one view.
LEMMA Committed ==
    ASSUME NEW e \in Event, Bd!Outcome(e) = "APPENDED", Bd!Commit(e)
    PROVE  /\ log' = Append(log, e)
           /\ Accepted(view[Bd!Target(e)], e)
           /\ view' = [view EXCEPT ![Bd!Target(e)] = Apply(view[Bd!Target(e)], e)]
           /\ e.type \notin {"clue", "estop"} => Bd!Target(e) = <<e.task, e.rev>>
<1>1. Bd!GateAccepts(e)
  BY DEF Bd!Outcome
<1>2. Accepted(view[Bd!Target(e)], e)
  BY <1>1, SameGate DEF Bd!GateAccepts, Accepted, GatedTypes
<1>3. e.type \notin {"clue", "estop"} => Bd!Target(e) = <<e.task, e.rev>>
  BY EventShape, NoneAssumption DEF Bd!Target, Bd!EffectiveRev
<1>4. QED
  BY <1>2, <1>3, SameApply DEF Bd!Commit

\* The log before and after a commit; v and w are a view before and after.
LEMMA Grows ==
    ASSUME LogInv, NEW e \in Event, Bd!Outcome(e) = "APPENDED", Bd!Commit(e)
    PROVE  /\ Len(log) \in Nat /\ DOMAIN log = 1 .. Len(log)
           /\ log' \in Seq(Event) /\ DOMAIN log' = 1 .. Len(log) + 1
           /\ \A n \in DOMAIN log : log'[n] = log[n]
           /\ log'[Len(log) + 1] = e
  BY Committed DEF LogInv, LogShape

\* One task revision across a commit.
LEMMA ViewStep ==
    ASSUME LogInv, NEW e \in Event, Bd!Outcome(e) = "APPENDED", Bd!Commit(e),
           NEW tr \in TaskRevs
    PROVE  /\ view[tr] \in View /\ RoundOf(view[tr])
           /\ OfType(e, e.type, tr) /\ e.type \notin {"clue", "estop"} => Bd!Target(e) = tr
           /\ tr = Bd!Target(e) => view'[tr] = Apply(view[tr], e) /\ Accepted(view[tr], e)
           /\ tr # Bd!Target(e) => view'[tr] = view[tr]
  BY Committed DEF LogInv, ViewsOK, OfType

LEMMA ViewsStep ==
    ASSUME LogInv, NEW e \in Event, Bd!Outcome(e) = "APPENDED", Bd!Commit(e)
    PROVE  ViewsOK'
<1>1. view' \in [TaskRevs -> View]
  <2>1. ASSUME Bd!Target(e) \in TaskRevs
        PROVE  Apply(view[Bd!Target(e)], e) \in View
    BY <2>1, ApplyType DEF LogInv, ViewsOK
  <2>2. QED
    BY <2>1, Committed DEF LogInv, ViewsOK
<1>2. ASSUME NEW tr \in TaskRevs PROVE RoundOf(view'[tr])
  <2> DEFINE v == view[tr]
             w == Apply(v, e)
  <2>1. CASE tr # Bd!Target(e)
    BY <2>1, ViewStep
  <2>2. CASE tr = Bd!Target(e)
    <3>1. /\ view'[tr] = w /\ v \in View /\ Accepted(v, e)
          /\ v.round # None => v.round.epoch = v.epoch /\ v.epoch # 0
      BY <2>2, ViewStep DEF RoundOf
    <3>2. CASE e.type = "bid_round_opened"
      <4>1. w.round = [epoch |-> e.epoch, number |-> e.number] /\ e.epoch = w.epoch
        BY <3>1, <3>2, RoundApplies
      <4>2. e.epoch # 0
        BY <3>2, RoundShape
      <4>3. w.round.epoch = w.epoch /\ w.epoch # 0
        BY <4>1, <4>2
      <4>4. RoundOf(w)
        BY <4>3 DEF RoundOf
      <4>5. QED
        BY <3>1, <4>4
    <3>3. CASE e.type = "task_assigned"
      <4>1. w.round = None
        BY <3>1, <3>3, AssignedApplies
      <4>2. QED
        BY <3>1, <4>1 DEF RoundOf
    <3>4. CASE e.type = "task_replan"
      <4>1. w.round = None
        BY <3>1, <3>4, ReplanApplies
      <4>2. QED
        BY <3>1, <4>1 DEF RoundOf
    <3>5. CASE e.type = "assignment_completed"
      BY <3>1, <3>5, CompletedApplies DEF RoundOf
    <3>6. CASE e.type \notin PlanTypes
      BY <3>1, <3>6, OthersKeepPlan DEF RoundOf
    <3>7. QED
      BY <3>2, <3>3, <3>4, <3>5, <3>6 DEF PlanTypes
  <2>3. QED
    BY <2>1, <2>2
<1>3. QED
  BY <1>1, <1>2 DEF ViewsOK

LEMMA BehindStep ==
    ASSUME LogInv, NEW e \in Event, Bd!Outcome(e) = "APPENDED", Bd!Commit(e)
    PROVE  EpochsBehind'
<1>1. SUFFICES ASSUME NEW n \in DOMAIN log', NEW tr \in TaskRevs
               PROVE  EpochBehind(log'[n], tr, view'[tr])
  BY DEF EpochsBehind, EpochBehind, OfType
<1>2. CASE n \in DOMAIN log
  <2>1. log'[n] = log[n] /\ log[n] \in Event /\ EpochBehind(log[n], tr, view[tr])
    BY <1>2, Grows DEF LogInv, LogShape, EpochsBehind
  <2>2. CASE tr = Bd!Target(e)
    <3>1. /\ view'[tr] = Apply(view[tr], e) /\ view[tr] \in View /\ Accepted(view[tr], e)
          /\ view[tr].round # None => view[tr].round.epoch = view[tr].epoch /\ view[tr].epoch # 0
      BY <2>2, ViewStep DEF RoundOf
    <3>2. QED
      BY <2>1, <3>1, BehindStays
  <2>3. CASE tr # Bd!Target(e)
    BY <2>1, <2>3, ViewStep
  <2>4. QED
    BY <2>2, <2>3
<1>3. CASE n \notin DOMAIN log
  <2>1. log'[n] = e
    BY <1>3, Grows
  <2>2. CASE tr = Bd!Target(e)
    BY <2>1, <2>2, ViewStep, BehindBegins
  <2>3. CASE tr # Bd!Target(e)
    BY <2>1, <2>3, Committed DEF EpochBehind, OfType
  <2>4. QED
    BY <2>2, <2>3
<1>4. QED
  BY <1>2, <1>3

\* What is committed now comes from the epoch of the view or a later one.
LEMMA EpochOfNew ==
    ASSUME LogInv, NEW e \in Event, Bd!Outcome(e) = "APPENDED", Bd!Commit(e),
           NEW tr \in TaskRevs,
           NEW m \in DOMAIN log, OfType(log[m], "task_assigned", tr)
    PROVE  /\ Moves(e, tr) => ~(EpochMoved(e) < log[m].epoch)
           /\ OfType(e, "task_assigned", tr) => e.epoch # log[m].epoch
<1>1. /\ view[tr] \in View /\ view[tr].epoch \in Nat
      /\ view[tr].round # None => view[tr].round.epoch = view[tr].epoch /\ view[tr].epoch # 0
  BY ViewStep DEF View, RoundOf
<1>2. log[m].epoch \in Nat \ {0}
  BY AssignedShape DEF LogInv, LogShape, OfType
<1>3. log[m].epoch < view[tr].epoch \/ (log[m].epoch = view[tr].epoch /\ view[tr].plan # None)
  BY DEF LogInv, EpochsBehind, EpochBehind
<1>4. ASSUME OfType(e, "bid_round_opened", tr) PROVE ~(e.epoch < log[m].epoch)
  <2>1. Accepted(view[tr], e) /\ e.type = "bid_round_opened"
    BY <1>4, ViewStep DEF OfType
  <2>2. /\ view[tr].epoch # 0 => Apply(view[tr], e).epoch = view[tr].epoch
        /\ e.epoch = Apply(view[tr], e).epoch
    BY <1>1, <2>1, RoundApplies
  <2>3. QED
    BY <1>1, <1>2, <1>3, <2>1, <2>2, RoundShape
<1>5. ASSUME OfType(e, "task_replan", tr) PROVE ~(e.from < log[m].epoch)
  <2>1. Accepted(view[tr], e) /\ e.type = "task_replan"
    BY <1>5, ViewStep DEF OfType
  <2>2. e.from = view[tr].epoch
    BY <1>1, <2>1, ReplanApplies
  <2>3. QED
    BY <1>1, <1>2, <1>3, <2>2
<1>6. ASSUME OfType(e, "task_assigned", tr) PROVE e.epoch # log[m].epoch
  <2>1. Accepted(view[tr], e) /\ e.type = "task_assigned"
    BY <1>6, ViewStep DEF OfType
  <2>2. view[tr].plan = None /\ view[tr].epoch = e.epoch
    BY <1>1, <2>1, AssignedApplies
  <2>3. QED
    BY <1>1, <1>2, <1>3, <2>2
<1>7. QED
  BY <1>4, <1>5, <1>6 DEF Moves, EpochMoved, OfType

LEMMA PlansStep ==
    ASSUME LogInv, NEW e \in Event, Bd!Outcome(e) = "APPENDED", Bd!Commit(e)
    PROVE  OnePlanPerEpoch' /\ MovesInTurn'
<1>1. \A n \in DOMAIN log' : (n \in DOMAIN log /\ log'[n] = log[n]) \/ (n = Len(log) + 1 /\ log'[n] = e)
  BY Grows
<1>2. \A n \in DOMAIN log : n < Len(log) + 1
  BY Grows
<1>3. OnePlanPerEpoch'
  <2>1. SUFFICES ASSUME NEW m \in DOMAIN log', NEW n \in DOMAIN log', NEW tr \in TaskRevs,
                        OfType(log'[m], "task_assigned", tr), OfType(log'[n], "task_assigned", tr),
                        log'[m].epoch = log'[n].epoch
                 PROVE  m = n
    BY Zenon DEF OnePlanPerEpoch, OfType
  <2>2. CASE m \in DOMAIN log /\ n \in DOMAIN log
    BY <1>1, <2>1, <2>2, Grows DEF LogInv, OnePlanPerEpoch
  <2>3. CASE m \notin DOMAIN log /\ n \in DOMAIN log
    BY <1>1, <2>1, <2>3, EpochOfNew, Grows
  <2>4. CASE m \in DOMAIN log /\ n \notin DOMAIN log
    BY <1>1, <2>1, <2>4, EpochOfNew, Grows
  <2>5. CASE m \notin DOMAIN log /\ n \notin DOMAIN log
    BY <1>1, <2>5
  <2>6. QED
    BY <2>2, <2>3, <2>4, <2>5
<1>4. MovesInTurn'
  <2>1. SUFFICES ASSUME NEW m \in DOMAIN log', NEW n \in DOMAIN log', NEW tr \in TaskRevs,
                        OfType(log'[m], "task_assigned", tr), Moves(log'[n], tr),
                        EpochMoved(log'[n]) < log'[m].epoch
                 PROVE  n < m
    BY Zenon DEF MovesInTurn, OfType, Moves, EpochMoved
  <2>2. CASE m \in DOMAIN log /\ n \in DOMAIN log
    BY <1>1, <2>1, <2>2, Grows DEF LogInv, MovesInTurn
  <2>3. CASE m \notin DOMAIN log /\ n \in DOMAIN log
    BY <1>1, <1>2, <2>3
  <2>4. CASE m \in DOMAIN log /\ n \notin DOMAIN log
    BY <1>1, <2>1, <2>4, EpochOfNew, Grows
  <2>5. CASE m \notin DOMAIN log /\ n \notin DOMAIN log
    <3>1. log'[m] = e /\ log'[n] = e
      BY <1>1, <2>5
    <3>2. QED
      BY <2>1, <3>1 DEF Moves, OfType
  <2>6. QED
    BY <2>2, <2>3, <2>4, <2>5
<1>5. QED
  BY <1>3, <1>4

LEMMA EndsStep ==
    ASSUME LogInv, NEW e \in Event, Bd!Outcome(e) = "APPENDED", Bd!Commit(e)
    PROVE  /\ EndsSeen'
           /\ \A tr \in TaskRevs : view[tr].terminal # None => view'[tr].terminal # None
<1>1. ASSUME NEW tr \in TaskRevs, view[tr].terminal # None
      PROVE  view'[tr].terminal # None
  <2>1. CASE tr # Bd!Target(e)
    BY <1>1, <2>1, ViewStep
  <2>2. CASE tr = Bd!Target(e)
    <3>1. Apply(view[tr], e) = view[tr]
      BY <1>1 DEF Apply
    <3>2. QED
      BY <1>1, <2>2, <3>1, ViewStep
  <2>3. QED
    BY <2>1, <2>2
<1>2. ASSUME e.type \in TerminalTypes
      PROVE  view'[<<e.task, e.rev>>].terminal # None
  <2> DEFINE tr == <<e.task, e.rev>>
  <2>1. tr \in TaskRevs /\ tr = Bd!Target(e)
    BY <1>2, EventShape, Committed DEF TaskRevs, TerminalTypes
  <2>2. view[tr] \in View /\ Accepts(view[tr], e) /\ view'[tr] = Apply(view[tr], e)
    BY <1>2, <2>1, ViewStep DEF Accepted, GatedTypes, TerminalTypes
  <2>3. QED
    BY <1>2, <2>2, AcceptedTerminal, EventShape, NoneAssumption
<1>3. ASSUME NEW n \in DOMAIN log', log'[n].type \in TerminalTypes
      PROVE  view'[<<log'[n].task, log'[n].rev>>].terminal # None
  <2>1. CASE n \in DOMAIN log
    <3>1. log'[n] = log[n] /\ log[n] \in Event
      BY <2>1, Grows DEF LogInv, LogShape
    <3>2. <<log[n].task, log[n].rev>> \in TaskRevs
      BY <1>3, <3>1, EventShape DEF TaskRevs, TerminalTypes
    <3>3. view[<<log[n].task, log[n].rev>>].terminal # None
      BY <1>3, <2>1, <3>1 DEF LogInv, EndsSeen
    <3>4. QED
      BY <1>1, <3>1, <3>2, <3>3
  <2>2. CASE n \notin DOMAIN log
    <3>1. log'[n] = e
      BY <2>2, Grows
    <3>2. QED
      BY <1>2, <1>3, <3>1
  <2>3. QED
    BY <2>1, <2>2
<1>4. QED
  BY <1>1, <1>3 DEF EndsSeen

LEMMA LogStep ==
    ASSUME LogInv, NEW e \in Event, e \in Offered \/ e.type \in HostTypes,
           Bd!Outcome(e) = "APPENDED", Bd!Commit(e)
    PROVE  LogInv'
<1>1. LogShape'
  BY Grows DEF LogInv, LogShape, HostTypes
<1>2. IndexShape'
  <2>1. Len(log) \in Nat /\ Len(log') = Len(log) + 1
    BY Grows DEF LogInv, LogShape
  <2>2. /\ byId' = [byId EXCEPT ![e.id] = Len(log) + 1]
        /\ byKey' = byKey \/ byKey' = [byKey EXCEPT ![e.key] = Len(log) + 1]
    BY DEF Bd!Commit
  <2>3. byId \in [EventIds -> 0 .. Len(log)] /\ byKey \in [Keys -> 0 .. Len(log)]
    BY DEF LogInv, IndexShape
  <2>4. 0 .. Len(log) \subseteq 0 .. Len(log) + 1 /\ Len(log) + 1 \in 0 .. Len(log) + 1
    BY <2>1
  <2>5. QED
    BY <2>1, <2>2, <2>3, <2>4 DEF IndexShape
<1>3. QED
  BY <1>1, <1>2, ViewsStep, BehindStep, PlansStep, EndsStep DEF LogInv
-----------------------------------------------------------------------------
(* The host.                                                               *)

Jobs == [src : Nat, task : Tasks \cup {None}, after : Sessions \cup {None},
         out : Event \cup {None}, then : Labels \cup {"none"},
         act : Actions \cup {None}, outcome : Outcomes \cup {None},
         keys : Seq(Keys), stale : BOOLEAN, clean : BOOLEAN]

CarriedOut == {carried[n].act : n \in DOMAIN carried}

Input(n) == n \in DOMAIN log /\ log[n].type \in AgentTypes

FilesShape ==
    /\ offset \in Nat
    /\ session \in [Tasks -> Sessions \cup {None}]
    /\ outbox = [k \in Keys |-> outbox[k]]
    /\ \A k \in Keys : outbox[k] # None => IsHostEvent(outbox[k].event)
    /\ mailbox \in Seq(Nat)
    /\ \A i \in DOMAIN mailbox : Input(mailbox[i])
    /\ carried \in Seq([act : Actions, outcome : Outcomes])
    /\ \A a \in CarriedOut : \E h \in DOMAIN log : Home(h, a)

\* An input of the job is waiting for its session to be saved.
Pending == pc \in {"stage", "append", "finish"} /\ job.src # 0 /\ job.act = None

\* The action of the job has not been handed to the robot.
Ahead == pc \in {"precheck", "dispatch"} \/ (pc \in {"stage", "append"} /\ job.then = "precheck")

\* Where a job may go on once its output is on the Blackboard.
GoesOn ==
    \/ job.then \in {"precheck", "failed"} /\ job.act # None
    \/ job.then = "finish" /\ job.src # 0
    \/ job.then = "settle" /\ job.src = 0

JobShape ==
    /\ job \in Jobs
    /\ job.src # 0 => Input(job.src)
    /\ job.act # None => Home(job.src, job.act) /\ job.task = job.act.task
    /\ job.clean => /\ job.src # 0 /\ log[job.src].type \in TerminalTypes
                    /\ job.task = log[job.src].task
    /\ pc \in {"down", "replay", "poll", "take"} => job = NoJob
    /\ pc \in {"precheck", "dispatch", "store", "postcheck", "failed"} => job.act # None
    /\ pc \in {"stage", "append"} => IsHostEvent(job.out) /\ GoesOn
    /\ pc = "append" => IsHostEvent(Staged)
    /\ pc \in {"finish", "offset"} => job.src # 0
    /\ pc = "settle" => job.src <= offset
    /\ Pending => job.after \in Sessions /\ job.task = log[job.src].task

Begins(s, a) == s # None /\ s.intent # None /\ s.intent.act = a

\* The action about to be handed over is in the session.
AheadInSession == Ahead => job.act # None /\ Begins(session[job.task], job.act)

\* Holds whatever revisions a task has; the rest of HostInv is about one.
ShapeInv == LogInv /\ FilesShape /\ JobShape /\ AheadInSession

-----------------------------------------------------------------------------
(* What was consumed and what is read again.                               *)

\* An input that moves epochs and is not consumed lies behind nothing that is
\* to be handled before it.
InboxInOrder ==
    pc # "down" =>
    \A i \in DOMAIN mailbox, p \in DOMAIN log :
        /\ log[p].type \in {"bid_round_opened", "task_replan"}
        /\ offset < p /\ p < mailbox[i]
        => p = job.src \/ \E j \in DOMAIN mailbox : j < i /\ mailbox[j] = p

\* What moved the epoch before the assignment of an action was consumed when
\* the action was planned.
MovesConsumed ==
    \A a \in CarriedOut \cup ({job.act} \ {None}), p \in DOMAIN log :
        Early(p, a) => p <= offset

\* None of it waits to be handled once more.
NoneWaits(a) ==
    /\ \A i \in DOMAIN mailbox : ~Early(mailbox[i], a)
    /\ ~Early(job.src, a)

\* As long as the process lives, an assignment that was carried out is being
\* handled, or consumed, or nothing from before it waits.
HomeConsumed ==
    \A a \in CarriedOut :
        \/ pc = "down"
        \/ \E h \in DOMAIN log : Home(h, a) /\ (h <= offset \/ h = job.src)
        \/ NoneWaits(a)

PositionInv == InboxInOrder /\ MovesConsumed /\ HomeConsumed

-----------------------------------------------------------------------------
(* What the session remembers.                                             *)

Knows(s, a) == Begins(s, a) /\ s.intent.state # "proposed"

\* The action about to be handed over is new.
AheadIsNew ==
    Ahead => /\ job.act \notin CarriedOut
             /\ session[job.task].epoch = job.act.epoch
             /\ pc = "dispatch" => Knows(session[job.task], job.act)

\* An action of the current plan that was carried out is in the session of its
\* task, and no replan from before it can find the session in an epoch it
\* would clear, except in a process that is about to end.
Remembered ==
    \A a \in CarriedOut : Live(a) =>
        /\ Knows(session[a.task], a)
        /\ \/ pc = "down"
           \/ session[a.task].epoch >= a.epoch
           \/ NoneWaits(a)
           \/ pc = "offset" /\ job.src < offset

\* So it is in the session about to be saved.
RememberedAfter ==
    Pending => \A a \in CarriedOut : Live(a) /\ a.task = job.task =>
        /\ Knows(job.after, a)
        /\ job.after.epoch >= a.epoch \/ Early(job.src, a) \/ NoneWaits(a)

SessionInv == AheadIsNew /\ Remembered /\ RememberedAfter

HostInv == ShapeInv /\ PositionInv /\ SessionInv /\ AtMostOnce

-----------------------------------------------------------------------------
(* Actions and their assignments.                                          *)

LEMMA InputShape ==
    ASSUME LogInv, NEW n \in DOMAIN log
    PROVE  /\ n \in Nat \ {0} /\ log[n] \in Event /\ log[n].task \in Tasks
           /\ log[n].type \notin {"clue", "estop"} =>
                 <<log[n].task, log[n].rev>> \in TaskRevs /\ ViewOf(log[n]) \in View
           /\ log[n].type \in {"bid_round_opened", "task_assigned"} => log[n] \in Offered
<1>1. n \in Nat \ {0} /\ log[n] \in Event
  BY DEF LogInv, LogShape
<1>2. log[n].type \in {"bid_round_opened", "task_assigned"} => log[n] \in Offered
  BY DEF LogInv, LogShape, HostTypes
<1>3. /\ log[n].task \in Tasks
      /\ log[n].type \notin {"clue", "estop"} => <<log[n].task, log[n].rev>> \in TaskRevs
  BY <1>1, EventShape DEF TaskRevs
<1>4. QED
  BY <1>1, <1>2, <1>3 DEF LogInv, ViewsOK, ViewOf

LEMMA HomeShape ==
    ASSUME LogInv, NEW n, NEW a, Home(n, a)
    PROVE  /\ a \in Actions /\ a.asg \in Mine /\ a.epoch \in Nat
           /\ a.task = log[n].task /\ a.rev = log[n].rev /\ a.epoch = log[n].epoch
           /\ <<a.task, a.rev>> \in TaskRevs
           /\ OfType(log[n], "task_assigned", <<a.task, a.rev>>)
           /\ n \in Nat \ {0}
<1> DEFINE e == log[n]
           g == CHOOSE x \in e.asgs \cap Mine : TRUE
<1>1. n \in DOMAIN log /\ e.type = "task_assigned" /\ e.asgs \cap Mine # {}
  BY DEF Home, ForMe
<1>2. a = [task |-> e.task, rev |-> e.rev, epoch |-> e.epoch, plan |-> e.plan, asg |-> g]
  BY DEF Home, MyAct, Act
<1>3. g \in e.asgs \cap Mine
  BY <1>1
<1>4. e \in Event /\ e.task \in Tasks /\ e.rev \in Revs /\ n \in Nat \ {0}
  BY <1>1, InputShape, EventShape
<1>5. e.epoch \in Nat /\ e.plan \in PlanIds
  BY <1>1, <1>4, AssignedShape
<1>6. g \in AssignmentIds /\ g \in Mine
  BY <1>3, HostAssumption
<1>7. /\ a.task = e.task /\ a.rev = e.rev /\ a.epoch = e.epoch /\ a.asg = g
      /\ a \in Actions
  BY <1>2, <1>4, <1>5, <1>6 DEF Actions
<1>8. QED
  BY <1>1, <1>4, <1>5, <1>6, <1>7 DEF TaskRevs, OfType

LEMMA OneHome ==
    ASSUME LogInv, NEW m, NEW n, NEW a, Home(m, a), Home(n, a)
    PROVE  m = n
<1>1. /\ m \in DOMAIN log /\ OfType(log[m], "task_assigned", <<a.task, a.rev>>)
      /\ log[m].epoch = a.epoch /\ <<a.task, a.rev>> \in TaskRevs
  BY HomeShape DEF Home
<1>2. /\ n \in DOMAIN log /\ OfType(log[n], "task_assigned", <<a.task, a.rev>>)
      /\ log[n].epoch = a.epoch
  BY HomeShape DEF Home
<1>3. QED
  BY <1>1, <1>2 DEF LogInv, OnePlanPerEpoch

\* An action that was assigned can be announced, intercepted and reported.
LEMMA HomePublishes ==
    ASSUME LogInv, NEW n, NEW a, Home(n, a)
    PROVE  /\ IsHostEvent(IntentEvent(a))
           /\ IsHostEvent(Intercepted(a, "pre")) /\ IsHostEvent(Intercepted(a, "post"))
           /\ IsHostEvent(Receipt(a, TRUE)) /\ IsHostEvent(Receipt(a, FALSE))
<1> DEFINE e == log[n]
           g == CHOOSE x \in e.asgs \cap Mine : TRUE
<1>1. e \in Offered /\ e.type = "task_assigned" /\ g \in e.asgs \cap Mine
  BY InputShape DEF Home, ForMe
<1>2. a = Act(e, g)
  BY DEF Home, MyAct
<1> HIDE DEF e, g
<1>3. QED
  BY <1>1, <1>2, HostEventsAssumption, Zenon

LEMMA EpochGrows ==
    ASSUME LogInv, NEW e \in Event, Bd!Outcome(e) = "APPENDED", Bd!Commit(e),
           NEW tr \in TaskRevs
    PROVE  view[tr].epoch \in Nat /\ view[tr].epoch <= view'[tr].epoch
<1> DEFINE v == view[tr]
           w == Apply(v, e)
<1>1. /\ v \in View /\ v.epoch \in Nat
      /\ v.round # None => v.round.epoch = v.epoch /\ v.epoch # 0
  BY ViewStep DEF View, RoundOf
<1>2. CASE tr # Bd!Target(e)
  BY <1>1, <1>2, ViewStep
<1>3. CASE tr = Bd!Target(e)
  <2>1. view'[tr] = w /\ Accepted(v, e)
    BY <1>3, ViewStep
  <2>2. v.epoch <= w.epoch
    <3>1. e.type = "bid_round_opened" => v.epoch = 0 \/ w.epoch = v.epoch
      BY <1>1, <2>1, RoundApplies
    <3>2. w.epoch \in Nat
      BY <1>1, ApplyType DEF View
    <3>3. e.type = "task_assigned" => w.epoch = v.epoch
      BY <1>1, <2>1, AssignedApplies
    <3>4. e.type = "task_replan" => w.epoch = v.epoch + 1
      BY <1>1, <2>1, ReplanApplies
    <3>5. e.type = "assignment_completed" => w.epoch = v.epoch
      BY <1>1, CompletedApplies
    <3>6. e.type \notin PlanTypes => w.epoch = v.epoch
      BY <1>1, OthersKeepPlan
    <3>7. QED
      BY <1>1, <3>1, <3>2, <3>3, <3>4, <3>5, <3>6 DEF PlanTypes
  <2>3. QED
    BY <1>1, <2>1, <2>2
<1>4. QED
  BY <1>2, <1>3

-----------------------------------------------------------------------------
(* What the board may do under a host.                                     *)

Known == CarriedOut \cup ({job.act} \ {None})

\* The log grew at its end, by no assignment of a known action, and no plan
\* came back.
Grown ==
    /\ \A n \in DOMAIN log : n \in DOMAIN log' /\ log'[n] = log[n]
    /\ \A n \in DOMAIN log' : n \in DOMAIN log \/ \A m \in DOMAIN log : m < n
    /\ \A a \in Known, h \in DOMAIN log' : Home(h, a)' => h \in DOMAIN log
    /\ \A a \in Known : Live(a)' => Live(a)

LEMMA GrownOrSame ==
    ASSUME LogInv, FilesShape, JobShape,
           \/ UNCHANGED board
           \/ \E e \in Event : /\ e \in Offered \/ e.type \in HostTypes
                               /\ Bd!Outcome(e) = "APPENDED" /\ Bd!Commit(e)
    PROVE  LogInv' /\ Grown
<1>1. CASE UNCHANGED board
  <2>1. log' = log /\ view' = view /\ byId' = byId /\ byKey' = byKey
    BY <1>1 DEF board
  <2>2. LogInv'
    BY <2>1 DEF LogInv, LogShape, IndexShape, ViewsOK, EpochsBehind, OnePlanPerEpoch,
                MovesInTurn, EndsSeen
  <2>3. Grown
    BY <2>1 DEF Grown, Live
  <2>4. QED
    BY <2>2, <2>3
<1>2. ASSUME NEW e \in Event, e \in Offered \/ e.type \in HostTypes,
             Bd!Outcome(e) = "APPENDED", Bd!Commit(e)
      PROVE  LogInv' /\ Grown
  <2>1. LogInv'
    BY <1>2, LogStep
  <2>2. /\ \A n \in DOMAIN log : n \in DOMAIN log' /\ log'[n] = log[n]
        /\ \A n \in DOMAIN log' : n \in DOMAIN log \/ \A m \in DOMAIN log : m < n
    BY <1>2, Grows
  <2>3. ASSUME NEW a \in Known
        PROVE  \E n \in DOMAIN log : Home(n, a)
    BY <2>3 DEF Known, FilesShape, JobShape, Home
  <2>4. ASSUME NEW a \in Known, NEW h \in DOMAIN log', Home(h, a)'
        PROVE  h \in DOMAIN log
    <3>1. PICK n \in DOMAIN log : Home(n, a)
      BY <2>3
    <3> DEFINE tr == <<a.task, a.rev>>
    <3>2. /\ n \in DOMAIN log' /\ log'[n] = log[n] /\ tr \in TaskRevs
          /\ OfType(log[n], "task_assigned", tr) /\ log[n].epoch = a.epoch
      BY <2>2, <3>1, HomeShape
    <3>3. OfType(log'[h], "task_assigned", tr) /\ log'[h].epoch = a.epoch
      BY <2>4 DEF Home, MyAct, Act, OfType
    <3>4. h = n
      BY <2>1, <2>4, <3>2, <3>3 DEF LogInv, OnePlanPerEpoch
    <3>5. QED
      BY <3>1, <3>4
  <2>5. ASSUME NEW a \in Known, Live(a)'
        PROVE  Live(a)
    <3> DEFINE tr == <<a.task, a.rev>>
    <3>1. PICK n \in DOMAIN log : Home(n, a)
      BY <2>3
    <3>2. /\ tr \in TaskRevs /\ OfType(log[n], "task_assigned", tr)
          /\ a.epoch = log[n].epoch
      BY <3>1, HomeShape
    <3>3. log[n].epoch <= view[tr].epoch /\ view[tr].epoch \in Nat /\ log[n].epoch \in Nat
      <4>1. view[tr].epoch \in Nat
        BY <3>2 DEF LogInv, ViewsOK, View
      <4>2. log[n].epoch \in Nat
        BY <3>2, InputShape, AssignedShape DEF OfType
      <4>3. QED
        BY <3>2, <4>1, <4>2 DEF LogInv, EpochsBehind, EpochBehind
    <3>4. view'[tr].epoch = a.epoch /\ view'[tr].terminal = None
      BY <2>5 DEF Live
    <3>5. view[tr].terminal = None
      BY <1>2, <3>2, <3>4, EndsStep
    <3>6. view[tr].epoch <= view'[tr].epoch
      BY <1>2, <3>2, EpochGrows
    <3>7. QED
      BY <3>2, <3>3, <3>4, <3>5, <3>6 DEF Live
  <2>6. QED
    BY <2>1, <2>2, <2>4, <2>5 DEF Grown
<1>3. QED
  BY <1>1, <1>2

LEMMA SameEarly ==
    ASSUME LogInv, LogInv', Grown, NEW a \in Known
    PROVE  /\ \A h : Home(h, a)' <=> Home(h, a)
           /\ \A p : Early(p, a)' <=> Early(p, a)
<1>1. ASSUME NEW h PROVE Home(h, a)' <=> Home(h, a)
  <2>1. Home(h, a)' => Home(h, a)
    BY DEF Grown, Home
  <2>2. Home(h, a) => Home(h, a)'
    BY DEF Grown, Home
  <2>3. QED
    BY <2>1, <2>2
<1>2. ASSUME NEW p PROVE Early(p, a)' => Early(p, a)
  <2>1. SUFFICES ASSUME Early(p, a)' PROVE Early(p, a)
    OBVIOUS
  <2>2. PICK h \in DOMAIN log' : Home(h, a)' /\ p < h
    BY <2>1 DEF Early
  <2>3. h \in DOMAIN log /\ Home(h, a) /\ h \in Nat
    BY <1>1, <2>2, HomeShape DEF Home
  <2>4. p \in DOMAIN log' /\ Moves(log'[p], <<a.task, a.rev>>)
    BY <2>1 DEF Early, Moves, OfType
  <2>5. p \in DOMAIN log
    <3>1. p \notin DOMAIN log => h < p
      BY <2>3, <2>4 DEF Grown
    <3>2. p \in Nat
      BY <2>4 DEF LogInv, LogShape
    <3>3. QED
      BY <2>2, <2>3, <3>1, <3>2
  <2>6. QED
    BY <2>2, <2>3, <2>4, <2>5 DEF Early, Grown
<1>3. ASSUME NEW p PROVE Early(p, a) => Early(p, a)'
  BY <1>1 DEF Early, Grown, Moves, OfType
<1>4. QED
  BY <1>1, <1>2, <1>3

LEMMA NoJobShape ==
    ASSUME job' = NoJob, pc' \in {"down", "replay", "poll", "take"}
    PROVE  JobShape' /\ AheadInSession'
<1>1. job' \in Jobs
  BY DEF NoJob, Jobs
<1>2. /\ job'.src = 0 /\ job'.act = None /\ ~job'.clean /\ ~Pending' /\ ~Ahead'
  BY DEF NoJob, Pending, Ahead
<1>3. QED
  BY <1>1, <1>2 DEF JobShape, AheadInSession

-----------------------------------------------------------------------------
(* Steps that carry a job on, and steps that drop one.                     *)

\* The session, the inbox and what was carried out stay; so does what the job
\* is about.
Carries ==
    /\ UNCHANGED <<session, offset, mailbox, carried>>
    /\ job'.src = job.src /\ job'.act = job.act
    /\ job'.task = job.task /\ job'.after = job.after
    /\ pc' = pc \/ (pc \notin {"down", "offset"} /\ pc' \notin {"down", "offset"})
    /\ Ahead' => Ahead /\ (pc' = "dispatch" => pc = "dispatch")
    /\ Pending' => Pending

LEMMA Advance ==
    ASSUME HostInv, LogInv', Grown, Carries
    PROVE  PositionInv' /\ SessionInv' /\ AtMostOnce'
<1> DEFINE Out == CarriedOut
<1>1. /\ CarriedOut' = Out /\ Known' = Known
      /\ \A a \in Out : a \in Known
  BY DEF CarriedOut, Known, Carries
<1>2. /\ LogInv /\ InboxInOrder /\ MovesConsumed /\ HomeConsumed
      /\ AheadIsNew /\ Remembered /\ RememberedAfter
      /\ FilesShape /\ JobShape
  BY DEF HostInv, ShapeInv, PositionInv, SessionInv
<1>3. ASSUME NEW a \in Known
      PROVE  /\ \A h : Home(h, a)' <=> Home(h, a)
             /\ \A p : Early(p, a)' <=> Early(p, a)
             /\ NoneWaits(a)' <=> NoneWaits(a)
             /\ Live(a)' => Live(a)
  <2>1. /\ \A h : Home(h, a)' <=> Home(h, a)
        /\ \A p : Early(p, a)' <=> Early(p, a)
    BY <1>2, SameEarly
  <2>2. NoneWaits(a)' <=> NoneWaits(a)
    BY <2>1 DEF NoneWaits, Carries
  <2>3. QED
    BY <2>1, <2>2 DEF Grown
<1>4. InboxInOrder'
  <2>1. SUFFICES ASSUME pc' # "down", NEW i \in DOMAIN mailbox, NEW p \in DOMAIN log',
                        log'[p].type \in {"bid_round_opened", "task_replan"},
                        offset < p, p < mailbox[i]
                 PROVE  p = job.src \/ \E j \in DOMAIN mailbox : j < i /\ mailbox[j] = p
    BY DEF InboxInOrder, Carries
  <2>2. mailbox[i] \in DOMAIN log /\ mailbox[i] \in Nat /\ p \in Nat
    BY <1>2, <2>1 DEF FilesShape, Input, LogInv, LogShape
  <2>3. p \in DOMAIN log /\ log'[p] = log[p]
    BY <2>1, <2>2 DEF Grown
  <2>4. pc # "down"
    BY <2>1 DEF Carries
  <2>5. QED
    BY <1>2, <2>1, <2>3, <2>4 DEF InboxInOrder
<1>5. MovesConsumed'
  <2>1. SUFFICES ASSUME NEW a \in Known, NEW p \in DOMAIN log', Early(p, a)'
                 PROVE  p <= offset
    BY <1>1 DEF MovesConsumed, Known, Carries
  <2>2. Early(p, a)
    BY <1>3, <2>1
  <2>3. QED
    BY <1>2, <2>2 DEF MovesConsumed, Known, Early
<1>6. HomeConsumed'
  <2>1. SUFFICES ASSUME NEW a \in Out, pc' # "down"
                 PROVE  \/ \E h \in DOMAIN log' : Home(h, a)' /\ (h <= offset \/ h = job.src)
                        \/ NoneWaits(a)'
    BY <1>1 DEF HomeConsumed, Carries
  <2>2. \/ \E h \in DOMAIN log : Home(h, a) /\ (h <= offset \/ h = job.src)
        \/ NoneWaits(a)
    BY <1>2, <2>1 DEF HomeConsumed, Carries
  <2>3. QED
    BY <1>1, <1>3, <2>2 DEF Grown
<1>7. AheadIsNew'
  <2>1. AheadIsNew' <=>
           (Ahead' => /\ job.act \notin Out
                      /\ session[job.task].epoch = job.act.epoch
                      /\ pc' = "dispatch" => Knows(session[job.task], job.act))
    BY <1>1 DEF AheadIsNew, Carries, Begins, Knows
  <2>2. QED
    BY <1>2, <2>1 DEF AheadIsNew, Carries
<1>8. Remembered'
  <2>1. SUFFICES ASSUME NEW a \in Out, Live(a)'
                 PROVE  /\ Knows(session[a.task], a)
                        /\ \/ pc' = "down"
                           \/ session[a.task].epoch >= a.epoch
                           \/ NoneWaits(a)'
                           \/ pc' = "offset" /\ job.src < offset
    BY <1>1 DEF Remembered, Carries, Knows, Begins
  <2>2. Live(a) /\ (NoneWaits(a)' <=> NoneWaits(a))
    BY <1>1, <1>3, <2>1
  <2>3. /\ Knows(session[a.task], a)
        /\ \/ pc = "down"
           \/ session[a.task].epoch >= a.epoch
           \/ NoneWaits(a)
           \/ pc = "offset" /\ job.src < offset
    BY <1>2, <2>2 DEF Remembered
  <2>4. QED
    BY <2>2, <2>3 DEF Carries
<1>9. RememberedAfter'
  <2>1. SUFFICES ASSUME Pending', NEW a \in Out, Live(a)', a.task = job.task
                 PROVE  /\ Knows(job.after, a)
                        /\ job.after.epoch >= a.epoch \/ Early(job.src, a)' \/ NoneWaits(a)'
    BY <1>1 DEF RememberedAfter, Carries, Knows, Begins
  <2>2. /\ Live(a) /\ (NoneWaits(a)' <=> NoneWaits(a))
        /\ Early(job.src, a)' <=> Early(job.src, a)
    BY <1>1, <1>3, <2>1 DEF Carries
  <2>3. Pending
    BY <2>1 DEF Carries
  <2>4. QED
    BY <1>2, <2>1, <2>2, <2>3 DEF RememberedAfter
<1>10. AtMostOnce'
  BY DEF HostInv, AtMostOnce, Carries
<1>11. QED
  BY <1>4, <1>5, <1>6, <1>7, <1>8, <1>9, <1>10 DEF PositionInv, SessionInv

\* The job is dropped: the process ended, or starts anew, or goes on with what
\* is in the mailbox.
Drops ==
    /\ UNCHANGED <<board, offset, carried>>
    /\ \A a \in CarriedOut : Live(a) => session'[a.task] = session[a.task]
    /\ job' = NoJob
    /\ \/ pc' = "down"
       \/ pc' = "replay" /\ mailbox' = << >>
       \/ /\ pc' \in {"replay", "poll", "take"} /\ mailbox' = mailbox
          /\ pc \notin {"down", "offset"} /\ job.src <= offset

LEMMA Drop ==
    ASSUME HostInv, Drops
    PROVE  PositionInv' /\ SessionInv' /\ AtMostOnce'
<1>1. /\ CarriedOut' = CarriedOut /\ log' = log /\ view' = view
      /\ job'.src = 0 /\ job'.act = None
  BY DEF CarriedOut, Drops, board, NoJob
<1>2. /\ LogInv /\ InboxInOrder /\ MovesConsumed /\ HomeConsumed /\ Remembered
      /\ FilesShape /\ JobShape
  BY DEF HostInv, ShapeInv, PositionInv, SessionInv
<1>3. /\ \A h, a : Home(h, a)' <=> Home(h, a)
      /\ \A p, a : Early(p, a)' <=> Early(p, a)
      /\ \A a : Live(a)' <=> Live(a)
  BY <1>1 DEF Home, Early, Live
<1>4. \A a : ~Early(0, a)
  BY <1>2 DEF Early, LogInv, LogShape
<1>5. \A a : NoneWaits(a)' <=> \A i \in DOMAIN mailbox' : ~Early(mailbox'[i], a)
  BY <1>1, <1>3, <1>4 DEF NoneWaits
<1>6. InboxInOrder'
  <2>1. SUFFICES ASSUME pc' # "down", NEW i \in DOMAIN mailbox', NEW p \in DOMAIN log,
                        log[p].type \in {"bid_round_opened", "task_replan"},
                        offset < p, p < mailbox'[i]
                 PROVE  \E j \in DOMAIN mailbox' : j < i /\ mailbox'[j] = p
    BY <1>1 DEF InboxInOrder, Drops
  <2>2. mailbox' = mailbox /\ pc # "down" /\ job.src <= offset
    BY <2>1 DEF Drops
  <2>3. p \in Nat /\ offset \in Nat /\ job.src \in Nat
    BY <1>2 DEF LogInv, LogShape, FilesShape, JobShape, Jobs
  <2>4. QED
    BY <1>2, <2>1, <2>2, <2>3 DEF InboxInOrder
<1>7. MovesConsumed'
  BY <1>1, <1>2, <1>3 DEF MovesConsumed, Drops
<1>8. HomeConsumed'
  <2>1. SUFFICES ASSUME NEW a \in CarriedOut, pc' # "down"
                 PROVE  \/ \E h \in DOMAIN log : Home(h, a) /\ h <= offset
                        \/ \A i \in DOMAIN mailbox' : ~Early(mailbox'[i], a)
    BY <1>1, <1>3, <1>5 DEF HomeConsumed, Drops
  <2>2. CASE mailbox' = << >>
    BY <2>2
  <2>3. CASE mailbox' = mailbox /\ pc # "down" /\ job.src <= offset
    BY <1>2, <2>3 DEF HomeConsumed, NoneWaits
  <2>4. QED
    BY <2>1, <2>2, <2>3 DEF Drops
<1>9. AheadIsNew' /\ RememberedAfter'
  <2>1. ~Ahead' /\ ~Pending'
    BY <1>1 DEF Drops, Ahead, Pending
  <2>2. QED
    BY <2>1 DEF AheadIsNew, RememberedAfter
<1>10. Remembered'
  <2>1. SUFFICES ASSUME NEW a \in CarriedOut, Live(a)
                 PROVE  /\ Knows(session[a.task], a)
                        /\ \/ pc' = "down"
                           \/ session[a.task].epoch >= a.epoch
                           \/ \A i \in DOMAIN mailbox' : ~Early(mailbox'[i], a)
    BY <1>1, <1>3, <1>5 DEF Remembered, Drops, Knows, Begins
  <2>2. /\ Knows(session[a.task], a)
        /\ \/ pc = "down"
           \/ session[a.task].epoch >= a.epoch
           \/ NoneWaits(a)
           \/ pc = "offset" /\ job.src < offset
    BY <1>2, <2>1 DEF Remembered
  <2>3. CASE mailbox' = << >> \/ pc' = "down"
    BY <2>2, <2>3
  <2>4. CASE mailbox' = mailbox /\ pc \notin {"down", "offset"}
    BY <2>2, <2>4 DEF NoneWaits
  <2>5. QED
    BY <2>3, <2>4 DEF Drops
<1>11. AtMostOnce'
  BY DEF HostInv, AtMostOnce, Drops
<1>12. QED
  BY <1>6, <1>7, <1>8, <1>9, <1>10, <1>11 DEF PositionInv, SessionInv

\* What a step needs to show about the rest of the invariant.
Plain == (Grown /\ Carries) \/ Drops

LEMMA PlainStep ==
    ASSUME HostInv, ShapeInv', Plain
    PROVE  HostInv'
  BY Advance, Drop DEF HostInv, ShapeInv, Plain

\* The files keep their shape when only the outbox changes, the offset moves or
\* the mailbox is emptied.
LEMMA FilesKept ==
    ASSUME ShapeInv, Grown, UNCHANGED carried, offset' \in Nat,
           session' \in [Tasks -> Sessions \cup {None}],
           outbox' = [k \in Keys |-> outbox'[k]],
           \A k \in Keys : outbox'[k] # None => IsHostEvent(outbox'[k].event),
           mailbox' = mailbox \/ mailbox' = << >>
    PROVE  FilesShape'
<1>1. FilesShape
  BY DEF ShapeInv
<1>2. CarriedOut' = CarriedOut
  BY DEF CarriedOut
<1>3. ASSUME NEW i \in DOMAIN mailbox'
      PROVE  mailbox'[i] \in DOMAIN log' /\ log'[mailbox'[i]].type \in AgentTypes
  <2>1. mailbox' = mailbox
    BY <1>3
  <2>2. mailbox[i] \in DOMAIN log /\ log[mailbox[i]].type \in AgentTypes
    BY <1>1, <1>3, <2>1 DEF FilesShape, Input
  <2>3. QED
    BY <2>1, <2>2 DEF Grown
<1>4. ASSUME NEW a \in CarriedOut
      PROVE  \E h \in DOMAIN log' : Home(h, a)'
  <2>1. PICK h \in DOMAIN log : Home(h, a)
    BY <1>1 DEF FilesShape
  <2>2. h \in DOMAIN log' /\ Home(h, a)'
    BY <2>1 DEF Grown, Home
  <2>3. QED
    BY <2>2
<1>5. session' \in [Tasks -> Sessions \cup {None}] /\ mailbox' \in Seq(Nat)
  <2>1. mailbox \in Seq(Nat)
    BY <1>1 DEF FilesShape
  <2>2. << >> \in Seq(Nat)
    OBVIOUS
  <2>3. QED
    BY <2>1, <2>2
<1>6. carried' \in Seq([act : Actions, outcome : Outcomes])
  BY <1>1 DEF FilesShape
<1>7. QED
  BY <1>2, <1>3, <1>4, <1>5, <1>6 DEF FilesShape, Input

LEMMA Outboxes ==
    ASSUME ShapeInv
    PROVE  /\ outbox = [k \in Keys |-> outbox[k]]
           /\ \A k \in Keys : outbox[k] # None => IsHostEvent(outbox[k].event)
           /\ session \in [Tasks -> Sessions \cup {None}] /\ offset \in Nat
  BY DEF ShapeInv, FilesShape

\* A step that drops the job keeps the shape.
LEMMA DropShape ==
    ASSUME ShapeInv, UNCHANGED <<board, carried>>, offset' \in Nat,
           job' = NoJob, pc' \in {"down", "replay", "poll", "take"},
           session' \in [Tasks -> Sessions \cup {None}],
           outbox' = [k \in Keys |-> outbox'[k]],
           \A k \in Keys : outbox'[k] # None => IsHostEvent(outbox'[k].event),
           mailbox' = mailbox \/ mailbox' = << >>
    PROVE  ShapeInv'
<1>1. LogInv' /\ Grown
  BY GrownOrSame DEF ShapeInv
<1>2. FilesShape'
  BY <1>1, FilesKept
<1>3. QED
  BY <1>1, <1>2, NoJobShape DEF ShapeInv

LEMMA RestartStep == ASSUME ShapeInv, Restart PROVE ShapeInv' /\ Plain
<1>1. Drops
  BY DEF Restart, Leave, Goto, Drops, files
<1>2. QED
  BY <1>1, DropShape, Outboxes DEF Restart, Leave, Goto, files, Plain

LEMMA CrashStep == ASSUME ShapeInv, Crash PROVE ShapeInv' /\ Plain
<1>1. Drops
  BY DEF Crash, Leave, Goto, Drops, files
<1>2. QED
  BY <1>1, DropShape, Outboxes DEF Crash, Leave, Goto, files, Plain

LEMMA SettledStep == ASSUME ShapeInv, Settled PROVE ShapeInv' /\ Plain
<1>1. job.src <= offset
  BY DEF ShapeInv, JobShape, Settled
<1>2. Drops /\ pc' \in {"replay", "take"}
  BY <1>1 DEF Settled, Leave, Goto, Drops, files
<1>3. QED
  BY <1>2, DropShape, Outboxes DEF Settled, files, Drops, Plain

LEMMA UnlinkStep == ASSUME ShapeInv, Unlink PROVE ShapeInv' /\ Plain
<1>1. Drops /\ pc' = "down"
  BY DEF Unlink, Abort, Leave, Goto, Drops
<1>2. \A k \in Keys : outbox'[k] \in {outbox[k], None}
  BY Outboxes DEF Unlink
<1>3. outbox' = [k \in Keys |-> outbox'[k]]
  BY Outboxes DEF Unlink
<1>4. QED
  BY <1>1, <1>2, <1>3, DropShape, Outboxes DEF Unlink, Drops, Plain

-----------------------------------------------------------------------------
(* Steps that publish.                                                     *)

LEMMA JobKept ==
    ASSUME ShapeInv, Grown, Carries, job' \in Jobs, job'.clean = job.clean,
           pc' \in {"down", "replay", "poll", "take"} => job' = NoJob,
           pc' \in {"precheck", "dispatch", "store", "postcheck", "failed"} => job.act # None,
           pc' \in {"stage", "append"} => IsHostEvent(job'.out) /\ GoesOn',
           pc' = "append" => IsHostEvent(outbox'[job'.out.key].event),
           pc' \in {"finish", "offset"} => job.src # 0,
           pc' = "settle" => job.src <= offset
    PROVE  JobShape'
<1>1. JobShape
  BY DEF ShapeInv
<1>2. job'.src # 0 => Input(job.src)'
  BY <1>1 DEF JobShape, Carries, Input, Grown
<1>3. job'.act # None => Home(job.src, job.act)' /\ job'.task = job'.act.task
  BY <1>1 DEF JobShape, Carries, Home, Grown
<1>4. job'.clean => /\ job'.src # 0 /\ log'[job'.src].type \in TerminalTypes
                    /\ job'.task = log'[job'.src].task
  BY <1>1 DEF JobShape, Carries, Input, Grown
<1>5. Pending' => job'.after \in Sessions /\ job'.task = log'[job'.src].task
  <2>1. Pending => job.src \in DOMAIN log
    BY <1>1 DEF JobShape, Pending, Input
  <2>2. QED
    BY <1>1, <2>1 DEF JobShape, Carries, Grown
<1>6. QED
  BY <1>2, <1>3, <1>4, <1>5 DEF JobShape, Staged, Carries

LEMMA CarryShape ==
    ASSUME ShapeInv, Carries, JobShape',
           \/ UNCHANGED board
           \/ \E e \in Event : /\ e \in Offered \/ e.type \in HostTypes
                               /\ Bd!Outcome(e) = "APPENDED" /\ Bd!Commit(e),
           outbox' = [k \in Keys |-> outbox'[k]],
           \A k \in Keys : outbox'[k] # None => IsHostEvent(outbox'[k].event)
    PROVE  ShapeInv' /\ Plain
<1>1. LogInv' /\ Grown
  BY GrownOrSame DEF ShapeInv
<1>2. FilesShape'
  BY <1>1, FilesKept DEF Carries, ShapeInv, FilesShape
<1>3. AheadInSession'
  BY DEF ShapeInv, AheadInSession, Carries, Begins
<1>4. QED
  BY <1>1, <1>2, <1>3 DEF ShapeInv, Plain

\* On an unchanged board.
LEMMA StillGrown ==
    ASSUME ShapeInv, UNCHANGED board
    PROVE  Grown
  BY GrownOrSame DEF ShapeInv

LEMMA ReplayStep == ASSUME ShapeInv, Replay PROVE ShapeInv' /\ Plain
<1>1. job = NoJob /\ pc = "replay" /\ UNCHANGED <<board, files, mailbox, carried>>
  BY DEF ShapeInv, JobShape, Replay
<1>2. CASE Replayable = {}
  <2>1. offset \in Nat
    BY DEF ShapeInv, FilesShape
  <2>2. Drops /\ pc' = "poll"
    BY <1>1, <1>2, <2>1 DEF Replay, Leave, Goto, Drops, files, NoJob
  <2>3. QED
    BY <1>1, <2>2, DropShape, Outboxes DEF files, Drops, Plain
<1>3. CASE Replayable # {}
  <2>1. PICK k \in Replayable :
           job' = [NoJob EXCEPT !.out = outbox[k].event, !.then = "settle"] /\ pc' = "stage"
    BY <1>3 DEF Replay, Goto
  <2>2. IsHostEvent(outbox[k].event)
    BY <2>1, Outboxes DEF Replayable
  <2>3. /\ job'.src = 0 /\ job'.act = None /\ job'.task = None /\ job'.after = None
        /\ job'.out = outbox[k].event /\ job'.then = "settle" /\ job'.clean = FALSE
        /\ job.src = 0 /\ job.act = None /\ job.task = None /\ job.after = None
        /\ job.clean = FALSE
    BY <1>1, <2>1 DEF NoJob
  <2>4. job' \in Jobs
    <3>1. NoJob \in Jobs
      BY DEF NoJob, Jobs
    <3>2. outbox[k].event \in Event /\ "settle" \in Labels
      BY <2>2 DEF IsHostEvent, Labels
    <3>3. QED
      BY <2>1, <3>1, <3>2 DEF Jobs
  <2>5. Carries
    BY <1>1, <2>1, <2>3 DEF Carries, files, Ahead, Pending
  <2>6. JobShape'
    BY <1>1, <2>1, <2>2, <2>3, <2>4, <2>5, StillGrown, JobKept DEF GoesOn
  <2>7. QED
    BY <1>1, <2>5, <2>6, CarryShape, Outboxes DEF files
<1>4. QED
  BY <1>2, <1>3

LEMMA StageStep == ASSUME ShapeInv, Stage PROVE ShapeInv' /\ Plain
<1> DEFINE k == job.out.key
<1>1. /\ pc = "stage" /\ IsHostEvent(job.out) /\ GoesOn /\ k \in Keys /\ job \in Jobs
      /\ UNCHANGED <<board, offset, session, mailbox, carried>>
  <2>1. pc = "stage" /\ IsHostEvent(job.out) /\ GoesOn /\ job \in Jobs
    BY DEF ShapeInv, JobShape, Stage
  <2>2. k \in Keys
    BY <2>1, EventShape DEF IsHostEvent
  <2>3. QED
    BY <2>1, <2>2 DEF Stage
<1>2. CASE k \in refused
  <2>1. Drops /\ pc' = "down" /\ outbox' = outbox /\ mailbox' = mailbox
    BY <1>1, <1>2 DEF Stage, Abort, Leave, Goto, Drops
  <2>2. QED
    BY <1>1, <2>1, DropShape, Outboxes DEF Drops, Plain
<1>3. CASE k \notin refused
  <2>1. /\ pc' = "append" /\ job' = job
        /\ outbox' = IF outbox[k] # None THEN outbox
                     ELSE [outbox EXCEPT ![k] = [event |-> job.out, src |-> job.src]]
    BY <1>3 DEF Stage, Goto
  <2>2. /\ outbox' = [x \in Keys |-> outbox'[x]]
        /\ \A x \in Keys : outbox'[x] # None => IsHostEvent(outbox'[x].event)
        /\ IsHostEvent(outbox'[k].event)
    <3>1. CASE outbox[k] # None
      BY <1>1, <2>1, <3>1, Outboxes
    <3>2. CASE outbox[k] = None
      <4>1. outbox' = [outbox EXCEPT ![k] = [event |-> job.out, src |-> job.src]]
        BY <2>1, <3>2
      <4>2. outbox'[k].event = job.out
        BY <1>1, <4>1, Outboxes
      <4>3. \A x \in Keys \ {k} : outbox'[x] = outbox[x]
        BY <4>1, Outboxes
      <4>4. outbox' = [x \in Keys |-> outbox'[x]]
        BY <4>1, Outboxes
      <4>5. QED
        BY <1>1, <4>2, <4>3, <4>4, Outboxes
    <3>3. QED
      BY <3>1, <3>2
  <2>3. Carries
    BY <1>1, <2>1 DEF Carries, Ahead, Pending
  <2>4. JobShape'
    <3>1. GoesOn'
      BY <1>1, <2>1 DEF GoesOn
    <3>2. QED
      BY <1>1, <2>1, <2>2, <2>3, <3>1, StillGrown, JobKept
  <2>5. QED
    BY <1>1, <2>2, <2>3, <2>4, CarryShape
<1>4. QED
  BY <1>2, <1>3

LEMMA AppendStep == ASSUME ShapeInv, AppendOutput PROVE ShapeInv' /\ Plain
<1> DEFINE o == Bd!Outcome(Staged)
<1>1. /\ pc = "append" /\ IsHostEvent(job.out) /\ IsHostEvent(Staged) /\ GoesOn /\ job \in Jobs
      /\ job.out.key \in Keys
      /\ UNCHANGED <<offset, session, outbox, mailbox, carried>>
  <2>1. /\ pc = "append" /\ IsHostEvent(job.out) /\ IsHostEvent(Staged) /\ GoesOn
        /\ job \in Jobs
    BY DEF ShapeInv, JobShape, AppendOutput
  <2>2. job.out.key \in Keys
    BY <2>1, EventShape DEF IsHostEvent
  <2>3. QED
    BY <2>1, <2>2 DEF AppendOutput
<1>2. CASE o \in {"APPENDED", "DUPLICATE_SAME"}
  <2>1. /\ job' = [job EXCEPT !.keys = Append(@, job.out.key)] /\ pc' = job.then
        /\ o = "APPENDED" => Bd!Commit(Staged)
        /\ o # "APPENDED" => UNCHANGED board
    BY <1>2 DEF AppendOutput, Goto
  <2>2. job' \in Jobs
    <3>1. Append(job.keys, job.out.key) \in Seq(Keys)
      BY <1>1 DEF Jobs
    <3>2. QED
      BY <1>1, <2>1, <3>1 DEF Jobs
  <2>3. /\ job'.src = job.src /\ job'.act = job.act /\ job'.task = job.task
        /\ job'.after = job.after /\ job'.clean = job.clean
    BY <1>1, <2>1 DEF Jobs
  <2>4. Carries
    BY <1>1, <2>1, <2>3 DEF Carries, Ahead, Pending, GoesOn
  <2>5. \/ UNCHANGED board
        \/ \E e \in Event : /\ e \in Offered \/ e.type \in HostTypes
                            /\ Bd!Outcome(e) = "APPENDED" /\ Bd!Commit(e)
    BY <1>1, <2>1 DEF IsHostEvent
  <2>6. Grown
    BY <2>5, GrownOrSame DEF ShapeInv
  <2>7. offset \in Nat
    BY DEF ShapeInv, FilesShape
  <2>8. JobShape'
    BY <1>1, <2>1, <2>2, <2>3, <2>4, <2>6, <2>7, JobKept DEF GoesOn
  <2>9. QED
    BY <1>1, <2>4, <2>5, <2>8, CarryShape, Outboxes
<1>3. CASE o = "REJECTED"
  <2>1. pc' = "unlink" /\ UNCHANGED <<board, job>>
    BY <1>3 DEF AppendOutput, Goto
  <2>2. Carries
    BY <1>1, <2>1 DEF Carries, Ahead, Pending
  <2>3. JobShape'
    BY <1>1, <2>1, <2>2, StillGrown, JobKept
  <2>4. QED
    BY <1>1, <2>1, <2>2, <2>3, CarryShape, Outboxes
<1>4. CASE o \notin {"APPENDED", "DUPLICATE_SAME", "REJECTED"}
  <2>1. Drops /\ pc' = "down"
    BY <1>1, <1>4 DEF AppendOutput, Abort, Leave, Goto, Drops
  <2>2. QED
    BY <1>1, <2>1, DropShape, Outboxes DEF Drops, Plain
<1>5. QED
  BY <1>2, <1>3, <1>4

LEMMA StoreStep == ASSUME ShapeInv, StoreRaw PROVE ShapeInv' /\ Plain
<1>1. /\ pc = "store" /\ job \in Jobs /\ job.act # None /\ pc' = "postcheck"
      /\ UNCHANGED <<board, offset, session, outbox, mailbox, job, carried>>
  BY DEF ShapeInv, JobShape, StoreRaw, Goto
<1>2. Carries
  BY <1>1 DEF Carries, Ahead, Pending
<1>3. JobShape'
  BY <1>1, <1>2, StillGrown, JobKept
<1>4. QED
  BY <1>1, <1>2, <1>3, CarryShape, Outboxes

\* An event about the action of the job goes to the outbox.
LEMMA PublishStep ==
    ASSUME ShapeInv, pc \in {"precheck", "postcheck", "failed"}, UNCHANGED <<board, files, mailbox, carried>>,
           NEW e, IsHostEvent(e), NEW then \in {"finish", "failed"}, NEW b \in BOOLEAN,
           job' = [job EXCEPT !.out = e, !.then = then, !.stale = b], pc' = "stage"
    PROVE  ShapeInv' /\ Plain
<1>1. job \in Jobs /\ job.act # None /\ job.src # 0
  BY DEF ShapeInv, JobShape, Home, LogInv, LogShape
<1>2. /\ job'.src = job.src /\ job'.act = job.act /\ job'.task = job.task
      /\ job'.after = job.after /\ job'.clean = job.clean
      /\ job'.out = e /\ job'.then = then
  BY <1>1 DEF Jobs
<1>3. job' \in Jobs
  <2>1. e \in Event /\ then \in Labels
    BY DEF IsHostEvent, Labels
  <2>2. QED
    BY <1>1, <2>1 DEF Jobs
<1>4. Carries
  BY <1>1, <1>2 DEF Carries, files, Ahead, Pending
<1>5. JobShape'
  <2>1. GoesOn'
    BY <1>1, <1>2 DEF GoesOn
  <2>2. QED
    BY <1>1, <1>2, <1>3, <1>4, <2>1, StillGrown, JobKept
<1>6. QED
  BY <1>4, <1>5, CarryShape, Outboxes DEF files

LEMMA PostCheckStep == ASSUME ShapeInv, PostCheck PROVE ShapeInv' /\ Plain
<1>1. /\ IsHostEvent(Intercepted(job.act, "post"))
      /\ \A ok \in BOOLEAN : IsHostEvent(Receipt(job.act, ok))
      /\ job.stale \in BOOLEAN /\ Succeeded(job.outcome) \in BOOLEAN /\ job \in Jobs
  BY HomePublishes DEF ShapeInv, JobShape, PostCheck, Succeeded, Jobs
<1>2. pc = "postcheck" /\ pc' = "stage" /\ UNCHANGED <<board, files, mailbox, carried>>
  BY DEF PostCheck, Publish, PublishReceipt, Goto
<1>3. CASE job' = [job EXCEPT !.out = Receipt(job.act, Succeeded(job.outcome)),
                              !.then = "finish", !.stale = TRUE]
  BY <1>1, <1>2, <1>3, PublishStep
<1>4. CASE job' = [job EXCEPT !.out = Intercepted(job.act, "post"), !.then = "failed"]
  <2>1. job' = [job EXCEPT !.out = Intercepted(job.act, "post"), !.then = "failed",
                           !.stale = job.stale]
    BY <1>1, <1>4 DEF Jobs
  <2>2. QED
    BY <1>1, <1>2, <2>1, PublishStep
<1>5. QED
  BY <1>3, <1>4 DEF PostCheck, Publish, PublishReceipt

LEMMA ReportFailedStep == ASSUME ShapeInv, ReportFailed PROVE ShapeInv' /\ Plain
<1>1. IsHostEvent(Receipt(job.act, FALSE))
  BY HomePublishes DEF ShapeInv, JobShape, ReportFailed
<1>2. /\ pc = "failed" /\ pc' = "stage" /\ UNCHANGED <<board, files, mailbox, carried>>
      /\ job' = [job EXCEPT !.out = Receipt(job.act, FALSE), !.then = "finish", !.stale = TRUE]
  BY DEF ReportFailed, PublishReceipt, Goto
<1>3. QED
  BY <1>1, <1>2, PublishStep

\* The files of a settled job go, one by one.
LEMMA SettleStep ==
    ASSUME ShapeInv, pc = "settle", pc' = pc, UNCHANGED <<board, offset, session, mailbox, carried>>,
           NEW q \in Seq(Keys), NEW b \in BOOLEAN,
           job' = [job EXCEPT !.keys = q] \/ job' = [job EXCEPT !.stale = b],
           outbox' = [k \in Keys |-> outbox'[k]],
           \A k \in Keys : outbox'[k] \in {outbox[k], None}
    PROVE  ShapeInv' /\ Plain
<1>1. job \in Jobs /\ job.src <= offset
  BY DEF ShapeInv, JobShape
<1>2. /\ job'.src = job.src /\ job'.act = job.act /\ job'.task = job.task
      /\ job'.after = job.after /\ job'.clean = job.clean /\ job' \in Jobs
  BY <1>1 DEF Jobs
<1>3. Carries
  BY <1>2 DEF Carries, Ahead, Pending
<1>4. JobShape'
  BY <1>1, <1>2, <1>3, StillGrown, JobKept
<1>5. \A k \in Keys : outbox'[k] # None => IsHostEvent(outbox'[k].event)
  BY Outboxes
<1>6. QED
  BY <1>3, <1>4, <1>5, CarryShape

LEMMA ResolveStep == ASSUME ShapeInv, Resolve PROVE ShapeInv' /\ Plain
<1>1. job.keys \in Seq(Keys) /\ job.keys # << >>
  BY DEF ShapeInv, JobShape, Jobs, Resolve
<1>2. Tail(job.keys) \in Seq(Keys) /\ FALSE \in BOOLEAN
  BY <1>1
<1>3. /\ outbox' = [k \in Keys |-> outbox'[k]]
      /\ \A k \in Keys : outbox'[k] \in {outbox[k], None}
  BY Outboxes DEF Resolve
<1>4. QED
  BY <1>2, <1>3, SettleStep DEF Resolve

LEMMA RemoveRawStep == ASSUME ShapeInv, RemoveRaw PROVE ShapeInv' /\ Plain
<1>1. << >> \in Seq(Keys) /\ FALSE \in BOOLEAN
  OBVIOUS
<1>2. QED
  BY <1>1, SettleStep, Outboxes DEF RemoveRaw

LEMMA ExternalStep ==
    ASSUME ShapeInv, NEW e \in Offered, External(e)
    PROVE  ShapeInv' /\ Plain
<1>1. /\ e \in Event /\ Bd!Outcome(e) = "APPENDED" /\ Bd!Commit(e)
      /\ UNCHANGED <<files, mailbox, pc, job, carried>>
  BY HostAssumption DEF External, volatile
<1>2. Carries
  BY <1>1 DEF Carries, files, Ahead, Pending
<1>3. Grown
  BY <1>1, GrownOrSame DEF ShapeInv
<1>4. JobShape /\ GoesOn' = GoesOn
  BY <1>1 DEF ShapeInv, GoesOn
<1>5. JobShape'
  BY <1>1, <1>2, <1>3, <1>4, JobKept DEF files, JobShape, Staged
<1>6. QED
  BY <1>1, <1>2, <1>5, CarryShape, Outboxes DEF files

-----------------------------------------------------------------------------
(* Reading the inbox.                                                      *)

\* A batch has no gap: what is unread before one of its events is in it.
LEMMA BatchShape ==
    ASSUME LogInv, FilesShape
    PROVE  /\ Batch \subseteq DOMAIN log /\ Cardinality(Batch) \in Nat
           /\ \A n \in Batch : n \in Nat /\ n > offset /\ log[n].type \in AgentTypes
           /\ \A n \in Batch, p \in Unread : p < n => p \in Batch
<1>1. /\ Len(log) \in Nat /\ DOMAIN log = 1 .. Len(log) /\ offset \in Nat
      /\ Len(mailbox) \in Nat
  BY DEF LogInv, LogShape, FilesShape
<1>2. /\ IsFiniteSet(DOMAIN log)
      /\ \A S \in SUBSET (DOMAIN log) : IsFiniteSet(S) /\ Cardinality(S) \in Nat
  <2>1. IsFiniteSet(1 .. Len(log))
    BY <1>1, FS_Interval
  <2>2. QED
    BY <1>1, <2>1, FS_Subset, FS_CardinalityType
<1>3. Batch \subseteq Unread /\ Unread \subseteq DOMAIN log
  BY DEF Batch, Unread
<1>4. Room \in Int
  BY <1>1, HostAssumption DEF Room
<1>5. ASSUME NEW n \in Batch, NEW p \in Unread, p < n
      PROVE  p \in Batch
  <2> DEFINE S == {m \in Unread : m < p}
             T == {m \in Unread : m < n}
  <2>1. S \in SUBSET T /\ T \in SUBSET (DOMAIN log)
    BY <1>1, <1>3, <1>5
  <2>2. /\ Cardinality(S) \in Nat /\ Cardinality(T) \in Nat
        /\ Cardinality(S) <= Cardinality(T)
    BY <1>2, <2>1, FS_Subset
  <2>3. Cardinality(T) < Room
    BY <1>5 DEF Batch
  <2>4. QED
    BY <1>4, <1>5, <2>2, <2>3 DEF Batch
<1>6. Batch \subseteq DOMAIN log /\ Cardinality(Batch) \in Nat
  BY <1>2, <1>3
<1>7. \A n \in Batch : n \in Nat /\ n > offset /\ log[n].type \in AgentTypes
  BY <1>1, <1>3 DEF Unread
<1>8. QED
  BY <1>5, <1>6, <1>7

\* What a poll adds to the mailbox: s, behind the k positions that are there.
Reads(s, c, k) ==
    /\ c \in Nat /\ k \in Nat /\ s \in Seq(Nat) /\ Len(s) = c /\ DOMAIN s = 1 .. c
    /\ mailbox \in Seq(Nat) /\ DOMAIN mailbox = 1 .. k
    /\ mailbox' \in Seq(Nat) /\ DOMAIN mailbox' = 1 .. k + c
    /\ \A i \in 1 .. k : mailbox'[i] = mailbox[i]
    /\ \A i \in 1 .. c : mailbox'[k + i] = s[i]
    /\ \A i \in 1 .. k + c : i \in 1 .. k \/ (i - k \in 1 .. c /\ mailbox'[i] = s[i - k])
    /\ \A i \in 1 .. c : /\ s[i] \in Batch /\ s[i] \in DOMAIN log /\ s[i] > offset
                         /\ log[s[i]].type \in AgentTypes /\ s[i] \in Nat

LEMMA PollReads ==
    ASSUME ShapeInv, Poll
    PROVE  /\ ShapeInv'
           /\ \E s : IsReadOf(s, Batch) /\ Reads(s, Cardinality(Batch), Len(mailbox))
<1>1. LogInv /\ FilesShape /\ JobShape
  BY DEF ShapeInv
<1>2. /\ pc \in {"poll", "take"} /\ pc' = "take" /\ job = NoJob
      /\ UNCHANGED <<board, offset, session, outbox, job, carried>>
  BY <1>1 DEF Poll, Goto, JobShape, files
<1>3. PICK s \in [1 .. Cardinality(Batch) -> Batch] :
         IsReadOf(s, Batch) /\ mailbox' = mailbox \o s
  BY DEF Poll
<1> DEFINE c == Cardinality(Batch)
           k == Len(mailbox)
<1>4. /\ c \in Nat /\ k \in Nat /\ s \in Seq(Nat) /\ Len(s) = c /\ DOMAIN s = 1 .. c
      /\ mailbox \in Seq(Nat) /\ DOMAIN mailbox = 1 .. k
  <2>1. c \in Nat /\ Batch \subseteq Nat
    BY <1>1, BatchShape
  <2>2. s \in [1 .. c -> Nat]
    BY <1>3, <2>1
  <2> HIDE DEF c
  <2>3. s \in Seq(Nat) /\ Len(s) = c /\ DOMAIN s = 1 .. c
    BY <2>1, <2>2
  <2>4. QED
    BY <1>1, <2>1, <2>3 DEF FilesShape
<1>5. /\ mailbox' \in Seq(Nat) /\ DOMAIN mailbox' = 1 .. k + c
      /\ \A i \in 1 .. k : mailbox'[i] = mailbox[i]
      /\ \A i \in 1 .. c : mailbox'[k + i] = s[i]
  BY <1>3, <1>4
<1>6. \A i \in 1 .. k + c : i \in 1 .. k \/ (i - k \in 1 .. c /\ mailbox'[i] = s[i - k])
  BY <1>4, <1>5
<1>7. \A i \in 1 .. c : /\ s[i] \in Batch /\ s[i] \in DOMAIN log /\ s[i] > offset
                        /\ log[s[i]].type \in AgentTypes /\ s[i] \in Nat
  BY <1>1, <1>3, <1>4, BatchShape
<1>8. Reads(s, c, k)
  BY <1>4, <1>5, <1>6, <1>7 DEF Reads
<1>9. LogInv' /\ CarriedOut' = CarriedOut /\ log' = log
  BY <1>1, <1>2, GrownOrSame DEF CarriedOut, board
<1>10. FilesShape'
  <2>1. \A i \in DOMAIN mailbox' :
           mailbox'[i] \in DOMAIN log /\ log[mailbox'[i]].type \in AgentTypes
    BY <1>1, <1>4, <1>5, <1>6, <1>7 DEF FilesShape, Input
  <2>2. QED
    BY <1>1, <1>2, <1>5, <1>9, <2>1 DEF FilesShape, Input, Home
<1>11. JobShape' /\ AheadInSession'
  BY <1>2, NoJobShape
<1>12. QED
  BY <1>3, <1>8, <1>9, <1>10, <1>11 DEF ShapeInv

LEMMA PollStep == ASSUME HostInv, Poll PROVE HostInv'
<1>1. /\ LogInv /\ FilesShape /\ JobShape /\ InboxInOrder /\ MovesConsumed /\ HomeConsumed
      /\ Remembered
  BY DEF HostInv, ShapeInv, PositionInv, SessionInv
<1>2. /\ pc \in {"poll", "take"} /\ pc' = "take" /\ job = NoJob
      /\ UNCHANGED <<log, view, offset, session, outbox, job, carried>>
  BY <1>1 DEF Poll, Goto, JobShape, board, files
<1>3. PICK s : IsReadOf(s, Batch) /\ Reads(s, Cardinality(Batch), Len(mailbox))
  BY PollReads DEF HostInv
<1> DEFINE c == Cardinality(Batch)
           k == Len(mailbox)
<1>4. /\ c \in Nat /\ k \in Nat /\ s \in Seq(Nat) /\ Len(s) = c /\ DOMAIN s = 1 .. c
      /\ mailbox \in Seq(Nat) /\ DOMAIN mailbox = 1 .. k
  BY <1>3 DEF Reads
<1>5. /\ DOMAIN mailbox' = 1 .. k + c
      /\ \A i \in 1 .. k : mailbox'[i] = mailbox[i]
      /\ \A i \in 1 .. c : mailbox'[k + i] = s[i]
  BY <1>3 DEF Reads
<1>6. \A i \in 1 .. k + c : i \in 1 .. k \/ (i - k \in 1 .. c /\ mailbox'[i] = s[i - k])
  BY <1>3 DEF Reads
<1>7. \A i \in 1 .. c : /\ s[i] \in Batch /\ s[i] \in DOMAIN log /\ s[i] > offset
                        /\ log[s[i]].type \in AgentTypes /\ s[i] \in Nat
  BY <1>3 DEF Reads
<1>8. ShapeInv'
  BY PollReads DEF HostInv
<1>9. AtMostOnce'
  BY <1>2 DEF HostInv, AtMostOnce
<1>10. /\ CarriedOut' = CarriedOut
       /\ \A h, a : Home(h, a)' <=> Home(h, a)
       /\ \A p, a : Early(p, a)' <=> Early(p, a)
       /\ \A a : Live(a)' <=> Live(a)
  BY <1>2 DEF CarriedOut, Home, Early, Live
<1>11. ASSUME NEW a \in CarriedOut, NoneWaits(a)
       PROVE  NoneWaits(a)'
  <2>1. \A i \in 1 .. c : ~Early(s[i], a)
    <3>1. \A i \in 1 .. c : Early(s[i], a) => s[i] <= offset
      BY <1>1, <1>7 DEF MovesConsumed
    <3>2. offset \in Nat
      BY <1>1 DEF FilesShape
    <3>3. QED
      BY <1>7, <3>1, <3>2
  <2>2. \A i \in 1 .. k : ~Early(mailbox[i], a)
    BY <1>4, <1>11 DEF NoneWaits
  <2>3. \A i \in DOMAIN mailbox' : ~Early(mailbox'[i], a)
    BY <1>5, <1>6, <2>1, <2>2
  <2>4. QED
    BY <1>2, <1>10, <1>11, <2>3 DEF NoneWaits
<1>12. InboxInOrder'
  <2>1. SUFFICES ASSUME NEW i \in DOMAIN mailbox', NEW p \in DOMAIN log,
                        log[p].type \in {"bid_round_opened", "task_replan"},
                        offset < p, p < mailbox'[i]
                 PROVE  p = job.src \/ \E j \in DOMAIN mailbox' : j < i /\ mailbox'[j] = p
    BY <1>2 DEF InboxInOrder
  <2>2. CASE i \in 1 .. k
    <3>1. p = job.src \/ \E j \in DOMAIN mailbox : j < i /\ mailbox[j] = p
      BY <1>1, <1>2, <1>4, <1>5, <2>1, <2>2 DEF InboxInOrder
    <3>2. QED
      BY <1>4, <1>5, <3>1
  <2>3. CASE i - k \in 1 .. c /\ mailbox'[i] = s[i - k]
    <3>1. p \in Unread
      BY <2>1 DEF Unread, AgentTypes
    <3>2. p \in Batch
      BY <1>1, <1>7, <2>1, <2>3, <3>1, BatchShape
    <3>3. PICK j \in 1 .. c : s[j] = p
      BY <1>3, <1>4, <3>2 DEF IsReadOf, Range
    <3>4. j < i - k
      <4>1. \A x, y \in 1 .. c : x < y => s[x] < s[y]
        BY <1>3, <1>4 DEF IsReadOf
      <4>2. ~(i - k < j) /\ j # i - k
        BY <1>4, <1>7, <2>1, <2>3, <3>3, <4>1
      <4>3. QED
        BY <1>4, <2>3, <4>2
    <3>5. k + j \in DOMAIN mailbox' /\ mailbox'[k + j] = p
      <4>1. mailbox'[k + j] = s[j]
        BY <1>5, <3>3
      <4>2. k \in Nat /\ c \in Nat
        BY <1>4
      <4>3. DOMAIN mailbox' = 1 .. k + c
        BY <1>5
      <4> HIDE DEF c, k
      <4>4. k + j \in 1 .. k + c
        BY <3>3, <4>2
      <4>5. QED
        BY <3>3, <4>1, <4>3, <4>4
    <3>6. c \in Nat /\ k \in Nat /\ j \in Int /\ i \in Int
      BY <1>4, <1>5
    <3>7. k + j < i
      <4> HIDE DEF c, k
      <4>1. QED
        BY <3>4, <3>6
    <3>8. QED
      BY <3>5, <3>7
  <2>4. QED
    BY <1>5, <1>6, <2>1, <2>2, <2>3
<1>13. MovesConsumed'
  BY <1>1, <1>2, <1>10 DEF MovesConsumed
<1>14. HomeConsumed'
  BY <1>1, <1>2, <1>10, <1>11 DEF HomeConsumed
<1>15. AheadIsNew' /\ RememberedAfter'
  BY <1>2 DEF AheadIsNew, RememberedAfter, Ahead, Pending
<1>16. Remembered'
  <2>1. SUFFICES ASSUME NEW a \in CarriedOut, Live(a)
                 PROVE  /\ Knows(session[a.task], a)
                        /\ session[a.task].epoch >= a.epoch \/ NoneWaits(a)'
    BY <1>2, <1>10 DEF Remembered, Knows, Begins
  <2>2. QED
    BY <1>1, <1>2, <1>11, <2>1 DEF Remembered
<1>17. QED
  BY <1>8, <1>9, <1>12, <1>13, <1>14, <1>15, <1>16 DEF HostInv, PositionInv, SessionInv

-----------------------------------------------------------------------------
(* Steps that carry an action out and save what came of it.                *)

\* Nothing moves in the log, the inbox and the job.
LEMMA PositionSame ==
    ASSUME HostInv, UNCHANGED <<board, offset, mailbox, carried>>,
           job'.src = job.src, job'.act = job.act, pc # "down", pc' # "down"
    PROVE  /\ PositionInv' /\ AtMostOnce'
           /\ CarriedOut' = CarriedOut
           /\ \A a \in Known : /\ Live(a)' => Live(a)
                               /\ NoneWaits(a)' <=> NoneWaits(a)
                               /\ \A p : Early(p, a)' <=> Early(p, a)
<1>1. /\ log' = log /\ view' = view /\ CarriedOut' = CarriedOut
  BY DEF board, CarriedOut
<1>2. /\ \A h, a : Home(h, a)' <=> Home(h, a)
      /\ \A p, a : Early(p, a)' <=> Early(p, a)
      /\ \A a : Live(a)' <=> Live(a)
  BY <1>1 DEF Home, Early, Live
<1>3. \A a : NoneWaits(a)' <=> NoneWaits(a)
  BY <1>1, <1>2 DEF NoneWaits
<1>4. InboxInOrder'
  BY <1>1 DEF HostInv, PositionInv, InboxInOrder
<1>5. MovesConsumed'
  BY <1>1, <1>2 DEF HostInv, PositionInv, MovesConsumed
<1>6. HomeConsumed'
  BY <1>1, <1>2, <1>3 DEF HostInv, PositionInv, HomeConsumed
<1>7. AtMostOnce'
  BY DEF HostInv, AtMostOnce
<1>8. QED
  BY <1>1, <1>2, <1>3, <1>4, <1>5, <1>6, <1>7 DEF PositionInv

\* The intercept goes to the outbox, or the session says "dispatching".
Marks(t, w) ==
    /\ pc' = "dispatch" /\ job' = job /\ t = job.task /\ t \in Tasks
    /\ Begins(session[t], job.act) /\ session[t] \in Sessions
    /\ w \in Sessions /\ w.intent \in Intents /\ w.epoch = session[t].epoch
    /\ w.intent.act = job.act /\ w.intent.state = "dispatching"
    /\ session'[t] = w /\ \A x \in Tasks \ {t} : session'[x] = session[x]

LEMMA PreCheckShape ==
    ASSUME ShapeInv, PreCheck
    PROVE  ShapeInv' /\ (Plain \/ \E t, w : Marks(t, w))
<1> DEFINE t == job.task
           s == session[t]
<1>1. /\ pc = "precheck" /\ job \in Jobs /\ job.act # None /\ Home(job.src, job.act)
      /\ t = job.act.task /\ t \in Tasks
      /\ UNCHANGED <<board, offset, outbox, refused, raw, mailbox, carried>>
  <2>1. /\ pc = "precheck" /\ job \in Jobs /\ job.act # None /\ Home(job.src, job.act)
        /\ t = job.act.task /\ UNCHANGED <<board, offset, outbox, refused, raw, mailbox, carried>>
    BY DEF ShapeInv, JobShape, PreCheck
  <2>2. t \in Tasks
    BY <2>1, HomeShape DEF ShapeInv, TaskRevs
  <2>3. QED
    BY <2>1, <2>2
<1>2. CASE Publish(Intercepted(job.act, "pre"), "finish") /\ UNCHANGED session
  <2>1. IsHostEvent(Intercepted(job.act, "pre")) /\ job.stale \in BOOLEAN
    BY <1>1, HomePublishes DEF ShapeInv, Jobs
  <2>2. /\ pc' = "stage"
        /\ job' = [job EXCEPT !.out = Intercepted(job.act, "pre"), !.then = "finish",
                              !.stale = job.stale]
    BY <1>1, <1>2 DEF Publish, Goto, Jobs
  <2>3. QED
    BY <1>1, <1>2, <2>1, <2>2, PublishStep DEF files
<1>3. CASE MarkDispatching(t) /\ pc' = "dispatch" /\ job' = job
  <2>1. session \in [Tasks -> Sessions \cup {None}] /\ Begins(s, job.act)
    BY <1>1 DEF ShapeInv, FilesShape, AheadInSession, Ahead
  <2>2. s \in Sessions /\ s.intent \in Intents
    BY <1>1, <2>1 DEF Begins, Sessions
  <2>3. session' = [session EXCEPT ![t] = [s EXCEPT !.intent = [s.intent EXCEPT !.state = "dispatching"]]]
    BY <1>1, <1>3, <2>1 DEF MarkDispatching
  <2> DEFINE i == [s.intent EXCEPT !.state = "dispatching"]
             w == [s EXCEPT !.intent = i]
  <2>4. i \in Intents /\ i.act = s.intent.act /\ i.state = "dispatching"
    BY <2>2 DEF Intents, IntentStates
  <2>5. w \in Sessions /\ w.intent = i /\ w.epoch = s.epoch
    BY <2>2, <2>4 DEF Sessions
  <2>6. /\ session'[t] = w /\ \A x \in Tasks \ {t} : session'[x] = session[x]
        /\ session' \in [Tasks -> Sessions \cup {None}]
    BY <1>1, <2>1, <2>3, <2>5
  <2>7. LogInv' /\ Grown
    BY <1>1, GrownOrSame DEF ShapeInv
  <2>8. FilesShape'
    BY <1>1, <2>6, <2>7, FilesKept, Outboxes DEF ShapeInv, FilesShape
  <2>9. JobShape'
    <3>1. log' = log /\ ~Pending'
      BY <1>1, <1>3 DEF board, Pending
    <3>2. QED
      BY <1>1, <1>3, <3>1 DEF ShapeInv, JobShape, Input, Home
  <2>10. w # None /\ i # None
    BY <2>4, <2>5, AbsentAssumption
  <2>11. AheadInSession'
    BY <1>1, <1>3, <2>1, <2>4, <2>5, <2>6, <2>10 DEF AheadInSession, Begins
  <2>12. Marks(t, w)
    BY <1>1, <1>3, <2>1, <2>2, <2>4, <2>5, <2>6 DEF Marks, Begins
  <2>13. QED
    BY <2>7, <2>8, <2>9, <2>11, <2>12 DEF ShapeInv
<1>4. QED
  BY <1>2, <1>3 DEF PreCheck, Goto

LEMMA PreCheckStep == ASSUME HostInv, PreCheck PROVE HostInv'
<1>1. ShapeInv' /\ (Plain \/ \E t, w : Marks(t, w))
  BY PreCheckShape DEF HostInv
<1>2. ASSUME NEW t, NEW w, Marks(t, w)
      PROVE  HostInv'
  <2>1. /\ pc = "precheck" /\ job' = job /\ pc' = "dispatch" /\ Ahead
        /\ UNCHANGED <<board, offset, mailbox, carried>>
        /\ Remembered /\ AheadIsNew /\ LogInv /\ FilesShape
    BY <1>2 DEF Marks, PreCheck, Ahead, HostInv, ShapeInv, SessionInv
  <2>2. /\ PositionInv' /\ AtMostOnce' /\ CarriedOut' = CarriedOut
        /\ \A a \in CarriedOut : /\ Live(a)' => Live(a)
                                 /\ NoneWaits(a)' <=> NoneWaits(a)
    BY <2>1, PositionSame DEF Known
  <2>3. /\ t = job.task /\ w # None /\ w.intent # None /\ w.intent.state # "proposed"
        /\ w.intent.act = job.act /\ w.epoch = session[t].epoch
        /\ session[t].intent.act = job.act
        /\ session'[t] = w /\ \A x \in Tasks \ {t} : session'[x] = session[x]
    BY <1>2, AbsentAssumption DEF Marks, Begins
  <2>4. Knows(w, job.act) /\ \A a : Knows(session[t], a) => Knows(w, a)
    BY <2>3 DEF Knows, Begins
  <2>5. AheadIsNew'
    BY <2>1, <2>2, <2>3, <2>4 DEF AheadIsNew, Knows, Begins
  <2>6. ASSUME NEW a \in CarriedOut, Live(a)'
        PROVE  /\ Knows(session'[a.task], a)
               /\ session'[a.task].epoch >= a.epoch \/ NoneWaits(a)'
    <3>1. PICK h \in DOMAIN log : Home(h, a)
      BY <2>1 DEF FilesShape
    <3>2. a.task \in Tasks
      BY <2>1, <3>1, HomeShape DEF TaskRevs
    <3>3. /\ Knows(session[a.task], a)
          /\ session[a.task].epoch >= a.epoch \/ NoneWaits(a)
      BY <2>1, <2>2, <2>6 DEF Remembered
    <3>4. QED
      BY <2>2, <2>3, <2>4, <3>2, <3>3
  <2>7. Remembered'
    BY <2>2, <2>6 DEF Remembered, Knows, Begins
  <2>8. RememberedAfter'
    BY <2>1 DEF RememberedAfter, Pending
  <2>9. QED
    BY <1>1, <2>2, <2>5, <2>7, <2>8 DEF HostInv, SessionInv
<1>3. QED
  BY <1>1, <1>2, PlainStep

LEMMA DispatchShape ==
    ASSUME ShapeInv, Dispatch
    PROVE  /\ ShapeInv' /\ CarriedOut' = CarriedOut \cup {job.act}
           /\ job'.src = job.src /\ job'.act = job.act
           /\ \E o \in Outcomes : /\ job'.outcome = o
                                 /\ carried' = Append(carried, [act |-> job.act, outcome |-> o])
<1> DEFINE a0 == job.act
<1>1. /\ pc = "dispatch" /\ pc' = "store" /\ job \in Jobs /\ a0 # None /\ Home(job.src, a0)
      /\ job.task = a0.task /\ carried \in Seq([act : Actions, outcome : Outcomes])
      /\ UNCHANGED <<board, files, mailbox>>
      /\ LogInv /\ FilesShape /\ JobShape
  BY DEF ShapeInv, JobShape, FilesShape, Dispatch, Goto
<1>2. PICK o \in Outcomes : /\ carried' = Append(carried, [act |-> a0, outcome |-> o])
                            /\ job' = [job EXCEPT !.outcome = o]
  BY DEF Dispatch
<1>3. /\ job' \in Jobs /\ job'.src = job.src /\ job'.act = a0 /\ job'.task = job.task
      /\ job'.after = job.after /\ job'.clean = job.clean /\ job'.outcome = o
  BY <1>1, <1>2 DEF Jobs
<1>4. log' = log /\ \A h, a : Home(h, a)' <=> Home(h, a)
  BY <1>1 DEF board, Home
<1>5. a0 \in Actions
  BY <1>1, HomeShape
<1>6. /\ carried' \in Seq([act : Actions, outcome : Outcomes])
      /\ DOMAIN carried' = 1 .. Len(carried) + 1 /\ DOMAIN carried = 1 .. Len(carried)
      /\ \A n \in DOMAIN carried : carried'[n] = carried[n]
      /\ carried'[Len(carried) + 1].act = a0 /\ Len(carried) \in Nat
  BY <1>1, <1>2, <1>5
<1>7. CarriedOut' = CarriedOut \cup {a0}
  BY <1>6 DEF CarriedOut
<1>8. FilesShape'
  <2>1. \A a \in CarriedOut \cup {a0} : \E h \in DOMAIN log : Home(h, a)
    BY <1>1 DEF FilesShape, Home
  <2>2. QED
    BY <1>1, <1>4, <1>6, <1>7, <2>1 DEF FilesShape, files, Input
<1>9. JobShape'
  <2>1. ~Pending'
    BY <1>1 DEF Pending
  <2>2. QED
    BY <1>1, <1>3, <1>4, <2>1 DEF JobShape, Input, Home
<1>10. LogInv' /\ AheadInSession'
  BY <1>1, GrownOrSame DEF AheadInSession, Ahead
<1>11. QED
  BY <1>2, <1>3, <1>7, <1>8, <1>9, <1>10 DEF ShapeInv

LEMMA DispatchStep == ASSUME HostInv, Dispatch PROVE HostInv'
<1> DEFINE a0 == job.act
<1>1. /\ pc = "dispatch" /\ pc' = "store" /\ job \in Jobs /\ a0 # None /\ Home(job.src, a0)
      /\ job.task = a0.task /\ carried \in Seq([act : Actions, outcome : Outcomes])
      /\ UNCHANGED <<board, files, mailbox>>
      /\ LogInv /\ FilesShape /\ JobShape /\ InboxInOrder /\ MovesConsumed /\ HomeConsumed
      /\ AheadInSession /\ AheadIsNew /\ Remembered
  BY DEF HostInv, ShapeInv, JobShape, FilesShape, Dispatch, Goto, PositionInv, SessionInv
<1>2. PICK o \in Outcomes : carried' = Append(carried, [act |-> a0, outcome |-> o])
  BY DEF Dispatch
<1>3. /\ ShapeInv' /\ CarriedOut' = CarriedOut \cup {a0}
      /\ job'.src = job.src /\ job'.act = a0
  BY DispatchShape DEF HostInv
<1>4. /\ log' = log /\ view' = view
      /\ \A h, a : Home(h, a)' <=> Home(h, a)
      /\ \A p, a : Early(p, a)' <=> Early(p, a)
      /\ \A a : Live(a)' <=> Live(a)
  BY <1>1 DEF board, Home, Early, Live
<1>5. \A a : NoneWaits(a)' <=> NoneWaits(a)
  BY <1>1, <1>3, <1>4 DEF NoneWaits
<1>6. a0 \in Actions
  BY <1>1, HomeShape
<1>7. /\ carried' \in Seq([act : Actions, outcome : Outcomes])
      /\ DOMAIN carried' = 1 .. Len(carried) + 1 /\ DOMAIN carried = 1 .. Len(carried)
      /\ \A n \in DOMAIN carried : carried'[n] = carried[n]
      /\ carried'[Len(carried) + 1].act = a0 /\ Len(carried) \in Nat
  BY <1>1, <1>2, <1>6
<1>8. AtMostOnce'
  <2>1. a0 \notin CarriedOut
    BY <1>1 DEF AheadIsNew, Ahead
  <2>2. \A n \in DOMAIN carried : carried[n].act # a0
    BY <2>1 DEF CarriedOut
  <2>3. \A m, n \in DOMAIN carried : m # n => carried[m].act # carried[n].act
    BY DEF HostInv, AtMostOnce
  <2>4. \A n \in DOMAIN carried' : n \in DOMAIN carried \/ n = Len(carried) + 1
    BY <1>7
  <2>5. \A m, n \in DOMAIN carried' : m # n => carried'[m].act # carried'[n].act
    BY <1>7, <2>2, <2>3, <2>4
  <2>6. QED
    BY <2>5 DEF AtMostOnce
<1>9. PositionInv'
  <2>1. InboxInOrder'
    BY <1>1, <1>3, <1>4 DEF InboxInOrder, files
  <2>2. MovesConsumed'
    BY <1>1, <1>3, <1>4 DEF MovesConsumed, files
  <2>3. HomeConsumed'
    <3>1. ASSUME NEW a \in CarriedOut \cup {a0}
          PROVE  \/ \E h \in DOMAIN log : Home(h, a) /\ (h <= offset \/ h = job.src)
                 \/ NoneWaits(a)
      BY <1>1 DEF HomeConsumed, Home
    <3>2. QED
      BY <1>1, <1>3, <1>4, <1>5, <3>1 DEF HomeConsumed, files
  <2>4. QED
    BY <2>1, <2>2, <2>3 DEF PositionInv
<1>10. SessionInv'
  <2>1. /\ Knows(session[a0.task], a0) /\ session[a0.task].epoch = a0.epoch /\ a0.epoch \in Nat
    BY <1>1, HomeShape DEF AheadIsNew, Ahead
  <2>2. ASSUME NEW a \in CarriedOut \cup {a0}, Live(a)
        PROVE  /\ Knows(session[a.task], a)
               /\ session[a.task].epoch >= a.epoch \/ NoneWaits(a)
    <3>1. CASE a \in CarriedOut
      BY <1>1, <2>2, <3>1 DEF Remembered
    <3>2. CASE a = a0
      BY <2>1, <3>2
    <3>3. QED
      BY <3>1, <3>2
  <2>3. Remembered'
    BY <1>1, <1>3, <1>4, <1>5, <2>2 DEF Remembered, Knows, Begins, files
  <2>4. AheadIsNew' /\ RememberedAfter'
    BY <1>1 DEF AheadIsNew, RememberedAfter, Ahead, Pending
  <2>5. QED
    BY <2>3, <2>4 DEF SessionInv
<1>11. QED
  BY <1>3, <1>8, <1>9, <1>10 DEF HostInv

LEMMA SaveSessionShape ==
    ASSUME ShapeInv, SaveSession
    PROVE  /\ ShapeInv' /\ session \in [Tasks -> Sessions \cup {None}]
           /\ job.act = None => Pending /\ job.task \in Tasks
<1>1. /\ pc = "finish" /\ pc' = "offset" /\ job' = job /\ job \in Jobs /\ job.src # 0
      /\ UNCHANGED <<board, offset, outbox, refused, raw, mailbox, carried>>
      /\ session' = IF job.act # None THEN session
                    ELSE [session EXCEPT ![job.task] = job.after]
      /\ LogInv /\ FilesShape /\ JobShape
  BY DEF ShapeInv, JobShape, SaveSession, Goto
<1>2. job.act = None => /\ Pending /\ job.after \in Sessions
                        /\ job.task = log[job.src].task /\ job.task \in Tasks
  <2>1. job.src \in DOMAIN log
    BY <1>1 DEF JobShape, Input
  <2>2. QED
    BY <1>1, <2>1, InputShape DEF JobShape, Pending
<1>3. /\ session \in [Tasks -> Sessions \cup {None}]
      /\ session' \in [Tasks -> Sessions \cup {None}]
  <2>1. session \in [Tasks -> Sessions \cup {None}]
    BY <1>1 DEF FilesShape
  <2>2. QED
    BY <1>1, <1>2, <2>1
<1>4. LogInv' /\ Grown
  BY <1>1, GrownOrSame
<1>5. FilesShape'
  BY <1>1, <1>3, <1>4, FilesKept, Outboxes DEF FilesShape
<1>6. JobShape'
  <2>1. log' = log /\ ~Pending'
    BY <1>1 DEF board, Pending
  <2>2. QED
    BY <1>1, <2>1 DEF JobShape, Input, Home
<1>7. AheadInSession'
  BY <1>1 DEF AheadInSession, Ahead
<1>8. QED
  BY <1>2, <1>3, <1>4, <1>5, <1>6, <1>7 DEF ShapeInv

LEMMA SaveSessionStep == ASSUME HostInv, SaveSession PROVE HostInv'
<1>1. /\ pc = "finish" /\ pc' = "offset" /\ job' = job /\ job \in Jobs /\ job.src # 0
      /\ UNCHANGED <<board, offset, outbox, refused, raw, mailbox, carried>>
      /\ session' = IF job.act # None THEN session
                    ELSE [session EXCEPT ![job.task] = job.after]
      /\ LogInv /\ FilesShape /\ JobShape /\ HomeConsumed /\ Remembered /\ RememberedAfter
  BY DEF HostInv, ShapeInv, JobShape, SaveSession, Goto, PositionInv, SessionInv
<1>2. /\ PositionInv' /\ AtMostOnce' /\ CarriedOut' = CarriedOut
      /\ \A a \in CarriedOut : /\ Live(a)' => Live(a)
                               /\ NoneWaits(a)' <=> NoneWaits(a)
  BY <1>1, PositionSame DEF Known
<1>3. ShapeInv' /\ (job.act = None => Pending /\ job.task \in Tasks)
  BY SaveSessionShape DEF HostInv
<1>4. session \in [Tasks -> Sessions \cup {None}]
  BY <1>1 DEF FilesShape
<1>5. ASSUME NEW a \in CarriedOut, Live(a)
      PROVE  /\ Knows(session'[a.task], a)
             /\ session'[a.task].epoch >= a.epoch \/ NoneWaits(a) \/ job.src < offset
  <2>1. PICK h \in DOMAIN log : Home(h, a)
    BY <1>1 DEF FilesShape
  <2>2. a.task \in Tasks /\ h \in Nat /\ job.src \in Nat /\ offset \in Nat
    BY <1>1, <2>1, HomeShape DEF TaskRevs, Jobs, FilesShape
  <2>3. CASE session'[a.task] = session[a.task]
    BY <1>1, <1>5, <2>3 DEF Remembered
  <2>4. CASE job.act = None /\ a.task = job.task
    <3>1. session'[a.task] = job.after
      BY <1>1, <1>4, <2>2, <2>4
    <3>2. /\ Knows(job.after, a)
          /\ job.after.epoch >= a.epoch \/ Early(job.src, a) \/ NoneWaits(a)
      BY <1>1, <1>3, <1>5, <2>4 DEF RememberedAfter
    <3>3. ASSUME Early(job.src, a) PROVE job.src < offset
      <4>1. PICK k \in DOMAIN log : Home(k, a) /\ job.src < k
        BY <3>3 DEF Early
      <4>2. h = k
        BY <1>1, <2>1, <4>1, OneHome
      <4>3. PICK l \in DOMAIN log : Home(l, a) /\ (l <= offset \/ l = job.src)
        BY <1>1, <3>3 DEF HomeConsumed, NoneWaits
      <4>4. h = l
        BY <1>1, <2>1, <4>3, OneHome
      <4>5. QED
        BY <2>2, <4>1, <4>2, <4>3, <4>4
    <3>4. QED
      BY <3>1, <3>2, <3>3
  <2>5. QED
    BY <1>1, <1>4, <2>2, <2>3, <2>4
<1>6. Remembered'
  BY <1>1, <1>2, <1>5 DEF Remembered, Knows, Begins
<1>7. AheadIsNew' /\ RememberedAfter'
  BY <1>1 DEF AheadIsNew, RememberedAfter, Ahead, Pending
<1>8. QED
  BY <1>2, <1>3, <1>6, <1>7 DEF HostInv, SessionInv

LEMMA SaveOffsetShape ==
    ASSUME ShapeInv, SaveOffset
    PROVE  /\ ShapeInv'
           /\ \/ job.src < offset /\ Plain
              \/ job.src \in DOMAIN log /\ offset <= job.src
<1>1. /\ pc = "offset" /\ job \in Jobs /\ job.src # 0 /\ job.src \in Nat /\ offset \in Nat
      /\ UNCHANGED <<board, session, outbox, refused, raw, mailbox, carried>>
      /\ LogInv /\ FilesShape /\ JobShape /\ job.src \in DOMAIN log
  BY DEF ShapeInv, JobShape, Jobs, FilesShape, SaveOffset, Input
<1>2. CASE job.src < offset
  <2>1. Drops /\ pc' = "down"
    BY <1>1, <1>2 DEF SaveOffset, Abort, Leave, Goto, Drops
  <2>2. QED
    BY <1>1, <1>2, <2>1, DropShape, Outboxes DEF Drops, Plain
<1>3. CASE ~(job.src < offset)
  <2>1. offset' = job.src /\ pc' = "settle" /\ job' = job /\ offset <= job.src
    BY <1>1, <1>3 DEF SaveOffset, Goto
  <2>2. LogInv' /\ Grown
    BY <1>1, GrownOrSame
  <2>3. FilesShape'
    BY <1>1, <2>1, <2>2, FilesKept, Outboxes DEF FilesShape
  <2>4. JobShape'
    <3>1. log' = log /\ ~Pending'
      BY <1>1, <2>1 DEF board, Pending
    <3>2. QED
      BY <1>1, <2>1, <3>1 DEF JobShape, Input, Home
  <2>5. AheadInSession'
    BY <2>1 DEF AheadInSession, Ahead
  <2>6. QED
    BY <1>1, <2>1, <2>2, <2>3, <2>4, <2>5 DEF ShapeInv
<1>4. QED
  BY <1>2, <1>3

LEMMA SaveOffsetStep == ASSUME HostInv, SaveOffset PROVE HostInv'
<1>1. /\ pc = "offset" /\ job \in Jobs /\ job.src # 0 /\ job.src \in Nat /\ offset \in Nat
      /\ UNCHANGED <<board, session, outbox, refused, raw, mailbox, carried>>
      /\ LogInv /\ FilesShape /\ JobShape /\ InboxInOrder /\ MovesConsumed /\ HomeConsumed
      /\ Remembered /\ ShapeInv
  BY DEF HostInv, ShapeInv, JobShape, Jobs, FilesShape, SaveOffset, PositionInv, SessionInv
<1>2. CASE job.src < offset
  <2>1. ShapeInv' /\ Plain
    BY <1>1, <1>2, SaveOffsetShape
  <2>2. QED
    BY <2>1, PlainStep
<1>3. CASE ~(job.src < offset)
  <2>1. offset' = job.src /\ pc' = "settle" /\ job' = job /\ offset <= job.src
    BY <1>1, <1>3 DEF SaveOffset, Goto
  <2>2. /\ log' = log /\ view' = view /\ CarriedOut' = CarriedOut
    BY <1>1 DEF board, CarriedOut
  <2>3. /\ \A h, a : Home(h, a)' <=> Home(h, a)
        /\ \A p, a : Early(p, a)' <=> Early(p, a)
        /\ \A a : Live(a)' <=> Live(a)
    BY <2>2 DEF Home, Early, Live
  <2>4. \A a : NoneWaits(a)' <=> NoneWaits(a)
    BY <1>1, <2>1, <2>3 DEF NoneWaits
  <2>5. ShapeInv'
    BY <1>1, SaveOffsetShape
  <2>6. \A p \in DOMAIN log : p \in Nat
    BY <1>1 DEF LogInv, LogShape
  <2>7. InboxInOrder'
    <3>1. SUFFICES ASSUME NEW i \in DOMAIN mailbox, NEW p \in DOMAIN log,
                          log[p].type \in {"bid_round_opened", "task_replan"},
                          job.src < p, p < mailbox[i]
                   PROVE  \E j \in DOMAIN mailbox : j < i /\ mailbox[j] = p
      BY <1>1, <2>1, <2>2 DEF InboxInOrder
    <3>2. offset < p /\ p # job.src
      BY <1>1, <2>1, <2>6, <3>1
    <3>3. QED
      BY <1>1, <3>1, <3>2 DEF InboxInOrder
  <2>8. MovesConsumed'
    <3>1. ASSUME NEW a \in CarriedOut \cup ({job.act} \ {None}), NEW p \in DOMAIN log, Early(p, a)
          PROVE  p <= job.src
      <4>1. p <= offset
        BY <1>1, <3>1 DEF MovesConsumed
      <4>2. QED
        BY <1>1, <2>1, <2>6, <4>1
    <3>2. QED
      BY <2>1, <2>2, <2>3, <3>1 DEF MovesConsumed
  <2>9. HomeConsumed'
    <3>1. ASSUME NEW a \in CarriedOut
          PROVE  (\E h \in DOMAIN log : Home(h, a) /\ h <= job.src) \/ NoneWaits(a)
      BY <1>1, <2>1, <2>6 DEF HomeConsumed
    <3>2. QED
      BY <2>1, <2>2, <2>3, <2>4, <3>1 DEF HomeConsumed
  <2>10. Remembered'
    <3>1. ASSUME NEW a \in CarriedOut, Live(a)
          PROVE  /\ Knows(session[a.task], a)
                 /\ session[a.task].epoch >= a.epoch \/ NoneWaits(a)
      BY <1>1, <1>3, <3>1 DEF Remembered
    <3>2. QED
      BY <1>1, <2>2, <2>3, <2>4, <3>1 DEF Remembered, Knows, Begins
  <2>11. AheadIsNew' /\ RememberedAfter'
    BY <2>1 DEF AheadIsNew, RememberedAfter, Ahead, Pending
  <2>12. AtMostOnce'
    BY <1>1 DEF HostInv, AtMostOnce
  <2>13. QED
    BY <2>5, <2>7, <2>8, <2>9, <2>10, <2>11, <2>12
       DEF HostInv, PositionInv, SessionInv
<1>4. QED
  BY <1>2, <1>3

\* A session is removed once its task is over.
LEMMA CleanupShape ==
    ASSUME ShapeInv, Cleanup
    PROVE  /\ ShapeInv' /\ pc = "settle" /\ pc' = "take" /\ job' = NoJob /\ job.src <= offset
           /\ job.src \in DOMAIN log /\ log[job.src].type \in TerminalTypes
           /\ job.task = log[job.src].task
           /\ UNCHANGED <<board, offset, outbox, mailbox, carried>>
           /\ session' = session \/ session' = [session EXCEPT ![job.task] = None]
<1>1. /\ pc = "settle" /\ pc' = "take" /\ job' = NoJob /\ job.src <= offset
      /\ job.src \in DOMAIN log /\ log[job.src].type \in TerminalTypes
      /\ job.task = log[job.src].task
      /\ UNCHANGED <<board, offset, outbox, mailbox, carried>>
      /\ session' = session \/ session' = [session EXCEPT ![job.task] = None]
  BY DEF ShapeInv, JobShape, Input, Cleanup, Leave, Goto
<1>2. session' \in [Tasks -> Sessions \cup {None}]
  BY <1>1, Outboxes
<1>3. QED
  BY <1>1, <1>2, DropShape, Outboxes

LEMMA CleanupStep == ASSUME OneRevision, HostInv, Cleanup PROVE HostInv'
<1> DEFINE e == log[job.src]
<1>1. /\ ShapeInv' /\ pc = "settle" /\ pc' = "take" /\ job' = NoJob /\ job.src <= offset
      /\ job.src \in DOMAIN log /\ e.type \in TerminalTypes /\ job.task = e.task
      /\ UNCHANGED <<board, offset, outbox, mailbox, carried>>
      /\ session' = session \/ session' = [session EXCEPT ![job.task] = None]
      /\ LogInv /\ FilesShape
  BY CleanupShape DEF HostInv, ShapeInv
<1>2. view[<<e.task, e.rev>>].terminal # None /\ e.rev = 1
  <2>1. e.rev \in Revs
    BY <1>1, InputShape, EventShape DEF TerminalTypes
  <2>2. QED
    BY <1>1, <2>1 DEF LogInv, EndsSeen, OneRevision
<1>3. ASSUME NEW a \in CarriedOut, Live(a)
      PROVE  session'[a.task] = session[a.task]
  <2>1. PICK h \in DOMAIN log : Home(h, a)
    BY <1>1 DEF FilesShape
  <2>2. a.task \in Tasks /\ a.rev = 1
    BY <1>1, <2>1, HomeShape DEF TaskRevs, OneRevision
  <2>3. a.task # job.task
    BY <1>1, <1>2, <1>3, <2>2 DEF Live
  <2>4. QED
    BY <1>1, <2>2, <2>3 DEF FilesShape
<1>4. Drops
  BY <1>1, <1>3 DEF Drops
<1>5. QED
  BY <1>1, <1>4, PlainStep DEF Plain

-----------------------------------------------------------------------------
(* The loop.                                                               *)

LEMMA LoadedType ==
    ASSUME session \in [Tasks -> Sessions \cup {None}], NEW t \in Tasks
    PROVE  Loaded(t) \in Sessions /\ (session[t] # None => Loaded(t) = session[t])
<1>1. Observed \in Sessions
  BY DEF Observed, Sessions
<1>2. QED
  BY <1>1 DEF Loaded

LEMMA SessionAfterType ==
    ASSUME LogInv, NEW n, Input(n), NEW s \in Sessions, NEW yes \in BOOLEAN
    PROVE  SessionAfter(log[n], s, yes) \in Sessions
<1> DEFINE e == log[n]
<1>1. n \in DOMAIN log /\ e.type \in AgentTypes /\ e \in Event
  BY InputShape DEF Input
<1>2. ASSUME e.type = "bid_round_opened" PROVE AfterRound(e, s, yes) \in Sessions
  <2>1. e.epoch \in Nat
    BY <1>1, <1>2, RoundShape
  <2>2. QED
    BY <2>1 DEF AfterRound, Sessions
<1>3. ASSUME e.type = "task_assigned" PROVE AfterAssigned(e, s) \in Sessions
  <2>1. e.epoch \in Nat
    BY <1>1, <1>3, AssignedShape
  <2>2. CASE ForMe(e)
    <3>1. Home(n, MyAct(e))
      BY <1>1, <1>3, <2>2 DEF Home
    <3>2. MyAct(e) \in Actions /\ MyAct(e).asg \in Mine
      BY <3>1, HomeShape
    <3>3. s.intent # None => s.intent \in Intents
      BY DEF Sessions
    <3>4. [act |-> MyAct(e), state |-> "proposed"] \in Intents
      BY <3>2 DEF Intents, IntentStates
    <3>5. Begun(e, s) => s.intent # None
      BY DEF Begun
    <3>6. (IF Begun(e, s) THEN s.intent ELSE [act |-> MyAct(e), state |-> "proposed"]) \in Intents
      BY <3>3, <3>4, <3>5
    <3>7. QED
      BY <2>1, <2>2, <3>2, <3>6 DEF AfterAssigned, Sessions
  <2>3. CASE ~ForMe(e)
    BY <2>1, <2>3 DEF AfterAssigned, Sessions
  <2>4. QED
    BY <2>2, <2>3
<1>4. ASSUME s.intent # None, NEW x \in IntentStates
      PROVE  [s EXCEPT !.intent.state = x] \in Sessions
  <2>1. s.intent \in Intents
    BY <1>4 DEF Sessions
  <2>2. [s.intent EXCEPT !.state = x] \in Intents
    BY <2>1 DEF Intents
  <2>3. QED
    BY <2>2 DEF Sessions
<1>5. ASSUME NEW r \in Sessions, NEW x \in {"observed", "standby", "active", "done", "failed"}
      PROVE  [r EXCEPT !.state = x] \in Sessions
  BY DEF Sessions
<1>6. AfterIntent(e, s) \in Sessions
  BY <1>4 DEF AfterIntent, Concerns, IntentStates
<1>7. AfterReceipt(e, s) \in Sessions
  <2>1. Concerns(e, s) => /\ [s EXCEPT !.intent.state = "succeeded"] \in Sessions
                          /\ [s EXCEPT !.intent.state = "failed"] \in Sessions
    BY <1>4 DEF Concerns, IntentStates
  <2>2. Concerns(e, s) => [[s EXCEPT !.intent.state = "failed"] EXCEPT !.state = "failed"] \in Sessions
    BY <1>5, <2>1
  <2>3. QED
    BY <2>1, <2>2 DEF AfterReceipt
<1>8. AfterIntercept(e, s) \in Sessions
  <2>1. Concerns(e, s) => [s EXCEPT !.intent.state = "safety_blocked"] \in Sessions
    BY <1>4 DEF Concerns, IntentStates
  <2>2. Concerns(e, s) =>
           [[s EXCEPT !.intent.state = "safety_blocked"] EXCEPT !.state = "failed"] \in Sessions
    BY <1>5, <2>1
  <2>3. QED
    BY <2>2 DEF AfterIntercept
<1>9. AfterCompleted(e, s) \in Sessions /\ AfterStop(s, yes) \in Sessions
  BY <1>5 DEF AfterCompleted, AfterStop
<1>10. ASSUME e.type = "task_replan" PROVE AfterReplan(e, s) \in Sessions
  <2>1. e.from + 1 \in Nat
    BY <1>1, <1>10, ReplanShape
  <2>2. QED
    BY <2>1 DEF AfterReplan, Observed, Sessions
<1>11. [s EXCEPT !.state = "done"] \in Sessions /\ [s EXCEPT !.state = "failed"] \in Sessions
  BY <1>5
<1>12. QED
  BY <1>1, <1>2, <1>3, <1>6, <1>7, <1>8, <1>9, <1>10, <1>11
     DEF SessionAfter, AgentTypes, TerminalTypes

\* An assignment in force is of the same plan as any action of its task that
\* is of the current plan.
LEMMA InForceIsMine ==
    ASSUME OneRevision, LogInv, NEW n \in DOMAIN log, log[n].type = "task_assigned",
           NEW s, InForce(log[n], s),
           NEW a, Live(a), a.task = log[n].task, NEW h, Home(h, a)
    PROVE  ForMe(log[n]) /\ a = MyAct(log[n]) /\ log[n].epoch = a.epoch
<1> DEFINE e == log[n]
           tr == <<e.task, e.rev>>
<1>1. e.rev = 1 /\ tr \in TaskRevs /\ e \in Event
  BY InputShape, EventShape DEF OneRevision
<1>2. a.rev = 1 /\ <<a.task, a.rev>> = tr
  BY <1>1, HomeShape DEF TaskRevs, OneRevision
<1>3. e.epoch = view[tr].epoch /\ a.epoch = view[tr].epoch
  BY <1>2 DEF InForce, ViewOf, Live
<1>4. /\ OfType(e, "task_assigned", tr) /\ OfType(log[h], "task_assigned", tr)
      /\ log[h].epoch = e.epoch /\ h \in DOMAIN log
  BY <1>2, <1>3, HomeShape DEF OfType, Home
<1>5. h = n
  BY <1>1, <1>4 DEF LogInv, OnePlanPerEpoch
<1>6. QED
  BY <1>3, <1>5 DEF Home

\* What is submitted was not carried out, and no more was anything else of the
\* current plan of its task.
LEMMA SubmitsNew ==
    ASSUME OneRevision, HostInv, NEW n \in DOMAIN log, Submits(log[n], Loaded(log[n].task))
    PROVE  /\ Home(n, MyAct(log[n])) /\ MyAct(log[n]) \notin CarriedOut
           /\ \A a \in CarriedOut : Live(a) => a.task # log[n].task
<1> DEFINE e == log[n]
           s == Loaded(e.task)
<1>1. /\ LogInv /\ FilesShape /\ Remembered
      /\ e.type = "task_assigned" /\ InForce(e, s) /\ ForMe(e) /\ ~Begun(e, s)
  BY DEF HostInv, ShapeInv, SessionInv, Submits
<1>2. e.task \in Tasks
  BY <1>1, InputShape
<1>3. ASSUME NEW a \in CarriedOut, Live(a), a.task = e.task
      PROVE  FALSE
  <2>1. PICK h \in DOMAIN log : Home(h, a)
    BY <1>1 DEF FilesShape
  <2>2. a = MyAct(e)
    BY <1>1, <1>3, <2>1, InForceIsMine
  <2>3. Knows(session[e.task], a)
    BY <1>1, <1>3 DEF Remembered
  <2>4. Knows(s, a)
    BY <1>1, <1>2, <2>3, LoadedType DEF FilesShape, Knows, Begins
  <2>5. QED
    BY <1>1, <2>2, <2>4 DEF Knows, Begins, Begun
<1>4. Home(n, MyAct(e))
  BY <1>1 DEF Home
<1>5. Live(MyAct(e)) /\ MyAct(e).task = e.task
  <2>1. MyAct(e).task = e.task /\ MyAct(e).rev = e.rev /\ MyAct(e).epoch = e.epoch
    BY <1>1, <1>4, HomeShape
  <2>2. QED
    BY <1>1, <2>1 DEF InForce, ViewOf, Live
<1>6. QED
  BY <1>3, <1>4, <1>5

\* An input leaves an action of the current plan in the session, and moves its
\* epoch back only if it lies before the assignment.
LEMMA AfterKnows ==
    ASSUME OneRevision, LogInv, NEW n, Input(n), NEW s \in Sessions, NEW yes \in BOOLEAN,
           ~Submits(log[n], s),
           NEW a, Live(a), a.task = log[n].task, NEW h, Home(h, a),
           Knows(s, a), s.epoch >= a.epoch \/ ~Early(n, a)
    PROVE  /\ Knows(SessionAfter(log[n], s, yes), a)
           /\ \/ SessionAfter(log[n], s, yes).epoch >= a.epoch
              \/ s.epoch < a.epoch
              \/ Early(n, a)
<1> DEFINE e == log[n]
           w == SessionAfter(e, s, yes)
           tr == <<a.task, a.rev>>
<1>1. /\ n \in DOMAIN log /\ e.type \in AgentTypes /\ e \in Event
      /\ s.epoch \in Nat /\ s.intent \in Intents /\ s.intent # None /\ s.intent.act = a
      /\ s.intent.state # "proposed"
  BY InputShape DEF Input, Knows, Begins, Sessions
<1>2. /\ a.epoch \in Nat /\ tr \in TaskRevs /\ h \in DOMAIN log /\ log[h].epoch = a.epoch
      /\ OfType(log[h], "task_assigned", tr) /\ a.rev = 1
  BY HomeShape DEF Home, TaskRevs, OneRevision
<1>3. ASSUME e.type \in {"bid_round_opened", "task_replan"}, EpochMoved(e) < a.epoch
      PROVE  Early(n, a)
  <2>1. e.rev = 1
    BY <1>1, <1>3, EventShape DEF OneRevision
  <2>2. Moves(e, tr)
    BY <1>2, <1>3, <2>1 DEF Moves, OfType
  <2>3. n < h
    BY <1>1, <1>2, <1>3, <2>2 DEF LogInv, MovesInTurn
  <2>4. QED
    BY <1>1, <1>2, <2>2, <2>3 DEF Early
<1>4. CASE e.type = "bid_round_opened"
  <2>1. w = s \/ w = [s EXCEPT !.epoch = e.epoch, !.state = "standby"]
    BY <1>4 DEF SessionAfter, AfterRound
  <2>2. /\ w.intent = s.intent /\ (w.epoch = s.epoch \/ w.epoch = e.epoch)
        /\ w # None
    <3>1. w \in Sessions
      BY SessionAfterType
    <3>2. w # None
      BY <3>1, AbsentAssumption
    <3>3. QED
      BY <2>1, <3>2 DEF Sessions
  <2>3. e.epoch \in Nat /\ EpochMoved(e) = e.epoch
    BY <1>1, <1>4, RoundShape DEF EpochMoved
  <2>4. QED
    BY <1>1, <1>2, <1>3, <1>4, <2>2, <2>3 DEF Knows, Begins
<1>5. CASE e.type = "task_assigned"
  <2>1. w = AfterAssigned(e, s)
    BY <1>5 DEF SessionAfter
  <2>2. CASE ~InForce(e, s)
    BY <1>1, <1>2, <2>1, <2>2 DEF AfterAssigned
  <2>3. CASE InForce(e, s)
    <3>1. ForMe(e) /\ e.epoch = a.epoch
      BY <1>1, <1>5, <2>3, InForceIsMine
    <3>2. Begun(e, s)
      BY <1>5, <2>3, <3>1 DEF Submits
    <3>3. w = [epoch |-> e.epoch, state |-> "active", asg |-> MyAct(e).asg, intent |-> s.intent]
      BY <2>1, <2>3, <3>1, <3>2 DEF AfterAssigned
    <3>4. w \in Sessions
      BY SessionAfterType
    <3>5. w # None /\ w.intent = s.intent /\ w.epoch = e.epoch
      BY <3>3, <3>4, AbsentAssumption
    <3>6. QED
      BY <1>1, <1>2, <3>1, <3>5 DEF Knows, Begins
  <2>4. QED
    BY <2>2, <2>3
<1>6. CASE e.type = "task_replan"
  <2>1. e.rev = 1 /\ e.from \in Nat /\ EpochMoved(e) = e.from
    BY <1>1, <1>6, EventShape, ReplanShape DEF OneRevision, EpochMoved
  <2>2. e.from < a.epoch
    <3>1. OfType(e, "task_replan", tr)
      BY <1>2, <1>6, <2>1 DEF OfType
    <3>2. QED
      BY <1>1, <1>2, <3>1 DEF LogInv, EpochsBehind, EpochBehind, Live
  <2>3. Early(n, a)
    BY <1>3, <1>6, <2>1, <2>2
  <2>4. w = s
    BY <1>1, <1>2, <1>6, <2>1, <2>2, <2>3 DEF SessionAfter, AfterReplan
  <2>5. QED
    BY <2>3, <2>4
<1>7. CASE e.type \notin {"bid_round_opened", "task_assigned", "task_replan"}
  <2>1. w \in Sessions /\ w # None
    BY SessionAfterType, AbsentAssumption
  <2>2. \/ w = s
        \/ \E x \in {"succeeded", "failed", "safety_blocked", "dispatched"} :
              w = [s EXCEPT !.intent.state = x]
        \/ \E y \in {"done", "failed"} : w = [s EXCEPT !.state = y]
        \/ \E x \in {"failed", "safety_blocked"} :
              w = [s EXCEPT !.intent.state = x, !.state = "failed"]
    <3>1. CASE e.type = "action_intent"
      BY <3>1 DEF SessionAfter, AfterIntent
    <3>2. CASE e.type = "receipt"
      BY <3>2 DEF SessionAfter, AfterReceipt
    <3>3. CASE e.type = "safety_intercept"
      BY <3>3 DEF SessionAfter, AfterIntercept
    <3>4. CASE e.type = "assignment_completed"
      BY <3>4 DEF SessionAfter, AfterCompleted
    <3>5. CASE e.type = "estop"
      BY <3>5 DEF SessionAfter, AfterStop
    <3>6. CASE e.type \in TerminalTypes
      BY <3>6 DEF SessionAfter, TerminalTypes
    <3>7. QED
      BY <1>1, <1>7, <3>1, <3>2, <3>3, <3>4, <3>5, <3>6 DEF AgentTypes
  <2>3. w.epoch = s.epoch /\ w.intent # None /\ w.intent.act = a /\ w.intent.state # "proposed"
    <3>1. \A x \in IntentStates :
             [s.intent EXCEPT !.state = x] \in Intents /\ [s.intent EXCEPT !.state = x].act = a
             /\ [s.intent EXCEPT !.state = x].state = x
      BY <1>1 DEF Intents
    <3>2. \A x : /\ [s EXCEPT !.intent.state = x].intent = [s.intent EXCEPT !.state = x]
                 /\ [s EXCEPT !.intent.state = x].epoch = s.epoch
                 /\ [s EXCEPT !.intent.state = x, !.state = "failed"].intent
                       = [s.intent EXCEPT !.state = x]
                 /\ [s EXCEPT !.intent.state = x, !.state = "failed"].epoch = s.epoch
                 /\ [s EXCEPT !.state = x].intent = s.intent
                 /\ [s EXCEPT !.state = x].epoch = s.epoch
      BY DEF Sessions
    <3>3. CASE w = s
      BY <1>1, <3>3
    <3>4. ASSUME NEW x \in {"succeeded", "failed", "safety_blocked", "dispatched"},
                 \/ w = [s EXCEPT !.intent.state = x]
                 \/ w = [s EXCEPT !.intent.state = x, !.state = "failed"]
          PROVE  /\ w.epoch = s.epoch /\ w.intent # None
                 /\ w.intent.act = a /\ w.intent.state # "proposed"
      <4>1. w.intent = [s.intent EXCEPT !.state = x] /\ w.epoch = s.epoch /\ x \in IntentStates
        BY <3>2, <3>4 DEF IntentStates
      <4>2. QED
        BY <3>1, <3>4, <4>1, AbsentAssumption
    <3>5. ASSUME NEW y \in {"done", "failed"}, w = [s EXCEPT !.state = y]
          PROVE  /\ w.epoch = s.epoch /\ w.intent # None
                 /\ w.intent.act = a /\ w.intent.state # "proposed"
      BY <1>1, <3>2, <3>5
    <3>6. QED
      BY <2>2, <3>3, <3>4, <3>5
  <2>4. QED
    BY <1>1, <1>2, <2>1, <2>3 DEF Knows, Begins
<1>8. QED
  BY <1>4, <1>5, <1>6, <1>7

\* The inbox gives its first input to the job.
LEMMA TakePosition ==
    ASSUME HostInv, mailbox # << >>, pc = "take", pc' # "down",
           UNCHANGED <<board, offset, carried>>, mailbox' = Tail(mailbox),
           NEW n, n = Head(mailbox),
           job'.src = n \/ (job'.src = 0 /\ log[n].type = "task_assigned"),
           job'.act # None => Home(n, job'.act)
    PROVE  /\ PositionInv' /\ AtMostOnce' /\ CarriedOut' = CarriedOut /\ log' = log
           /\ \A a : /\ Live(a)' <=> Live(a)
                     /\ NoneWaits(a) => NoneWaits(a)' /\ ~Early(n, a)
                     /\ \A p : Early(p, a)' <=> Early(p, a)
                     /\ \A p : Home(p, a)' <=> Home(p, a)
<1>1. /\ LogInv /\ FilesShape /\ InboxInOrder /\ MovesConsumed /\ HomeConsumed
      /\ job.src = 0 /\ job.act = None /\ log' = log /\ view' = view
      /\ CarriedOut' = CarriedOut
  BY DEF HostInv, ShapeInv, JobShape, NoJob, PositionInv, board, CarriedOut
<1>2. /\ mailbox \in Seq(Nat) /\ Len(mailbox) \in Nat \ {0} /\ DOMAIN mailbox = 1 .. Len(mailbox)
      /\ DOMAIN mailbox' = 1 .. Len(mailbox) - 1
      /\ \A i \in DOMAIN mailbox' : i + 1 \in DOMAIN mailbox /\ mailbox'[i] = mailbox[i + 1]
      /\ \A i \in DOMAIN mailbox : i = 1 \/ (i - 1 \in DOMAIN mailbox' /\ mailbox'[i - 1] = mailbox[i])
      /\ mailbox[1] = n /\ 1 \in DOMAIN mailbox
  BY <1>1 DEF FilesShape
<1>3. /\ \A p, a : Home(p, a)' <=> Home(p, a)
      /\ \A p, a : Early(p, a)' <=> Early(p, a)
      /\ \A a : Live(a)' <=> Live(a)
  BY <1>1 DEF Home, Early, Live
<1>4. \A a : ~Early(0, a)
  BY <1>1 DEF Early, LogInv, LogShape
<1>5. ASSUME NEW a, NoneWaits(a) PROVE NoneWaits(a)' /\ ~Early(n, a)
  <2>1. \A i \in DOMAIN mailbox : ~Early(mailbox[i], a)
    BY <1>5 DEF NoneWaits
  <2>2. ~Early(n, a) /\ ~Early(job'.src, a)
    BY <1>2, <1>4, <2>1
  <2>3. \A i \in DOMAIN mailbox' : ~Early(mailbox'[i], a)
    BY <1>2, <2>1
  <2>4. QED
    BY <1>3, <2>2, <2>3 DEF NoneWaits
<1>6. \A i \in DOMAIN mailbox, p \in DOMAIN log :
         /\ log[p].type \in {"bid_round_opened", "task_replan"}
         /\ offset < p /\ p < mailbox[i]
         => \E j \in DOMAIN mailbox : j < i /\ mailbox[j] = p
  <2>1. \A p \in DOMAIN log : p # 0
    BY <1>1 DEF LogInv, LogShape
  <2>2. QED
    BY <1>1, <2>1 DEF InboxInOrder
<1>7. InboxInOrder'
  <2>1. SUFFICES ASSUME NEW i \in DOMAIN mailbox', NEW p \in DOMAIN log,
                        log[p].type \in {"bid_round_opened", "task_replan"},
                        offset < p, p < mailbox'[i]
                 PROVE  p = job'.src \/ \E j \in DOMAIN mailbox' : j < i /\ mailbox'[j] = p
    BY <1>1 DEF InboxInOrder
  <2>2. i + 1 \in DOMAIN mailbox /\ p < mailbox[i + 1]
    BY <1>2, <2>1
  <2>3. PICK j \in DOMAIN mailbox : j < i + 1 /\ mailbox[j] = p
    BY <1>6, <2>1, <2>2
  <2>4. CASE j = 1
    BY <1>2, <2>1, <2>3, <2>4
  <2>5. CASE j # 1
    <3>1. j - 1 \in DOMAIN mailbox' /\ mailbox'[j - 1] = p
      BY <1>2, <2>3, <2>5
    <3>2. j - 1 < i
      BY <1>2, <2>1, <2>3
    <3>3. QED
      BY <3>1, <3>2
  <2>6. QED
    BY <2>4, <2>5
<1>8. MovesConsumed'
  <2>1. ASSUME NEW a, Home(n, a), NEW p \in DOMAIN log, Early(p, a)
        PROVE  p <= offset
    <3>1. PICK h \in DOMAIN log : Home(h, a) /\ p < h
      BY <2>1 DEF Early
    <3>2. h = n
      BY <1>1, <2>1, <3>1, OneHome
    <3>3. log[p].type \in {"bid_round_opened", "task_replan"}
      BY <2>1 DEF Early, Moves, OfType
    <3>4. ~(\E j \in DOMAIN mailbox : j < 1 /\ mailbox[j] = p)
      BY <1>2
    <3>5. ~(offset < p)
      BY <1>2, <1>6, <3>1, <3>2, <3>3, <3>4
    <3>6. p \in Nat /\ offset \in Nat
      BY <1>1 DEF LogInv, LogShape, FilesShape
    <3>7. QED
      BY <3>5, <3>6
  <2>2. QED
    BY <1>1, <1>3, <2>1 DEF MovesConsumed
<1>9. HomeConsumed'
  <2>1. ASSUME NEW a \in CarriedOut
        PROVE  (\E h \in DOMAIN log : Home(h, a) /\ h <= offset) \/ NoneWaits(a)'
    <3>1. \A h \in DOMAIN log : h # 0
      BY <1>1 DEF LogInv, LogShape
    <3>2. QED
      BY <1>1, <1>5, <3>1 DEF HomeConsumed
  <2>2. QED
    BY <1>1, <1>3, <2>1 DEF HomeConsumed
<1>10. AtMostOnce'
  BY DEF HostInv, AtMostOnce
<1>11. QED
  BY <1>1, <1>3, <1>5, <1>7, <1>8, <1>9, <1>10 DEF PositionInv

LEMMA TakeFiles ==
    ASSUME ShapeInv, mailbox # << >>, UNCHANGED <<board, offset, outbox, carried>>,
           mailbox' = Tail(mailbox), session' \in [Tasks -> Sessions \cup {None}]
    PROVE  FilesShape' /\ LogInv'
<1>1. FilesShape /\ log' = log /\ CarriedOut' = CarriedOut
  BY DEF ShapeInv, board, CarriedOut
<1>2. mailbox' \in Seq(Nat) /\ \A i \in DOMAIN mailbox' : \E j \in DOMAIN mailbox : mailbox'[i] = mailbox[j]
  BY <1>1 DEF FilesShape
<1>3. \A i \in DOMAIN mailbox' : mailbox'[i] \in DOMAIN log /\ log[mailbox'[i]].type \in AgentTypes
  BY <1>1, <1>2 DEF FilesShape, Input
<1>4. FilesShape'
  BY <1>1, <1>2, <1>3 DEF FilesShape, Input, Home
<1>5. LogInv'
  BY GrownOrSame DEF ShapeInv
<1>6. QED
  BY <1>4, <1>5

\* Input n plans an action.
TakesUp(n) ==
    LET e == log[n]
    IN  /\ Submits(e, Loaded(e.task))
        /\ session' = [session EXCEPT ![e.task] = AfterAssigned(e, Loaded(e.task))]
        /\ AfterAssigned(e, Loaded(e.task)) \in Sessions
        /\ job'.src = n /\ job'.act = MyAct(e) /\ job'.task = e.task
        /\ job'.out = IntentEvent(MyAct(e)) /\ job'.then = "precheck"
        /\ pc' = "stage"

\* Input n plans none.
TakesQuietly(n, yes) ==
    LET e == log[n]
    IN  /\ UNCHANGED session /\ job'.act = None /\ pc' # "down" /\ ~Ahead'
        /\ pc' = "stage" => /\ e.type = "bid_round_opened"
                            /\ \E c \in BidContents : job'.out = Bid(e, c)
        /\ \/ pc' \in {"poll", "offset"} /\ job'.src \in {0, n}
                /\ (job'.src = 0 => e.type = "task_assigned")
                /\ (e.type = "task_assigned" => ReplanPending(ViewOf(e)))
           \/ /\ ~Submits(e, Loaded(e.task))
              /\ job'.src = n /\ job'.task = e.task
              /\ job'.after = SessionAfter(e, Loaded(e.task), yes)

\* Taking an input up.
LEMMA TakeUpShape ==
    ASSUME ShapeInv, pc = "take", mailbox # << >>, mailbox' = Tail(mailbox),
           UNCHANGED <<board, offset, outbox, carried>>,
           NEW n, n = Head(mailbox), NEW e, e = log[n], NEW s \in Sessions, s = Loaded(e.task),
           NEW w \in Sessions, w = AfterAssigned(e, s),
           Submits(e, s), session' = [session EXCEPT ![e.task] = w],
           job'.src = n, job'.task = e.task, job'.act = MyAct(e), job'.out = IntentEvent(MyAct(e)),
           job'.then = "precheck", job'.clean = FALSE,
           IntentEvent(MyAct(e)) \in Event /\ MyAct(e) \in Actions => job' \in Jobs,
           pc' = "stage"
    PROVE  ShapeInv' /\ TakesUp(n)
<1> DEFINE a0 == MyAct(e)
<1>1. /\ LogInv /\ FilesShape /\ Input(n) /\ n \in DOMAIN log
      /\ session \in [Tasks -> Sessions \cup {None}]
  <2>1. Head(mailbox) = mailbox[1] /\ 1 \in DOMAIN mailbox
    BY DEF ShapeInv, FilesShape
  <2>2. QED
    BY <2>1 DEF ShapeInv, FilesShape, Input
<1>2. Home(n, a0) /\ e.type = "task_assigned" /\ InForce(e, s) /\ ForMe(e) /\ ~Begun(e, s)
  BY <1>1 DEF Submits, Home
<1>3. /\ a0 \in Actions /\ a0.task = e.task /\ a0.epoch = e.epoch /\ e.task \in Tasks
      /\ n \in Nat \ {0} /\ IsHostEvent(IntentEvent(a0)) /\ a0 # None
  BY <1>1, <1>2, HomeShape, HomePublishes, InputShape, AbsentAssumption
<1>4. /\ job'.src = n /\ job'.task = e.task /\ job'.act = a0 /\ job'.out = IntentEvent(a0)
      /\ job'.then = "precheck" /\ job'.clean = FALSE
  OBVIOUS
<1>5. job' \in Jobs
  BY <1>3 DEF IsHostEvent
<1>6. Begins(w, a0)
  <2>1. w.intent = [act |-> a0, state |-> "proposed"]
    BY <1>2 DEF AfterAssigned
  <2>2. [act |-> a0, state |-> "proposed"] \in Intents
    BY <1>3 DEF Intents, IntentStates
  <2>3. QED
    BY <2>1, <2>2, AbsentAssumption DEF Begins
<1>7. session' \in [Tasks -> Sessions \cup {None}] /\ session'[e.task] = w
  BY <1>1, <1>3
<1>8. FilesShape' /\ LogInv' /\ log' = log
  BY <1>7, TakeFiles DEF board
<1>9. JobShape'
  <2>1. ~Pending' /\ GoesOn'
    BY <1>3, <1>4 DEF Pending, GoesOn
  <2>2. QED
    BY <1>1, <1>2, <1>3, <1>4, <1>5, <1>8, <2>1 DEF JobShape, Input, Home
<1>10. AheadInSession'
  BY <1>3, <1>4, <1>6, <1>7 DEF AheadInSession, Begins
<1>11. TakesUp(n)
  BY <1>4 DEF TakesUp
<1>12. QED
  BY <1>8, <1>9, <1>10, <1>11 DEF ShapeInv

LEMMA TakeShape ==
    ASSUME ShapeInv, Take
    PROVE  /\ ShapeInv'
           /\ \E n : /\ n = Head(mailbox)
                     /\ TakesUp(n) \/ \E yes \in BOOLEAN : TakesQuietly(n, yes)
<1>1. PICK n : n = Head(mailbox)
  OBVIOUS
<1> DEFINE e == log[n]
           s == Loaded(e.task)
<1>2. /\ pc = "take" /\ mailbox # << >> /\ mailbox' = Tail(mailbox)
      /\ UNCHANGED <<board, offset, outbox, refused, raw, carried, crashes>>
      /\ LogInv /\ FilesShape /\ job = NoJob
      /\ n \in DOMAIN log /\ Input(n) /\ e.task \in Tasks /\ n \in Nat \ {0} /\ e \in Event
      /\ session \in [Tasks -> Sessions \cup {None}] /\ s \in Sessions /\ log' = log
  <2>1. /\ pc = "take" /\ mailbox # << >> /\ mailbox' = Tail(mailbox)
        /\ UNCHANGED <<board, offset, outbox, refused, raw, carried, crashes>>
        /\ LogInv /\ FilesShape /\ job = NoJob
    BY DEF ShapeInv, JobShape, Take
  <2>2. n = mailbox[1] /\ 1 \in DOMAIN mailbox
    BY <1>1, <2>1 DEF FilesShape
  <2>3. n \in DOMAIN log /\ Input(n)
    BY <2>1, <2>2 DEF FilesShape, Input
  <2>4. e.task \in Tasks /\ n \in Nat \ {0} /\ e \in Event
    BY <2>1, <2>3, InputShape
  <2>5. QED
    BY <2>1, <2>3, <2>4, LoadedType DEF FilesShape, board
<1>3. NoJob \in Jobs
  BY DEF NoJob, Jobs
<1>4. ASSUME UNCHANGED session, JobShape', ~Ahead'
      PROVE  ShapeInv'
  BY <1>2, <1>4, TakeFiles DEF ShapeInv, AheadInSession
<1>5. CASE /\ e.type = "estop" /\ job' = [NoJob EXCEPT !.src = n] /\ pc' = "offset"
           /\ UNCHANGED session
  <2>1. /\ job' \in Jobs /\ job'.src = n /\ job'.act = None /\ job'.clean = FALSE
    BY <1>2, <1>3, <1>5 DEF Jobs, NoJob
  <2>2. ~Ahead' /\ ~Pending'
    BY <1>5 DEF Ahead, Pending
  <2>3. JobShape'
    BY <1>2, <1>5, <2>1, <2>2 DEF JobShape, Input
  <2>4. TakesQuietly(n, TRUE)
    BY <1>2, <1>5, <2>1, <2>2 DEF TakesQuietly
  <2>5. QED
    BY <1>1, <1>4, <1>5, <2>2, <2>3, <2>4
<1>6. CASE ~Consumes(e) /\ Leave("poll") /\ UNCHANGED session
  <2>1. /\ e.type = "task_assigned" /\ ReplanPending(ViewOf(e))
        /\ job' = NoJob /\ pc' = "poll"
    BY <1>6 DEF Consumes, Leave, Goto
  <2>2. job'.src = 0 /\ job'.act = None /\ ~Ahead' /\ JobShape'
    BY <2>1, NoJobShape DEF NoJob, Ahead
  <2>3. TakesQuietly(n, TRUE)
    BY <1>6, <2>1, <2>2 DEF TakesQuietly
  <2>4. QED
    BY <1>1, <1>4, <1>6, <2>2, <2>3
<1>7. ASSUME NEW yes \in BOOLEAN, Handle(n, yes)
      PROVE  ShapeInv' /\ (TakesUp(n) \/ TakesQuietly(n, yes))
  <2> DEFINE w == SessionAfter(e, s, yes)
             base == [NoJob EXCEPT !.src = n, !.task = e.task, !.after = w]
  <2>1. w \in Sessions
    BY <1>2, SessionAfterType
  <2>2. base \in Jobs
    BY <1>2, <1>3, <2>1 DEF Jobs
  <2>3. CASE Submits(e, s)
    <3>1. /\ session' = [session EXCEPT ![e.task] = w]
          /\ job' = [base EXCEPT !.act = MyAct(e), !.out = IntentEvent(MyAct(e)),
                                 !.then = "precheck"]
          /\ pc' = "stage"
      BY <1>7, <2>3 DEF Handle, Goto
    <3>2. w = AfterAssigned(e, s)
      BY <2>3 DEF Submits, SessionAfter
    <3>3. PICK m, r, x : m = e /\ r = s /\ x = w
      OBVIOUS
    <3>4. /\ job'.src = n /\ job'.task = m.task /\ job'.act = MyAct(m)
          /\ job'.out = IntentEvent(MyAct(m)) /\ job'.then = "precheck" /\ job'.clean = FALSE
          /\ IntentEvent(MyAct(m)) \in Event /\ MyAct(m) \in Actions => job' \in Jobs
      <4>1. /\ job'.src = n /\ job'.task = e.task /\ job'.act = MyAct(e)
            /\ job'.out = IntentEvent(MyAct(e)) /\ job'.then = "precheck" /\ job'.clean = FALSE
        BY <3>1 DEF NoJob
      <4>2. IntentEvent(MyAct(e)) \in Event /\ MyAct(e) \in Actions => job' \in Jobs
        BY <2>2, <3>1 DEF Jobs, Labels
      <4>3. QED
        BY <3>3, <4>1, <4>2
    <3>5. /\ r \in Sessions /\ r = Loaded(m.task) /\ x \in Sessions /\ x = AfterAssigned(m, r)
          /\ Submits(m, r) /\ session' = [session EXCEPT ![m.task] = x]
      BY <1>2, <2>1, <2>3, <3>1, <3>2, <3>3
    <3>6. QED
      BY <1>1, <1>2, <3>1, <3>3, <3>4, <3>5, TakeUpShape
  <2>4. CASE ~Submits(e, s) /\ e.type = "bid_round_opened" /\ yes /\ ViewOf(e).terminal = None
    <3>1. PICK c \in BidContents : job' = [base EXCEPT !.out = Bid(e, c), !.then = "finish"]
      BY <1>7, <2>4 DEF Handle
    <3>2. pc' = "stage" /\ UNCHANGED session
      BY <1>7, <2>4 DEF Handle, Goto
    <3>3. IsHostEvent(Bid(e, c)) /\ Bid(e, c) \in Event /\ "finish" \in Labels
      BY <1>2, <2>4, InputShape, HostEventsAssumption DEF IsHostEvent, Labels
    <3>4. /\ job' \in Jobs /\ job'.src = n /\ job'.act = None /\ job'.clean = FALSE
          /\ job'.task = e.task /\ job'.after = w /\ job'.out = Bid(e, c) /\ job'.then = "finish"
      BY <2>2, <3>1, <3>3 DEF Jobs, NoJob
    <3>5. ~Ahead' /\ GoesOn'
      BY <1>2, <3>2, <3>4 DEF Ahead, GoesOn
    <3>6. JobShape'
      BY <1>2, <2>1, <3>2, <3>3, <3>4, <3>5 DEF JobShape, Input, Pending
    <3>7. TakesQuietly(n, yes)
      BY <2>4, <3>2, <3>4, <3>5 DEF TakesQuietly
    <3>8. QED
      BY <1>4, <3>2, <3>5, <3>6, <3>7
  <2>5. CASE ~Submits(e, s) /\ ~(e.type = "bid_round_opened" /\ yes /\ ViewOf(e).terminal = None)
    <3>1. /\ job' = [base EXCEPT !.clean = e.type \in TerminalTypes]
          /\ pc' = "finish" /\ UNCHANGED session
      BY <1>7, <2>5 DEF Handle, Goto
    <3>2. /\ job' \in Jobs /\ job'.src = n /\ job'.act = None
          /\ job'.task = e.task /\ job'.after = w /\ (job'.clean => e.type \in TerminalTypes)
      <4>1. PICK b \in BOOLEAN : b = (e.type \in TerminalTypes)
        <5>1. (e.type \in TerminalTypes) \in BOOLEAN
          OBVIOUS
        <5>2. QED
          BY <5>1, Zenon
      <4>2. job' = [base EXCEPT !.clean = b]
        BY <3>1, <4>1
      <4>3. /\ job' \in Jobs /\ job'.src = n /\ job'.act = None
            /\ job'.task = e.task /\ job'.after = w /\ job'.clean = b
        BY <2>2, <4>2 DEF Jobs, NoJob
      <4>4. QED
        BY <4>1, <4>3
    <3>3. ~Ahead'
      BY <3>1 DEF Ahead
    <3>4. JobShape'
      BY <1>2, <2>1, <3>1, <3>2 DEF JobShape, Input, Pending
    <3>5. TakesQuietly(n, yes)
      BY <2>5, <3>1, <3>2, <3>3 DEF TakesQuietly
    <3>6. QED
      BY <1>4, <3>1, <3>3, <3>4, <3>5
  <2>6. QED
    BY <2>3, <2>4, <2>5
<1>8. QED
  BY <1>1, <1>5, <1>6, <1>7 DEF Take, Goto

\* An input that plans no action.
LEMMA TakeQuiet ==
    ASSUME OneRevision, HostInv, ShapeInv', mailbox # << >>, pc = "take",
           UNCHANGED <<board, offset, outbox, carried>>, mailbox' = Tail(mailbox),
           NEW n, n = Head(mailbox), NEW yes \in BOOLEAN, TakesQuietly(n, yes)
    PROVE  HostInv'
<1> DEFINE e == log[n]
           s == Loaded(e.task)
<1>1. /\ LogInv /\ FilesShape /\ Remembered /\ Input(n) /\ n \in DOMAIN log
      /\ session \in [Tasks -> Sessions \cup {None}]
      /\ UNCHANGED session /\ job'.act = None /\ pc' # "down" /\ ~Ahead'
      /\ \/ pc' \in {"poll", "offset"} /\ job'.src \in {0, n}
              /\ (job'.src = 0 => e.type = "task_assigned")
         \/ /\ ~Submits(e, s)
            /\ job'.src = n /\ job'.task = e.task
            /\ job'.after = SessionAfter(e, s, yes)
  <2>1. Head(mailbox) = mailbox[1] /\ 1 \in DOMAIN mailbox
    BY DEF HostInv, ShapeInv, FilesShape
  <2>2. QED
    BY <2>1 DEF HostInv, ShapeInv, FilesShape, SessionInv, Input, TakesQuietly
<1>2. /\ PositionInv' /\ CarriedOut' = CarriedOut /\ log' = log /\ AtMostOnce'
      /\ \A a : /\ Live(a)' <=> Live(a)
                /\ NoneWaits(a) => NoneWaits(a)' /\ ~Early(n, a)
                /\ \A p : Early(p, a)' <=> Early(p, a)
  BY <1>1, TakePosition
<1>3. ASSUME NEW a \in CarriedOut, Live(a)
      PROVE  /\ Knows(session[a.task], a)
             /\ session[a.task].epoch >= a.epoch \/ NoneWaits(a)
  BY <1>1, <1>3 DEF Remembered
<1>4. Remembered'
  BY <1>1, <1>2, <1>3 DEF Remembered, Knows, Begins
<1>5. AheadIsNew'
  BY <1>1 DEF AheadIsNew
<1>6. RememberedAfter'
  <2>1. SUFFICES ASSUME Pending', NEW a \in CarriedOut, Live(a), a.task = job'.task
                 PROVE  /\ Knows(job'.after, a)
                        /\ job'.after.epoch >= a.epoch \/ Early(job'.src, a) \/ NoneWaits(a)'
    BY <1>2 DEF RememberedAfter, Knows, Begins
  <2>2. /\ ~Submits(e, s) /\ job'.src = n /\ job'.task = e.task
        /\ job'.after = SessionAfter(e, s, yes)
    BY <2>1, <1>1 DEF Pending
  <2>3. PICK h \in DOMAIN log : Home(h, a)
    BY <1>1 DEF FilesShape
  <2>4. Knows(session[e.task], a) /\ (session[e.task].epoch >= a.epoch \/ NoneWaits(a))
    BY <1>3, <2>1, <2>2
  <2>5. s = session[e.task] /\ s \in Sessions
    BY <1>1, <2>4, InputShape, LoadedType DEF Knows, Begins
  <2>6. s.epoch \in Nat /\ a.epoch \in Nat
    BY <1>1, <2>3, <2>5, HomeShape DEF Sessions
  <2>7. /\ Knows(SessionAfter(e, s, yes), a)
        /\ \/ SessionAfter(e, s, yes).epoch >= a.epoch
           \/ s.epoch < a.epoch
           \/ Early(n, a)
    BY <1>1, <1>2, <2>1, <2>2, <2>3, <2>4, <2>5, AfterKnows
  <2>8. s.epoch < a.epoch => NoneWaits(a)'
    BY <1>2, <2>4, <2>5, <2>6
  <2>9. QED
    BY <2>2, <2>7, <2>8
<1>7. QED
  BY <1>2, <1>4, <1>5, <1>6 DEF HostInv, SessionInv

\* An assignment that plans an action.
LEMMA TakeSubmits ==
    ASSUME OneRevision, HostInv, ShapeInv', mailbox # << >>, pc = "take",
           UNCHANGED <<board, offset, outbox, carried>>, mailbox' = Tail(mailbox),
           NEW n, n = Head(mailbox), TakesUp(n)
    PROVE  HostInv'
<1>1. PICK e, a0, w : e = log[n] /\ a0 = MyAct(e) /\ w = AfterAssigned(e, Loaded(e.task))
  OBVIOUS
<1>2. /\ LogInv /\ FilesShape /\ Remembered /\ Input(n) /\ n \in DOMAIN log
      /\ session \in [Tasks -> Sessions \cup {None}]
  <2>1. Head(mailbox) = mailbox[1] /\ 1 \in DOMAIN mailbox
    BY DEF HostInv, ShapeInv, FilesShape
  <2>2. QED
    BY <2>1 DEF HostInv, ShapeInv, FilesShape, SessionInv, Input
<1>3. /\ Submits(e, Loaded(e.task)) /\ session' = [session EXCEPT ![e.task] = w]
      /\ job'.src = n /\ job'.act = a0 /\ job'.task = e.task /\ pc' = "stage"
      /\ job'.then = "precheck"
  BY <1>1 DEF TakesUp
<1>4. /\ Home(n, a0) /\ a0 \notin CarriedOut
      /\ \A a \in CarriedOut : Live(a) => a.task # e.task
  BY <1>1, <1>2, <1>3, SubmitsNew
<1>5. /\ a0 \in Actions /\ a0.task = e.task /\ a0.epoch = e.epoch /\ e.task \in Tasks
      /\ n \in Nat \ {0} /\ a0 # None
  BY <1>1, <1>2, <1>4, HomeShape, InputShape, AbsentAssumption
<1>6. w.epoch = a0.epoch
  BY <1>1, <1>3, <1>5 DEF Submits, AfterAssigned
<1>7. session'[e.task] = w /\ \A t \in Tasks \ {e.task} : session'[t] = session[t]
  BY <1>2, <1>3, <1>5
<1>8. /\ PositionInv' /\ AtMostOnce' /\ CarriedOut' = CarriedOut /\ log' = log
      /\ \A a : /\ Live(a)' <=> Live(a)
                /\ NoneWaits(a) => NoneWaits(a)'
  BY <1>2, <1>3, <1>4, TakePosition
<1>9. AheadIsNew'
  BY <1>3, <1>4, <1>6, <1>7, <1>8 DEF AheadIsNew
<1>10. Remembered'
  <2>1. ASSUME NEW a \in CarriedOut, Live(a)
        PROVE  /\ Knows(session'[a.task], a)
               /\ session'[a.task].epoch >= a.epoch \/ NoneWaits(a)
    <3>1. PICK h \in DOMAIN log : Home(h, a)
      BY <1>2 DEF FilesShape
    <3>2. a.task \in Tasks \ {e.task}
      BY <1>2, <1>4, <2>1, <3>1, HomeShape DEF TaskRevs
    <3>3. QED
      BY <1>2, <1>3, <1>7, <2>1, <3>2 DEF Remembered
  <2>2. QED
    BY <1>8, <2>1 DEF Remembered, Knows, Begins
<1>11. RememberedAfter'
  BY <1>3, <1>5 DEF RememberedAfter, Pending
<1>12. QED
  BY <1>8, <1>9, <1>10, <1>11 DEF HostInv, SessionInv

LEMMA TakeStep == ASSUME OneRevision, HostInv, Take PROVE HostInv'
<1>1. ShapeInv /\ pc = "take" /\ mailbox # << >> /\ mailbox' = Tail(mailbox)
      /\ UNCHANGED <<board, offset, outbox, carried>>
  BY DEF Take, HostInv
<1>2. PICK n : /\ n = Head(mailbox)
               /\ TakesUp(n) \/ \E yes \in BOOLEAN : TakesQuietly(n, yes)
  BY <1>1, TakeShape
<1>3. ShapeInv'
  BY <1>1, TakeShape
<1>4. QED
  BY <1>1, <1>2, <1>3, TakeQuiet, TakeSubmits

-----------------------------------------------------------------------------
LEMMA InitHolds == Init => HostInv
<1>1. SUFFICES ASSUME Init PROVE HostInv
  OBVIOUS
<1>2. /\ log = << >> /\ view = [tr \in TaskRevs |-> EmptyView] /\ offset = 0
      /\ session = [t \in Tasks |-> None] /\ outbox = [k \in Keys |-> None]
      /\ mailbox = << >> /\ pc = "replay" /\ job = NoJob /\ carried = << >>
      /\ byId = [i \in EventIds |-> 0] /\ byKey = [k \in Keys |-> 0]
  BY <1>1 DEF Init, Bd!Init, Bd!TaskRevs, Bd!EmptyView, TaskRevs, EmptyView
<1>3. LogInv
  <2>1. log \in Seq(Event) /\ DOMAIN log = {}
    BY <1>2
  <2>2. ViewsOK
    BY <1>2, EmptyViewType DEF ViewsOK, RoundOf, EmptyView
  <2>3. IndexShape
    BY <1>2 DEF IndexShape
  <2>4. QED
    BY <2>1, <2>2, <2>3 DEF LogInv, LogShape, EpochsBehind, OnePlanPerEpoch, MovesInTurn, EndsSeen
<1>4. CarriedOut = {} /\ DOMAIN carried = {} /\ DOMAIN mailbox = {}
  BY <1>2 DEF CarriedOut
<1>5. FilesShape
  <2>1. mailbox \in Seq(Nat) /\ carried \in Seq([act : Actions, outcome : Outcomes])
    BY <1>2
  <2>2. QED
    BY <1>2, <1>4, <2>1 DEF FilesShape
<1>6. JobShape
  <2>1. NoJob \in Jobs
    BY DEF NoJob, Jobs
  <2>2. QED
    BY <1>2, <2>1 DEF JobShape, NoJob, Pending
<1>7. PositionInv
  BY <1>2, <1>4 DEF PositionInv, InboxInOrder, MovesConsumed, HomeConsumed, NoJob
<1>8. SessionInv /\ AtMostOnce
  BY <1>2, <1>4 DEF SessionInv, AheadIsNew, Remembered, RememberedAfter, Ahead, Pending, AtMostOnce
<1>9. QED
  BY <1>2, <1>3, <1>5, <1>6, <1>7, <1>8 DEF HostInv, ShapeInv, AheadInSession, Ahead

LEMMA StutterStep == ASSUME ShapeInv, UNCHANGED vars PROVE ShapeInv' /\ Plain
<1>1. Carries
  BY DEF vars, board, files, volatile, Carries, Ahead, Pending
<1>2. GoesOn' <=> GoesOn
  BY DEF vars, volatile, GoesOn
<1>3. JobShape'
  BY <1>1, <1>2, StillGrown, JobKept DEF ShapeInv, JobShape, Staged, vars, files, volatile
<1>4. QED
  BY <1>1, <1>3, CarryShape, Outboxes DEF vars, files

\* No step of the host, and nothing the others append, breaks the shape; and
\* most steps leave the rest of the invariant alone.
LEMMA ShapeStep ==
    ASSUME ShapeInv, [Next]_vars
    PROVE  /\ ShapeInv'
           /\ Plain \/ Poll \/ Take \/ PreCheck \/ Dispatch \/ SaveSession \/ SaveOffset \/ Cleanup
<1>1. CASE Replay BY <1>1, ReplayStep
<1>2. CASE Poll BY <1>2, PollReads
<1>3. CASE Take BY <1>3, TakeShape
<1>4. CASE Stage BY <1>4, StageStep
<1>5. CASE AppendOutput BY <1>5, AppendStep
<1>6. CASE Unlink BY <1>6, UnlinkStep
<1>7. CASE PreCheck BY <1>7, PreCheckShape
<1>8. CASE Dispatch BY <1>8, DispatchShape
<1>9. CASE StoreRaw BY <1>9, StoreStep
<1>10. CASE PostCheck BY <1>10, PostCheckStep
<1>11. CASE ReportFailed BY <1>11, ReportFailedStep
<1>12. CASE SaveSession BY <1>12, SaveSessionShape
<1>13. CASE SaveOffset BY <1>13, SaveOffsetShape
<1>14. CASE Resolve BY <1>14, ResolveStep
<1>15. CASE RemoveRaw BY <1>15, RemoveRawStep
<1>16. CASE Cleanup BY <1>16, CleanupShape
<1>17. CASE Settled BY <1>17, SettledStep
<1>18. CASE Restart BY <1>18, RestartStep
<1>19. CASE Crash BY <1>19, CrashStep
<1>20. ASSUME NEW e \in Offered, External(e) PROVE ShapeInv' /\ Plain
  BY <1>20, ExternalStep
<1>21. CASE UNCHANGED vars BY <1>21, StutterStep
<1>22. QED
  BY <1>1, <1>2, <1>3, <1>4, <1>5, <1>6, <1>7, <1>8, <1>9, <1>10, <1>11, <1>12, <1>13,
     <1>14, <1>15, <1>16, <1>17, <1>18, <1>19, <1>20, <1>21 DEF Next, HostStep

LEMMA NextStep == ASSUME OneRevision, HostInv, [Next]_vars PROVE HostInv'
<1>1. /\ ShapeInv'
      /\ Plain \/ Poll \/ Take \/ PreCheck \/ Dispatch \/ SaveSession \/ SaveOffset \/ Cleanup
  BY ShapeStep DEF HostInv
<1>2. QED
  BY <1>1, PlainStep, PollStep, TakeStep, PreCheckStep, DispatchStep, SaveSessionStep,
     SaveOffsetStep, CleanupStep

\* As long as tasks have one revision, an action is sent to the robot at most
\* once: whatever the others append meanwhile, wherever the process crashes, and
\* although the host reads inputs again that it consumed long ago.
THEOREM SentAtMostOnce == OneRevision => (Spec => []AtMostOnce)
<1> SUFFICES ASSUME OneRevision PROVE Spec => []AtMostOnce
  OBVIOUS
<1>1. Init => HostInv
  BY InitHolds
<1>2. HostInv /\ [Next]_vars => HostInv'
  BY NextStep
<1>3. HostInv => AtMostOnce
  BY DEF HostInv
<1>4. QED
  BY <1>1, <1>2, <1>3, PTL DEF Spec
-----------------------------------------------------------------------------
(* What the host says of an action, whatever revisions a task has.         *)

\* The receipt e tells of an action that was carried out, as it turned out.
Earned(e) ==
    \E n \in DOMAIN carried : /\ carried[n].act = ActOf(e)
                              /\ e.good => carried[n].outcome = "good"

\* e is what the host may publish about action a.
Says(e, a) ==
    \/ e = IntentEvent(a)
    \/ \E p \in {"pre", "post"} : e = Intercepted(a, p) /\ Has("action_intent", a)
    \/ \E ok \in BOOLEAN : e = Receipt(a, ok) /\ Earned(e)

Own(e) ==
    \/ \E r, c : e = Bid(r, c)
    \/ \E a \in Actions, h \in DOMAIN log : Home(h, a) /\ Says(e, a)

OutboxInv ==
    \A k \in Keys : outbox[k] # None => outbox[k].event.key = k /\ Own(outbox[k].event)

\* What a job knows of its action at each of its steps.
PublishInv ==
    /\ pc \in {"stage", "append"} =>
          /\ Own(job.out)
          /\ job.then = "precheck" => job.out = IntentEvent(job.act)
          /\ job.then = "failed" => job.act \in CarriedOut
    /\ pc = "append" => Own(Staged) /\ Staged.key = job.out.key
    /\ pc \in {"precheck", "dispatch"} => Has("action_intent", job.act)
    /\ pc \in {"store", "postcheck"} =>
          \E n \in DOMAIN carried : carried[n].act = job.act /\ carried[n].outcome = job.outcome
    /\ pc = "failed" => job.act \in CarriedOut

\* No action of this robot's is intercepted before it was announced.
Announced ==
    \A m \in DOMAIN log : log[m].type = "safety_intercept" /\ log[m].asg \in Mine =>
        Has("action_intent", ActOf(log[m]))

ReportInv == OutboxInv /\ PublishInv /\ Announced /\ ReportsWhatHappened

-----------------------------------------------------------------------------
LEMMA WhatIsSaid ==
    ASSUME NEW a \in Actions
    PROVE  /\ IntentEvent(a).type = "action_intent" /\ ActOf(IntentEvent(a)) = a
           /\ IntentEvent(a).key = ActionKey("action_intent", "", a)
           /\ IntentEvent(a).key[1] = "action_intent"
           /\ \A p : /\ Intercepted(a, p).type = "safety_intercept"
                     /\ ActOf(Intercepted(a, p)) = a
                     /\ Intercepted(a, p).key[1] = "safety_intercept"
           /\ \A ok : /\ Receipt(a, ok).type = "receipt" /\ ActOf(Receipt(a, ok)) = a
                      /\ Receipt(a, ok).good = ok /\ Receipt(a, ok).key[1] = "receipt"
  BY DEF IntentEvent, Intercepted, Receipt, ActionEvent, ActionKey, ActOf, Act, Actions

\* The log and what was carried out only grow.
Onward ==
    /\ \A n \in DOMAIN log : n \in DOMAIN log' /\ log'[n] = log[n]
    /\ \A n \in DOMAIN carried : n \in DOMAIN carried' /\ carried'[n] = carried[n]

LEMMA Stays ==
    ASSUME Onward
    PROVE  /\ \A e : Own(e) => Own(e)'
           /\ \A e : Earned(e) => Earned(e)'
           /\ \A ty, a : Has(ty, a) => Has(ty, a)'
           /\ CarriedOut \subseteq CarriedOut'
<1>1. \A e : Earned(e) => Earned(e)'
  BY DEF Earned, Onward
<1>2. \A h, a : Home(h, a) => Home(h, a)'
  BY DEF Home, Onward
<1>3. \A ty, a : Has(ty, a) => Has(ty, a)'
  BY DEF Has, Onward, ActOf, Act
<1>4. ASSUME NEW e, Own(e) PROVE Own(e)'
  <2>1. CASE \E r, c : e = Bid(r, c)
    BY <2>1 DEF Own
  <2>2. ASSUME NEW a \in Actions, NEW h \in DOMAIN log, Home(h, a), Says(e, a)
        PROVE  Own(e)'
    <3>1. h \in DOMAIN log' /\ Home(h, a)'
      BY <1>2, <2>2 DEF Onward
    <3>2. Says(e, a)'
      BY <1>1, <1>3, <2>2 DEF Says
    <3>3. QED
      BY <3>1, <3>2 DEF Own
  <2>3. QED
    BY <1>4, <2>1, <2>2 DEF Own
<1>5. CarriedOut \subseteq CarriedOut'
  BY DEF CarriedOut, Onward
<1>6. QED
  BY <1>1, <1>3, <1>4, <1>5

\* A key has one intent: the plan is not in it, but an epoch has one plan.
LEMMA OneIntent ==
    ASSUME LogInv, NEW e, Own(e), NEW a, NEW h, Home(h, a), e.key = IntentEvent(a).key
    PROVE  e = IntentEvent(a)
<1>1. a \in Actions /\ h \in DOMAIN log
  BY HomeShape DEF Home
<1>2. e.key = ActionKey("action_intent", "", a) /\ e.key[1] = "action_intent"
  BY <1>1, WhatIsSaid
<1>3. ~\E r, c : e = Bid(r, c)
  <2>1. \A r, c : Bid(r, c).key[1] = "bid"
    BY DEF Bid
  <2>2. QED
    BY <1>2, <2>1
<1>4. PICK b \in Actions, g \in DOMAIN log : Home(g, b) /\ Says(e, b)
  BY <1>3 DEF Own
<1>5. e = IntentEvent(b)
  <2>1. \A p : Intercepted(b, p).key[1] = "safety_intercept"
    BY <1>4, WhatIsSaid
  <2>2. \A ok : Receipt(b, ok).key[1] = "receipt"
    BY <1>4, WhatIsSaid
  <2>3. QED
    BY <1>2, <1>4, <2>1, <2>2 DEF Says
<1>6. ActionKey("action_intent", "", b) = ActionKey("action_intent", "", a)
  BY <1>2, <1>5, WhatIsSaid
<1>7. b.task = a.task /\ b.rev = a.rev /\ b.epoch = a.epoch
  BY <1>6 DEF ActionKey
<1>8. /\ OfType(log[h], "task_assigned", <<a.task, a.rev>>) /\ log[h].epoch = a.epoch
      /\ OfType(log[g], "task_assigned", <<a.task, a.rev>>) /\ log[g].epoch = a.epoch
      /\ <<a.task, a.rev>> \in TaskRevs
  BY <1>4, <1>7, HomeShape
<1>9. g = h
  BY <1>1, <1>4, <1>8 DEF LogInv, OnePlanPerEpoch
<1>10. QED
  BY <1>4, <1>5, <1>9 DEF Home

LEMMA OwnOfHome ==
    ASSUME LogInv, NEW a, NEW h, Home(h, a)
    PROVE  /\ a \in Actions /\ Own(IntentEvent(a))
           /\ \A p \in {"pre", "post"} :
                 Has("action_intent", a) => Own(Intercepted(a, p))
           /\ \A ok \in BOOLEAN : Earned(Receipt(a, ok)) => Own(Receipt(a, ok))
  BY HomeShape DEF Own, Says, Home

\* What a step has to show: of what is new in the log and of what was carried out.
LEMMA ReportOn ==
    ASSUME Onward, ReportsWhatHappened, Announced, OutboxInv', PublishInv',
           \A m \in DOMAIN log' : m \in DOMAIN log \/
              \E e : /\ log'[m] = e
                     /\ e.type = "receipt" /\ e.asg \in Mine => Earned(e)'
                     /\ e.type = "safety_intercept" /\ e.asg \in Mine =>
                           \E a : a = ActOf(e) /\ Has("action_intent", a)',
           \A n \in DOMAIN carried' : n \in DOMAIN carried \/
              \E a : carried'[n].act = a /\ Has("action_intent", a)'
    PROVE  ReportInv'
<1>1. ASSUME NEW n \in DOMAIN carried' PROVE Has("action_intent", carried[n].act)'
  <2>1. PICK a : carried'[n].act = a
    OBVIOUS
  <2>2. Has("action_intent", a)'
    <3>1. CASE n \in DOMAIN carried
      <4>1. carried[n].act = a
        BY <2>1, <3>1 DEF Onward
      <4>2. Has("action_intent", a)
        BY <3>1, <4>1 DEF ReportsWhatHappened
      <4>3. QED
        BY <4>2, Stays
    <3>2. CASE n \notin DOMAIN carried
      BY <1>1, <2>1, <3>2
    <3>3. QED
      BY <3>1, <3>2
  <2>3. QED
    BY <2>1, <2>2 DEF Has, ActOf, Act
<1>2. ASSUME NEW m \in DOMAIN log', log'[m].type = "receipt", log'[m].asg \in Mine
      PROVE  \E n \in DOMAIN carried' : /\ carried'[n].act = ActOf(log[m])'
                                        /\ log'[m].good => carried'[n].outcome = "good"
  <2>1. PICK e : log'[m] = e
    OBVIOUS
  <2>2. Earned(e)'
    <3>1. CASE m \in DOMAIN log
      <4>1. log[m] = e
        BY <2>1, <3>1 DEF Onward
      <4>2. Earned(e)
        BY <1>2, <2>1, <3>1, <4>1 DEF ReportsWhatHappened, Earned
      <4>3. QED
        BY <4>2, Stays
    <3>2. CASE m \notin DOMAIN log
      BY <1>2, <2>1, <3>2
    <3>3. QED
      BY <3>1, <3>2
  <2>3. QED
    BY <2>1, <2>2 DEF Earned, ActOf, Act
<1>3. ASSUME NEW m \in DOMAIN log', log'[m].type = "safety_intercept", log'[m].asg \in Mine
      PROVE  Has("action_intent", ActOf(log[m]))'
  <2>1. PICK a : a = ActOf(log'[m])
    OBVIOUS
  <2>2. Has("action_intent", a)'
    <3>1. CASE m \in DOMAIN log
      <4>1. log[m] = log'[m] /\ ActOf(log[m]) = a
        BY <2>1, <3>1 DEF Onward
      <4>2. Has("action_intent", a)
        BY <1>3, <3>1, <4>1 DEF Announced
      <4>3. QED
        BY <4>2, Stays
    <3>2. CASE m \notin DOMAIN log
      BY <1>3, <2>1, <3>2
    <3>3. QED
      BY <3>1, <3>2
  <2>3. QED
    BY <2>1, <2>2 DEF Has, ActOf, Act
<1>4. ReportsWhatHappened' /\ Announced'
  BY <1>1, <1>2, <1>3 DEF ReportsWhatHappened, Announced
<1>5. QED
  BY <1>4 DEF ReportInv

\* On an unchanged board, with nothing carried out and nothing staged.
LEMMA ReportQuiet ==
    ASSUME ReportInv, UNCHANGED <<board, carried>>,
           \A k \in Keys : outbox'[k] \in {outbox[k], None}, PublishInv'
    PROVE  ReportInv'
<1>1. Onward /\ log' = log
  BY DEF Onward, board
<1>2. OutboxInv'
  BY <1>1, Stays DEF ReportInv, OutboxInv
<1>3. QED
  BY <1>1, <1>2, ReportOn DEF ReportInv

\* The job is at none of the steps PublishInv is about.
LEMMA ReportIdle ==
    ASSUME ReportInv, UNCHANGED <<board, carried>>,
           \A k \in Keys : outbox'[k] \in {outbox[k], None},
           pc' \notin {"stage", "append", "precheck", "dispatch", "store", "postcheck", "failed"}
    PROVE  ReportInv'
  BY ReportQuiet DEF PublishInv

\* Nor is anything else changed.
LEMMA ReportSame ==
    ASSUME ReportInv, UNCHANGED <<board, outbox, carried, job, pc>>
    PROVE  ReportInv'
<1>1. Onward
  BY DEF Onward, board
<1>2. PublishInv'
  BY <1>1, Stays DEF ReportInv, PublishInv, Staged
<1>3. QED
  BY <1>2, ReportQuiet

LEMMA ReportRest ==
    ASSUME ShapeInv, ReportInv,
           \/ Restart \/ Crash \/ Poll \/ Unlink \/ SaveSession \/ SaveOffset
           \/ Resolve \/ RemoveRaw \/ Cleanup \/ Settled
    PROVE  ReportInv'
<1>1. UNCHANGED <<board, carried>>
  BY DEF Restart, Crash, Poll, Unlink, SaveSession, SaveOffset, Resolve, RemoveRaw,
         Cleanup, Settled, files
<1>2. \A k \in Keys : outbox'[k] \in {outbox[k], None}
  <2>1. CASE Unlink \/ Resolve
    BY <2>1, Outboxes DEF Unlink, Resolve
  <2>2. CASE ~Unlink /\ ~Resolve
    BY <2>2 DEF Restart, Crash, Poll, SaveSession, SaveOffset, RemoveRaw, Cleanup, Settled, files
  <2>3. QED
    BY <2>1, <2>2
<1>3. pc' \in {"down", "replay", "poll", "take", "offset", "settle"}
  BY DEF Restart, Crash, Poll, Unlink, SaveSession, SaveOffset, Resolve, RemoveRaw,
         Cleanup, Settled, Abort, Leave, Goto
<1>4. QED
  BY <1>1, <1>2, <1>3, ReportIdle

LEMMA ReportExternal ==
    ASSUME ShapeInv, ReportInv, NEW e \in Offered, External(e)
    PROVE  ReportInv'
<1>1. /\ e \in Event /\ Bd!Outcome(e) = "APPENDED" /\ Bd!Commit(e) /\ LogInv
      /\ UNCHANGED <<outbox, job, pc, carried>>
  BY HostAssumption DEF External, files, volatile, ShapeInv
<1>2. Onward
  BY <1>1, Grows DEF Onward
<1>3. OutboxInv' /\ PublishInv'
  BY <1>1, <1>2, Stays DEF ReportInv, OutboxInv, PublishInv, Staged
<1>4. \A m \in DOMAIN log' : m \in DOMAIN log \/ log'[m] = e
  BY <1>1, Grows
<1>5. e.type \in {"receipt", "safety_intercept"} => e.asg \notin Mine
  BY HostAssumption
<1>6. QED
  BY <1>1, <1>2, <1>3, <1>4, <1>5, ReportOn DEF ReportInv

LEMMA OwnWords ==
    ASSUME NEW e, Own(e)
    PROVE  /\ e.type = "receipt" => Earned(e)
           /\ e.type = "safety_intercept" => Has("action_intent", ActOf(e))
<1>1. CASE \E r, c : e = Bid(r, c)
  BY <1>1 DEF Bid
<1>2. ASSUME NEW a \in Actions, Says(e, a)
      PROVE  /\ e.type = "receipt" => Earned(e)
             /\ e.type = "safety_intercept" => Has("action_intent", ActOf(e))
  <2>1. ASSUME NEW p, e = Intercepted(a, p), Has("action_intent", a)
        PROVE  e.type = "safety_intercept" /\ Has("action_intent", ActOf(e))
    <3>1. ActOf(e) = a
      BY <2>1, WhatIsSaid
    <3>2. QED
      BY <2>1, <3>1, WhatIsSaid
  <2>2. QED
    BY <1>2, <2>1, WhatIsSaid DEF Says
<1>3. QED
  BY <1>1, <1>2 DEF Own

\* What the log answers a host that appends the same thing again.
LEMMA DuplicateIsThere ==
    ASSUME LogInv, NEW e, IsHostEvent(e), Bd!Outcome(e) = "DUPLICATE_SAME"
    PROVE  \E n \in DOMAIN log : log[n] = e
<1> DEFINE k == Bd!KeyEntry(e)
           i == byId[e.id]
<1>1. /\ k \in 0 .. Len(log) /\ i \in 0 .. Len(log) /\ Bd!TerminalEntry(e) = 0
      /\ DOMAIN log = 1 .. Len(log) /\ Len(log) \in Nat
  <2>1. e.id \in EventIds /\ e.key \in Keys
    BY EventShape DEF IsHostEvent
  <2>2. Bd!TerminalEntry(e) = 0
    BY DEF IsHostEvent, HostTypes, Bd!TerminalEntry, Bd!IsTerminal, Bd!TerminalTypes
  <2>3. log \in Seq(Event)
    BY DEF LogInv, LogShape
  <2>4. QED
    BY <2>1, <2>2, <2>3 DEF LogInv, IndexShape, Bd!KeyEntry
<1>2. CASE k # 0
  <2>1. log[k] = e
    BY <1>2 DEF Bd!Outcome
  <2>2. QED
    BY <1>1, <1>2, <2>1
<1>3. CASE k = 0 /\ i # 0
  <2>1. log[i] = e
    BY <1>1, <1>3 DEF Bd!Outcome
  <2>2. QED
    BY <1>1, <1>3, <2>1
<1>4. CASE k = 0 /\ i = 0
  BY <1>1, <1>4 DEF Bd!Outcome
<1>5. QED
  BY <1>2, <1>3, <1>4

LEMMA ReportAppend == ASSUME ShapeInv, ReportInv, AppendOutput PROVE ReportInv'
<1> DEFINE o == Bd!Outcome(Staged)
<1>1. PICK e : e = Staged
  OBVIOUS
<1>2. /\ pc = "append" /\ IsHostEvent(e) /\ GoesOn /\ LogInv /\ job \in Jobs
      /\ UNCHANGED <<outbox, carried>>
      /\ Own(e) /\ e.key = job.out.key
      /\ job.then = "precheck" => /\ job.out = IntentEvent(job.act)
                                  /\ Home(job.src, job.act)
      /\ job.then = "failed" => job.act \in CarriedOut
  BY <1>1 DEF AppendOutput, ShapeInv, JobShape, ReportInv, PublishInv, GoesOn
<1>3. CASE o \in {"APPENDED", "DUPLICATE_SAME"}
  <2>1. /\ job' = [job EXCEPT !.keys = Append(@, job.out.key)] /\ pc' = job.then
        /\ o = "APPENDED" => Bd!Commit(e) /\ Bd!Outcome(e) = "APPENDED"
        /\ o # "APPENDED" => UNCHANGED board /\ Bd!Outcome(e) = "DUPLICATE_SAME"
    BY <1>1, <1>3 DEF AppendOutput, Goto
  <2>2. job'.act = job.act
    BY <1>2, <2>1 DEF Jobs
  <2>3. /\ Onward /\ \E n \in DOMAIN log' : log'[n] = e
        /\ \A m \in DOMAIN log' : m \in DOMAIN log \/ log'[m] = e
    <3>1. CASE o = "APPENDED"
      BY <1>2, <2>1, <3>1, Grows DEF Onward, IsHostEvent
    <3>2. CASE o # "APPENDED"
      BY <1>2, <2>1, <3>2, DuplicateIsThere DEF Onward, board
    <3>3. QED
      BY <3>1, <3>2
  <2>4. ASSUME job.then = "precheck" PROVE PublishInv'
    <3>1. e = IntentEvent(job.act) /\ job.act \in Actions
      BY <1>2, <2>4, OneIntent, HomeShape
    <3>2. e.type = "action_intent" /\ ActOf(e) = job.act
      BY <3>1, WhatIsSaid
    <3>3. Has("action_intent", job.act)'
      BY <2>2, <2>3, <3>2 DEF Has, ActOf, Act
    <3>4. QED
      BY <2>1, <2>4, <3>3 DEF PublishInv
  <2>5. ASSUME job.then # "precheck" PROVE PublishInv'
    <3>1. job.then = "failed" => job'.act \in CarriedOut'
      BY <1>2, <2>2, <2>3, Stays
    <3>2. QED
      BY <1>2, <2>1, <2>5, <3>1 DEF PublishInv, GoesOn
  <2>6. PublishInv'
    BY <2>4, <2>5
  <2>7. OutboxInv'
    BY <1>2, <2>3, Stays DEF ReportInv, OutboxInv
  <2>8. /\ e.type = "receipt" => Earned(e)'
        /\ e.type = "safety_intercept" => \E a : a = ActOf(e) /\ Has("action_intent", a)'
    BY <1>2, <2>3, OwnWords, Stays
  <2>9. QED
    BY <1>2, <2>3, <2>6, <2>7, <2>8, ReportOn DEF ReportInv
<1>4. CASE o \notin {"APPENDED", "DUPLICATE_SAME"}
  <2>1. UNCHANGED board /\ pc' \in {"unlink", "down"}
    BY <1>4 DEF AppendOutput, Goto, Abort, Leave
  <2>2. QED
    BY <1>2, <2>1, ReportIdle
<1>5. QED
  BY <1>3, <1>4

\* The job goes to the outbox with an output of the host's.
LEMMA ReportStages ==
    ASSUME ReportInv, UNCHANGED <<board, outbox, carried>>, pc' = "stage",
           NEW e, job'.out = e, Own(e),
           job'.then = "precheck" => e = IntentEvent(job'.act),
           job'.then = "failed" => job'.act \in CarriedOut
    PROVE  ReportInv'
<1>1. Onward /\ CarriedOut' = CarriedOut
  BY DEF Onward, board, CarriedOut
<1>2. Own(e)'
  BY <1>1, Stays
<1>3. Own(job.out)'
  BY <1>2 DEF Own, Says, Earned, Home
<1>4. job'.out = IntentEvent(job'.act) <=> e = IntentEvent(job'.act)
  OBVIOUS
<1>5. PublishInv'
  BY <1>1, <1>3, <1>4 DEF PublishInv
<1>6. QED
  BY <1>5, ReportQuiet

LEMMA ReportReplay == ASSUME ReportInv, Replay PROVE ReportInv'
<1>1. UNCHANGED <<board, outbox, carried>>
  BY DEF Replay, files
<1>2. CASE Replayable = {}
  BY <1>1, <1>2, ReportIdle DEF Replay, Leave, Goto
<1>3. CASE Replayable # {}
  <2>1. PICK k \in Replayable : job' = [NoJob EXCEPT !.out = outbox[k].event, !.then = "settle"]
    BY <1>3 DEF Replay
  <2>2. PICK e : e = outbox[k].event
    OBVIOUS
  <2>3. job'.out = e /\ job'.then = "settle" /\ pc' = "stage"
    BY <1>3, <2>1, <2>2 DEF Replay, NoJob, Goto
  <2>4. Own(e)
    BY <2>2 DEF Replayable, ReportInv, OutboxInv
  <2>5. QED
    BY <1>1, <2>3, <2>4, ReportStages
<1>4. QED
  BY <1>2, <1>3

LEMMA ReportStage == ASSUME ShapeInv, ReportInv, Stage PROVE ReportInv'
<1> DEFINE k == job.out.key
<1>1. /\ pc = "stage" /\ k \in Keys /\ UNCHANGED <<board, carried>>
      /\ outbox = [x \in Keys |-> outbox[x]]
      /\ Own(job.out)
  BY EventShape, Outboxes DEF Stage, ShapeInv, JobShape, IsHostEvent, ReportInv, PublishInv
<1>2. CASE k \in refused
  BY <1>1, <1>2, ReportIdle DEF Stage, Abort, Leave, Goto
<1>3. CASE k \notin refused
  <2>1. /\ pc' = "append" /\ job' = job
        /\ outbox' = IF outbox[k] # None THEN outbox
                     ELSE [outbox EXCEPT ![k] = [event |-> job.out, src |-> job.src]]
    BY <1>3 DEF Stage, Goto
  <2>2. Onward
    BY <1>1 DEF Onward, board
  <2>3. PICK c \in Keys : c = k
    BY <1>1
  <2>4. \A x \in Keys : \/ outbox'[x] = outbox[x] /\ (x = c => outbox[x] # None)
                        \/ x = c /\ outbox'[x].event = job.out
    BY <1>1, <2>1, <2>3
  <2>5. \A x \in Keys : outbox'[x] # None => /\ outbox'[x].event.key = x
                                             /\ \E e : e = outbox'[x].event /\ Own(e)'
    BY <1>1, <2>2, <2>3, <2>4, Stays DEF ReportInv, OutboxInv
  <2>6. OutboxInv'
    BY <2>5 DEF OutboxInv
  <2>7. outbox'[c].event.key = c /\ \E e : e = outbox'[c].event /\ Own(e)'
    <3>1. CASE outbox'[c] = outbox[c] /\ outbox[c] # None
      BY <2>5, <3>1
    <3>2. CASE outbox'[c].event = job.out
      BY <1>1, <2>2, <2>3, <3>2, Stays
    <3>3. QED
      BY <2>4, <3>1, <3>2
  <2>8. PublishInv'
    BY <1>1, <2>1, <2>2, <2>3, <2>7, Stays DEF ReportInv, PublishInv, Staged
  <2>9. QED
    BY <1>1, <2>2, <2>6, <2>8, ReportOn DEF ReportInv, board
<1>4. QED
  BY <1>2, <1>3

LEMMA ReportTake == ASSUME ShapeInv, ReportInv, Take PROVE ReportInv'
<1>1. PICK n : n = Head(mailbox) /\ (TakesUp(n) \/ \E yes \in BOOLEAN : TakesQuietly(n, yes))
  BY TakeShape
<1>2. /\ n \in DOMAIN log /\ LogInv /\ JobShape' /\ UNCHANGED <<board, outbox, carried>>
      /\ pc' \in {"offset", "poll", "stage", "finish"}
  <2>1. mailbox # << >> /\ LogInv /\ FilesShape /\ UNCHANGED <<board, outbox, carried>>
    BY DEF ShapeInv, Take
  <2>2. n = mailbox[1] /\ 1 \in DOMAIN mailbox
    BY <1>1, <2>1 DEF FilesShape
  <2>3. n \in DOMAIN log
    BY <2>1, <2>2 DEF FilesShape, Input
  <2>4. JobShape'
    BY TakeShape DEF ShapeInv
  <2>5. pc' \in {"offset", "poll", "stage", "finish"}
    BY DEF Take, Handle, Goto, Leave
  <2>6. QED
    BY <2>1, <2>3, <2>4, <2>5
<1>3. CASE TakesUp(n)
  <2>1. PICK a : a = MyAct(log[n])
    OBVIOUS
  <2>2. Home(n, a)
    BY <1>2, <1>3, <2>1 DEF TakesUp, Submits, Home
  <2>3. Own(IntentEvent(a))
    BY <1>2, <2>2, OwnOfHome
  <2>4. job'.out = IntentEvent(a) /\ job'.act = a /\ job'.then = "precheck" /\ pc' = "stage"
    BY <1>3, <2>1 DEF TakesUp
  <2>5. QED
    BY <1>2, <2>3, <2>4, ReportStages
<1>4. ASSUME NEW yes \in BOOLEAN, TakesQuietly(n, yes), pc' = "stage"
      PROVE  ReportInv'
  <2>1. PICK c : job'.out = Bid(log[n], c)
    BY <1>4 DEF TakesQuietly
  <2>2. job'.then \notin {"precheck", "failed"}
    BY <1>2, <1>4 DEF TakesQuietly, Ahead, JobShape, GoesOn
  <2>3. Own(Bid(log[n], c))
    BY DEF Own
  <2>4. QED
    BY <1>2, <1>4, <2>1, <2>2, <2>3, ReportStages
<1>5. CASE pc' # "stage"
  BY <1>2, <1>5, ReportIdle
<1>6. QED
  BY <1>1, <1>3, <1>4, <1>5

\* Where the job has an action, it is one of this host's.
LEMMA ActOfJob ==
    ASSUME ShapeInv, pc \in {"precheck", "dispatch", "store", "postcheck", "failed"}
    PROVE  LogInv /\ Home(job.src, job.act) /\ job \in Jobs /\ job.act \in Actions
  BY HomeShape DEF ShapeInv, JobShape

LEMMA ReportPreCheck == ASSUME ShapeInv, ReportInv, PreCheck PROVE ReportInv'
<1>1. /\ LogInv /\ Home(job.src, job.act) /\ job \in Jobs /\ pc = "precheck"
      /\ UNCHANGED <<board, outbox, carried>>
  BY ActOfJob DEF PreCheck
<1>2. Has("action_intent", job.act)
  BY <1>1 DEF ReportInv, PublishInv
<1>3. CASE pc' = "dispatch" /\ job' = job
  <2>1. Has("action_intent", job.act)'
    BY <1>1, <1>2, <1>3 DEF Has, ActOf, Act, board
  <2>2. PublishInv'
    BY <1>3, <2>1 DEF PublishInv
  <2>3. QED
    BY <1>1, <2>2, ReportQuiet
<1>4. CASE Publish(Intercepted(job.act, "pre"), "finish")
  <2>1. PICK e : e = Intercepted(job.act, "pre")
    OBVIOUS
  <2>2. job'.out = e /\ job'.then = "finish" /\ pc' = "stage"
    BY <1>1, <1>4, <2>1 DEF Publish, Goto, Jobs
  <2>3. Own(e)
    BY <1>1, <1>2, <2>1, OwnOfHome
  <2>4. QED
    BY <1>1, <2>2, <2>3, ReportStages
<1>5. QED
  BY <1>3, <1>4 DEF PreCheck, Goto

LEMMA ReportDispatch == ASSUME ShapeInv, ReportInv, Dispatch PROVE ReportInv'
<1>1. PICK o \in Outcomes : /\ job'.outcome = o /\ job'.act = job.act
                            /\ carried' = Append(carried, [act |-> job.act, outcome |-> o])
  BY DispatchShape
<1>2. /\ UNCHANGED <<board, outbox>> /\ pc = "dispatch" /\ pc' = "store"
      /\ Has("action_intent", job.act)
  BY DEF Dispatch, files, Goto, ReportInv, PublishInv
<1>3. /\ DOMAIN carried' = DOMAIN carried \cup {Len(carried) + 1}
      /\ \A n \in DOMAIN carried : carried'[n] = carried[n]
      /\ carried'[Len(carried) + 1] = [act |-> job.act, outcome |-> o]
  <2>1. carried \in Seq([act : Actions, outcome : Outcomes]) /\ job.act \in Actions
    BY <1>2, ActOfJob DEF ShapeInv, FilesShape
  <2>2. QED
    BY <1>1, <2>1
<1>4. Onward /\ log' = log
  BY <1>2, <1>3 DEF Onward, board
<1>5. PublishInv'
  BY <1>1, <1>2, <1>3 DEF PublishInv
<1>6. OutboxInv'
  BY <1>2, <1>4, Stays DEF ReportInv, OutboxInv
<1>7. Has("action_intent", job.act)'
  BY <1>1, <1>2, <1>4 DEF Has, ActOf, Act
<1>8. \A n \in DOMAIN carried' : n \in DOMAIN carried \/
         \E a : carried'[n].act = a /\ Has("action_intent", a)'
  <2>1. PICK b : b = job.act
    OBVIOUS
  <2>2. Has("action_intent", b)'
    BY <1>2, <1>4, <2>1, Stays
  <2>3. QED
    BY <1>3, <2>1, <2>2
<1>9. QED
  BY <1>4, <1>5, <1>6, <1>8, ReportOn DEF ReportInv

LEMMA ReportStore == ASSUME ReportInv, StoreRaw PROVE ReportInv'
<1>1. UNCHANGED <<board, outbox, carried, job>> /\ pc = "store" /\ pc' = "postcheck"
  BY DEF StoreRaw, Goto
<1>2. PublishInv'
  BY <1>1 DEF ReportInv, PublishInv
<1>3. QED
  BY <1>1, <1>2, ReportQuiet

LEMMA ReportResult ==
    ASSUME ShapeInv, ReportInv, PostCheck \/ ReportFailed
    PROVE  ReportInv'
<1>1. /\ LogInv /\ Home(job.src, job.act) /\ job \in Jobs /\ job.act \in Actions
      /\ UNCHANGED <<board, outbox, carried>> /\ pc' = "stage"
      /\ PostCheck => \E n \in DOMAIN carried : /\ carried[n].act = job.act
                                                /\ carried[n].outcome = job.outcome
      /\ job.act \in CarriedOut /\ Has("action_intent", job.act)
  <2>1. LogInv /\ Home(job.src, job.act) /\ job \in Jobs /\ job.act \in Actions
    BY ActOfJob DEF PostCheck, ReportFailed
  <2>2. UNCHANGED <<board, outbox, carried>> /\ pc' = "stage"
    BY DEF PostCheck, ReportFailed, files, Publish, PublishReceipt, Goto
  <2>3. PostCheck => \E n \in DOMAIN carried : /\ carried[n].act = job.act
                                               /\ carried[n].outcome = job.outcome
    BY DEF ReportInv, PublishInv, PostCheck
  <2>4. ReportFailed => job.act \in CarriedOut
    BY DEF ReportInv, PublishInv, ReportFailed
  <2>5. job.act \in CarriedOut
    BY <2>3, <2>4 DEF CarriedOut
  <2>6. Has("action_intent", job.act)
    BY <2>5 DEF ReportInv, ReportsWhatHappened, CarriedOut
  <2>7. QED
    BY <2>1, <2>2, <2>3, <2>5, <2>6
<1>2. ASSUME NEW ok \in BOOLEAN, PublishReceipt(ok),
             ok => \E n \in DOMAIN carried : carried[n].act = job.act /\ carried[n].outcome = "good"
      PROVE  ReportInv'
  <2>1. PICK e : e = Receipt(job.act, ok)
    OBVIOUS
  <2>2. job'.out = e /\ job'.then = "finish"
    BY <1>1, <1>2, <2>1 DEF PublishReceipt, Jobs
  <2>3. e.good = ok /\ ActOf(e) = job.act
    BY <1>1, <2>1, WhatIsSaid
  <2>4. Earned(e)
    BY <1>1, <1>2, <2>3 DEF Earned, CarriedOut
  <2>5. Own(e)
    BY <1>1, <2>1, <2>4, OwnOfHome
  <2>6. QED
    BY <1>1, <2>2, <2>5, ReportStages
<1>3. CASE PostCheck /\ Publish(Intercepted(job.act, "post"), "failed")
  <2>1. PICK e : e = Intercepted(job.act, "post")
    OBVIOUS
  <2>2. job'.out = e /\ job'.then = "failed" /\ job'.act = job.act
    BY <1>1, <1>3, <2>1 DEF Publish, Jobs
  <2>3. Own(e)
    BY <1>1, <2>1, OwnOfHome
  <2>4. QED
    BY <1>1, <2>2, <2>3, ReportStages
<1>4. CASE PostCheck /\ PublishReceipt(Succeeded(job.outcome))
  <2>1. PICK ok \in BOOLEAN : ok = Succeeded(job.outcome)
    BY DEF Succeeded
  <2>2. PublishReceipt(ok)
    BY <1>4, <2>1
  <2>3. ok => job.outcome = "good"
    BY <2>1 DEF Succeeded
  <2>4. QED
    BY <1>1, <1>2, <1>4, <2>2, <2>3
<1>5. CASE ReportFailed
  BY <1>2, <1>5 DEF ReportFailed
<1>6. QED
  BY <1>3, <1>4, <1>5 DEF PostCheck

LEMMA ReportStep == ASSUME ShapeInv, ReportInv, [Next]_vars PROVE ReportInv'
<1>1. CASE UNCHANGED vars
  BY <1>1, ReportSame DEF vars, files, volatile
<1>2. CASE HostStep
  BY <1>2, ReportReplay, ReportRest, ReportTake, ReportStage, ReportAppend, ReportPreCheck,
     ReportDispatch, ReportStore, ReportResult DEF HostStep
<1>3. ASSUME NEW e \in Offered, External(e) PROVE ReportInv'
  BY <1>3, ReportExternal
<1>4. QED
  BY <1>1, <1>2, <1>3, ReportRest DEF Next

LEMMA ReportHolds == Init => ReportInv
  BY DEF Init, Bd!Init, ReportInv, OutboxInv, PublishInv, Announced, ReportsWhatHappened

\* Nothing is carried out without its intent on the Blackboard, and a receipt
\* of this robot's tells of an action that was carried out, as it turned out,
\* whatever revisions a task has, wherever the process crashes and whatever is
\* published once more from the outbox.
THEOREM ReportsAreTrue == Spec => []ReportsWhatHappened
<1>1. Init => ShapeInv /\ ReportInv
  BY InitHolds, ReportHolds DEF HostInv
<1>2. ShapeInv /\ ReportInv /\ [Next]_vars => (ShapeInv /\ ReportInv)'
  BY ShapeStep, ReportStep
<1>3. ShapeInv /\ ReportInv => ReportsWhatHappened
  BY DEF ReportInv
<1>4. QED
  BY <1>1, <1>2, <1>3, PTL DEF Spec

-----------------------------------------------------------------------------
(* The raw receipt.                                                        *)

\* A raw receipt may go once its RECEIPT is on the Blackboard.
StaleInv ==
    job.stale =>
        /\ job.act # None
        /\ pc \in {"stage", "append", "unlink", "finish", "offset", "settle"}
        /\ pc \in {"stage", "append"} =>
              job.then = "finish" /\ \E ok \in BOOLEAN : job.out = Receipt(job.act, ok)
        /\ pc \in {"finish", "offset", "settle"} => Has("receipt", job.act)

LEMMA OneReceipt ==
    ASSUME LogInv, NEW e, Own(e), NEW a, NEW h, Home(h, a), NEW ok,
           e.key = Receipt(a, ok).key
    PROVE  e.type = "receipt" /\ ActOf(e) = a
<1>1. a \in Actions /\ h \in DOMAIN log
  BY HomeShape DEF Home
<1>2. e.key = ActionKey("receipt", "", a) /\ e.key[1] = "receipt"
  <2>1. Receipt(a, ok).key = ActionKey("receipt", "", a)
    BY DEF Receipt
  <2>2. ActionKey("receipt", "", a)[1] = "receipt"
    BY DEF ActionKey
  <2>3. QED
    BY <2>1, <2>2
<1>3. ~\E r, c : e = Bid(r, c)
  <2>1. \A r, c : Bid(r, c).key[1] = "bid"
    BY DEF Bid
  <2>2. QED
    BY <1>2, <2>1
<1>4. PICK b \in Actions, g \in DOMAIN log : Home(g, b) /\ Says(e, b)
  BY <1>3 DEF Own
<1>5. PICK yes \in BOOLEAN : e = Receipt(b, yes)
  <2>1. \A p : Intercepted(b, p).key[1] = "safety_intercept"
    BY <1>4, WhatIsSaid
  <2>2. IntentEvent(b).key[1] = "action_intent"
    BY <1>4, WhatIsSaid
  <2>3. QED
    BY <1>2, <1>4, <2>1, <2>2 DEF Says
<1>6. ActionKey("receipt", "", b) = ActionKey("receipt", "", a)
  BY <1>2, <1>5 DEF Receipt
<1>7. b.task = a.task /\ b.rev = a.rev /\ b.epoch = a.epoch
  BY <1>6 DEF ActionKey
<1>8. /\ OfType(log[h], "task_assigned", <<a.task, a.rev>>) /\ log[h].epoch = a.epoch
      /\ OfType(log[g], "task_assigned", <<a.task, a.rev>>) /\ log[g].epoch = a.epoch
      /\ <<a.task, a.rev>> \in TaskRevs
  BY <1>4, <1>7, HomeShape
<1>9. g = h
  BY <1>1, <1>4, <1>8 DEF LogInv, OnePlanPerEpoch
<1>10. a = b
  BY <1>4, <1>9 DEF Home
<1>11. e = Receipt(a, yes)
  BY <1>5, <1>10
<1>12. e.type = "receipt" /\ e.task = a.task /\ e.rev = a.rev /\ e.epoch = a.epoch
       /\ e.plan = a.plan /\ e.asg = a.asg
  BY <1>11 DEF Receipt
<1>13. QED
  BY <1>1, <1>12 DEF ActOf, Act, Actions

LEMMA StaleAppend ==
    ASSUME ShapeInv, ReportInv, StaleInv, AppendOutput PROVE StaleInv'
<1> DEFINE o == Bd!Outcome(Staged)
<1>1. SUFFICES ASSUME job'.stale PROVE StaleInv'
  BY DEF StaleInv
<1>2. PICK e : e = Staged
  OBVIOUS
<1>3. /\ pc = "append" /\ IsHostEvent(e) /\ LogInv /\ job \in Jobs
      /\ Own(e) /\ e.key = job.out.key
  BY <1>2 DEF AppendOutput, ShapeInv, JobShape, ReportInv, PublishInv
<1>4. CASE o \in {"APPENDED", "DUPLICATE_SAME"}
  <2>1. /\ job' = [job EXCEPT !.keys = Append(@, job.out.key)] /\ pc' = job.then
        /\ o = "APPENDED" => Bd!Commit(e) /\ Bd!Outcome(e) = "APPENDED"
        /\ o # "APPENDED" => UNCHANGED board /\ Bd!Outcome(e) = "DUPLICATE_SAME"
    BY <1>2, <1>4 DEF AppendOutput, Goto
  <2>2. job.stale /\ job'.act = job.act
    BY <1>1, <1>3, <2>1 DEF Jobs
  <2>3. PICK ok \in BOOLEAN : job.out = Receipt(job.act, ok)
    BY <1>3, <2>2 DEF StaleInv
  <2>4. pc' = "finish" /\ job.act # None /\ Home(job.src, job.act)
    BY <1>3, <2>1, <2>2 DEF StaleInv, ShapeInv, JobShape
  <2>5. PICK a : a = job.act
    OBVIOUS
  <2>6. e.type = "receipt" /\ ActOf(e) = a
    BY <1>3, <2>3, <2>4, <2>5, OneReceipt
  <2>7. \E n \in DOMAIN log' : log'[n] = e
    <3>1. CASE o = "APPENDED"
      BY <1>3, <2>1, <3>1, Grows DEF IsHostEvent
    <3>2. CASE o # "APPENDED"
      BY <1>3, <2>1, <3>2, DuplicateIsThere DEF board
    <3>3. QED
      BY <3>1, <3>2
  <2>8. Has("receipt", a)'
    BY <2>6, <2>7 DEF Has, ActOf, Act
  <2>9. Has("receipt", job.act)'
    BY <2>2, <2>5, <2>8 DEF Has, ActOf, Act
  <2>10. QED
    BY <2>2, <2>4, <2>9 DEF StaleInv
<1>5. CASE o \notin {"APPENDED", "DUPLICATE_SAME"}
  <2>1. pc' = "unlink" /\ job' = job
    BY <1>1, <1>5 DEF AppendOutput, Goto, Abort, Leave, NoJob
  <2>2. QED
    BY <1>1, <2>1 DEF StaleInv
<1>6. QED
  BY <1>4, <1>5

\* The job and its place stay as they are, or it goes on after its receipt.
LEMMA StaleOn ==
    ASSUME StaleInv, NEW j, j = job', j.act = job.act, j.stale => job.stale,
           j.out = job.out, j.then = job.then,
           Onward,
           \/ pc' = pc
           \/ pc = "stage" /\ pc' = "append"
           \/ pc = "finish" /\ pc' = "offset"
           \/ pc = "offset" /\ pc' = "settle"
    PROVE  StaleInv'
<1>1. Has("receipt", job.act) => Has("receipt", job.act)'
  <2>1. PICK a : a = job.act
    OBVIOUS
  <2>2. Has("receipt", a) => Has("receipt", a)'
    BY Stays
  <2>3. QED
    BY <2>1, <2>2 DEF Has, ActOf, Act
<1>2. QED
  BY <1>1 DEF StaleInv, Receipt, ActionKey

LEMMA TakenStale == ASSUME Take PROVE job'.stale = FALSE
<1>1. ASSUME NEW n, NEW yes, Handle(n, yes) PROVE job'.stale = FALSE
  <2> DEFINE e == log[n]
             s == SessionAfter(e, Loaded(e.task), yes)
             base == [NoJob EXCEPT !.src = n, !.task = e.task, !.after = s]
  <2>1. base.stale = FALSE /\ DOMAIN base = DOMAIN NoJob
    BY DEF NoJob
  <2>2. \A act, out, then : [base EXCEPT !.act = act, !.out = out, !.then = then].stale = FALSE
    BY DEF NoJob
  <2>3. \A out, then : [base EXCEPT !.out = out, !.then = then].stale = FALSE
    BY DEF NoJob
  <2>4. \A clean : [base EXCEPT !.clean = clean].stale = FALSE
    BY DEF NoJob
  <2>5. CASE Submits(e, Loaded(e.task))
    <3>1. job' = [base EXCEPT !.act = MyAct(e), !.out = IntentEvent(MyAct(e)), !.then = "precheck"]
      BY <1>1, <2>5 DEF Handle
    <3>2. QED
      BY <2>2, <3>1
  <2>6. CASE ~Submits(e, Loaded(e.task)) /\ e.type = "bid_round_opened" /\ yes /\ ViewOf(e).terminal = None
    <3>1. PICK c \in BidContents : job' = [base EXCEPT !.out = Bid(e, c), !.then = "finish"]
      BY <1>1, <2>6 DEF Handle
    <3>2. QED
      BY <2>3, <3>1
  <2>7. CASE ~Submits(e, Loaded(e.task)) /\ ~(e.type = "bid_round_opened" /\ yes /\ ViewOf(e).terminal = None)
    <3>1. job' = [base EXCEPT !.clean = e.type \in TerminalTypes]
      BY <1>1, <2>7 DEF Handle
    <3>2. QED
      BY <2>4, <3>1
  <2>8. QED
    BY <2>5, <2>6, <2>7
<1>2. CASE job' = NoJob \/ \E n : job' = [NoJob EXCEPT !.src = n]
  BY <1>2 DEF NoJob
<1>3. QED
  BY <1>1, <1>2 DEF Take, Leave

LEMMA StaleStep == ASSUME ShapeInv, ReportInv, StaleInv, [Next]_vars PROVE StaleInv'
<1>1. CASE UNCHANGED vars
  BY <1>1, StaleOn DEF vars, board, volatile, Onward
<1>2. CASE Restart \/ Crash \/ Replay \/ Take \/ Unlink \/ Cleanup \/ Settled
  <2>1. job'.stale = FALSE
    <3>1. pc \in {"replay", "poll", "take"} => job = NoJob
      BY DEF ShapeInv, JobShape
    <3>2. CASE Take
      BY <3>2, TakenStale
    <3>3. CASE Replay
      <4>1. CASE Replayable = {}
        BY <3>3, <4>1 DEF Replay, Leave, NoJob
      <4>2. CASE Replayable # {}
        <5>1. PICK k \in Replayable : job' = [NoJob EXCEPT !.out = outbox[k].event, !.then = "settle"]
          BY <3>3, <4>2 DEF Replay
        <5>2. \A out, then : [NoJob EXCEPT !.out = out, !.then = then].stale = FALSE
          BY DEF NoJob
        <5>3. QED
          BY <5>1, <5>2
      <4>3. QED
        BY <4>1, <4>2
    <3>4. CASE Settled \/ Cleanup \/ Restart \/ Crash \/ Unlink
      BY <3>4 DEF Restart, Crash, Unlink, Cleanup, Settled, Leave, Abort, NoJob
    <3>5. QED
      BY <1>2, <3>2, <3>3, <3>4
  <2>2. QED
    BY <2>1 DEF StaleInv
<1>3. CASE PreCheck \/ Dispatch \/ StoreRaw \/ (PostCheck /\ Publish(Intercepted(job.act, "post"), "failed"))
  <2>1. pc \in {"precheck", "dispatch", "store", "postcheck"} /\ ~job.stale /\ job \in Jobs
    BY <1>3 DEF PreCheck, Dispatch, StoreRaw, PostCheck, StaleInv, ShapeInv, JobShape
  <2>2. job'.stale = FALSE
    BY <1>3, <2>1 DEF PreCheck, Dispatch, StoreRaw, Publish, Jobs
  <2>3. QED
    BY <2>2 DEF StaleInv
<1>4. ASSUME NEW ok \in BOOLEAN, PublishReceipt(ok), pc \in {"postcheck", "failed"}
      PROVE  StaleInv'
  <2>1. job.act # None /\ job \in Jobs
    BY <1>4 DEF ShapeInv, JobShape
  <2>2. /\ job'.act = job.act /\ job'.then = "finish" /\ pc' = "stage"
        /\ job'.out = Receipt(job.act, ok)
    BY <1>4, <2>1 DEF PublishReceipt, Goto, Jobs
  <2>3. job'.out = Receipt(job'.act, ok)
    BY <2>2
  <2>4. QED
    BY <2>1, <2>2, <2>3 DEF StaleInv, Receipt, ActionKey
<1>5. CASE Stage
  <2>1. CASE pc' = "append"
    BY <1>5, <2>1, StaleOn DEF Stage, Goto, Abort, Leave, board, Onward, NoJob
  <2>2. CASE pc' # "append"
    BY <1>5, <2>2 DEF Stage, Goto, Abort, Leave, NoJob, StaleInv
  <2>3. QED
    BY <2>1, <2>2
<1>6. CASE Poll
  <2>1. job = NoJob /\ job' = job
    BY <1>6 DEF Poll, ShapeInv, JobShape
  <2>2. QED
    BY <2>1 DEF StaleInv, NoJob
<1>7. CASE SaveSession \/ Resolve \/ RemoveRaw
  <2>1. job \in Jobs
    BY DEF ShapeInv, JobShape
  <2>2. job'.act = job.act /\ (job'.stale => job.stale) /\ job'.out = job.out /\ job'.then = job.then
    BY <1>7, <2>1 DEF SaveSession, Resolve, RemoveRaw, Jobs
  <2>3. Onward
    BY <1>7 DEF SaveSession, Resolve, RemoveRaw, board, Onward
  <2>4. pc' = pc \/ (pc = "finish" /\ pc' = "offset")
    BY <1>7 DEF SaveSession, Resolve, RemoveRaw, Goto
  <2>5. QED
    BY <2>2, <2>3, <2>4, StaleOn
<1>8. CASE SaveOffset
  <2>1. CASE pc' = "settle"
    BY <1>8, <2>1, StaleOn DEF SaveOffset, Goto, Abort, Leave, board, Onward, NoJob
  <2>2. CASE pc' # "settle"
    BY <1>8, <2>2 DEF SaveOffset, Goto, Abort, Leave, NoJob, StaleInv
  <2>3. QED
    BY <2>1, <2>2
<1>9. ASSUME NEW e \in Offered, External(e) PROVE StaleInv'
  <2>1. /\ e \in Event /\ Bd!Outcome(e) = "APPENDED" /\ Bd!Commit(e) /\ LogInv
        /\ UNCHANGED <<job, pc, carried>>
    BY <1>9, HostAssumption DEF External, volatile, ShapeInv
  <2>2. Onward
    BY <2>1, Grows DEF Onward
  <2>3. QED
    BY <2>1, <2>2, StaleOn
<1>10. CASE PostCheck \/ ReportFailed
  <2>1. CASE PostCheck /\ PublishReceipt(Succeeded(job.outcome))
    <3>1. PICK ok \in BOOLEAN : ok = Succeeded(job.outcome)
      BY DEF Succeeded
    <3>2. QED
      BY <1>4, <2>1, <3>1 DEF PostCheck
  <2>2. CASE ReportFailed
    BY <1>4, <2>2 DEF ReportFailed
  <2>3. QED
    BY <1>3, <1>10, <2>1, <2>2 DEF PostCheck
<1>11. QED
  BY <1>1, <1>2, <1>3, <1>5, <1>6, <1>7, <1>8, <1>9, <1>10, StaleAppend DEF Next, HostStep

\* The raw receipt of an action is removed only when its RECEIPT is on the
\* Blackboard and the assignment is consumed: until then it is the only trace of
\* what the robot did, should the process crash.
THEOREM RawKept == Spec => RawReceiptKept
<1> DEFINE Inv == ShapeInv /\ ReportInv /\ StaleInv
           Kept == \A a \in raw \ raw' :
                      /\ Has("receipt", a)
                      /\ \E n \in 1 .. offset :
                            log[n].type = "task_assigned" /\ ForMe(log[n]) /\ MyAct(log[n]) = a
<1>1. Init => Inv
  BY InitHolds, ReportHolds DEF HostInv, Init, StaleInv, NoJob
<1>2. Inv /\ [Next]_vars => Inv'
  BY ShapeStep, ReportStep, StaleStep
<1>3. Inv /\ [Next]_vars => [Kept]_vars
  <2>1. SUFFICES ASSUME Inv, Next, NEW a \in raw \ raw'
                 PROVE  /\ Has("receipt", a)
                        /\ \E n \in 1 .. offset :
                              log[n].type = "task_assigned" /\ ForMe(log[n]) /\ MyAct(log[n]) = a
    OBVIOUS
  <2>2. RemoveRaw
    BY <2>1 DEF Next, HostStep, Restart, Crash, External, Replay, Poll, Take, Stage,
                AppendOutput, Unlink, PreCheck, Dispatch, StoreRaw, PostCheck, ReportFailed,
                SaveSession, SaveOffset, Resolve, Cleanup, Settled, files
  <2>3. pc = "settle" /\ job.stale /\ a = job.act
    BY <2>1, <2>2 DEF RemoveRaw
  <2>4. Has("receipt", a) /\ job.act # None
    BY <2>1, <2>3 DEF StaleInv
  <2>5. Home(job.src, a) /\ job.src <= offset
    BY <2>1, <2>3, <2>4 DEF ShapeInv, JobShape
  <2>6. job.src \in 1 .. offset
    <3>1. offset \in Nat /\ job.src \in DOMAIN log /\ DOMAIN log = 1 .. Len(log)
      BY <2>1, <2>5 DEF ShapeInv, FilesShape, Home, LogInv, LogShape
    <3>2. QED
      BY <2>5, <3>1
  <2>7. QED
    BY <2>4, <2>5, <2>6 DEF Home
<1> HIDE DEF Inv
<1>4. Spec => [][Kept]_vars
  BY <1>1, <1>2, <1>3, PTL DEF Spec
<1>5. QED
  BY <1>4 DEF RawReceiptKept

-----------------------------------------------------------------------------
(* The shape of the variables.                                             *)

\* What TypeOK says beyond ShapeInv and OutboxInv.
SizeInv ==
    /\ offset \in DOMAIN log \cup {0}
    /\ \A k \in Keys : outbox[k] # None => outbox[k].src \in DOMAIN log \cup {0}
    /\ refused \subseteq Keys
    /\ Len(mailbox) <= MailboxSize
    /\ pc \in Labels
    /\ crashes \in 0 .. MaxCrashes

\* A batch is as large as there is room: before its last event lie its others.
LEMMA BatchFits ==
    ASSUME LogInv, FilesShape, Len(mailbox) <= MailboxSize,
           NEW s, DOMAIN s = 1 .. Cardinality(Batch), IsReadOf(s, Batch)
    PROVE  Len(mailbox) + Cardinality(Batch) <= MailboxSize
<1> DEFINE c == Cardinality(Batch)
<1>1. c \in Nat /\ Len(mailbox) \in Nat /\ MailboxSize \in Nat /\ Room = MailboxSize - Len(mailbox)
  BY BatchShape, HostAssumption DEF FilesShape, Room
<1>2. CASE c # 0
  <2>1. PICK z \in Batch : z = s[c] /\ \A n \in Batch \ {z} : n < z
    <3>1. c \in 1 .. c /\ \A i \in 1 .. c : i # c => i < c
      BY <1>1, <1>2
    <3>2. /\ \A n \in Batch : \E i \in 1 .. c : n = s[i]
          /\ \A i \in 1 .. c : s[i] \in Batch
      BY DEF IsReadOf, Range
    <3>3. \A i \in 1 .. c : i # c => s[i] < s[c]
      BY <3>1 DEF IsReadOf
    <3>4. QED
      BY <3>1, <3>2, <3>3
  <2> DEFINE before == {m \in Unread : m < z}
  <2>2. IsFiniteSet(Unread)
    <3>1. IsFiniteSet(1 .. Len(log)) /\ DOMAIN log = 1 .. Len(log)
      BY FS_Interval DEF LogInv, LogShape
    <3>2. Unread \subseteq 1 .. Len(log)
      BY <3>1 DEF Unread
    <3>3. QED
      BY <3>1, <3>2, FS_Subset
  <2>3. IsFiniteSet(Batch) /\ IsFiniteSet(before) /\ Batch \ {z} \subseteq before
    <3>1. Batch \subseteq Unread /\ before \subseteq Unread
      BY DEF Batch
    <3>2. QED
      BY <2>1, <2>2, <3>1, FS_Subset
  <2>4. Cardinality(Batch \ {z}) = c - 1
    BY <2>1, <2>3, FS_RemoveElement
  <2>5. Cardinality(Batch \ {z}) <= Cardinality(before) /\ Cardinality(before) \in Nat
    BY <2>3, FS_Subset, FS_CardinalityType
  <2>6. Cardinality(before) < Room
    BY <2>1 DEF Batch
  <2> HIDE DEF before
  <2>7. QED
    BY <1>1, <2>4, <2>5, <2>6
<1>3. CASE c = 0
  BY <1>1, <1>3
<1>4. QED
  BY <1>2, <1>3

LEMMA LogKept ==
    ASSUME ShapeInv, [Next]_vars
    PROVE  DOMAIN log \subseteq DOMAIN log'
<1>1. CASE Plain
  BY <1>1 DEF Plain, Grown, Drops, board
<1>2. CASE ~Plain
  BY <1>2, ShapeStep DEF Poll, Take, PreCheck, Dispatch, SaveSession, SaveOffset, Cleanup, board
<1>3. QED
  BY <1>1, <1>2

LEMMA SizeStep == ASSUME ShapeInv, SizeInv, [Next]_vars PROVE SizeInv'
<1>1. /\ DOMAIN log \subseteq DOMAIN log' /\ LogInv /\ FilesShape /\ JobShape
      /\ job \in Jobs /\ (job.src # 0 => job.src \in DOMAIN log)
  BY LogKept DEF ShapeInv, JobShape, Input
<1>2. offset' \in DOMAIN log' \cup {0}
  <2>1. offset' = offset \/ offset' = job.src
    BY DEF Next, HostStep, vars, files, Replay, Poll, Take, Stage, AppendOutput, Unlink, PreCheck,
           Dispatch, StoreRaw, PostCheck, ReportFailed, SaveSession, SaveOffset, Resolve, RemoveRaw,
           Cleanup, Settled, Restart, Crash, External
  <2>2. QED
    BY <1>1, <2>1 DEF SizeInv
<1>3. \A k \in Keys : outbox'[k] # None => outbox'[k].src \in DOMAIN log' \cup {0}
  <2>1. \A k \in Keys : outbox'[k] \in {outbox[k], None} \/ outbox'[k].src = job.src
    <3>1. CASE Stage
      BY <3>1, Outboxes DEF Stage
    <3>2. CASE Unlink \/ Resolve
      BY <3>2, Outboxes DEF Unlink, Resolve
    <3>3. CASE ~Stage /\ ~Unlink /\ ~Resolve
      BY <3>3 DEF Next, HostStep, vars, files, Replay, Poll, Take, AppendOutput, PreCheck,
             Dispatch, StoreRaw, PostCheck, ReportFailed, SaveSession, SaveOffset, RemoveRaw,
             Cleanup, Settled, Restart, Crash, External
    <3>4. QED
      BY <3>1, <3>2, <3>3
  <2>2. QED
    BY <1>1, <2>1 DEF SizeInv
<1>4. refused' \subseteq Keys
  <2>1. refused' \subseteq refused \/ (pc = "append" /\ refused' = refused \cup {job.out.key})
    BY DEF Next, HostStep, vars, files, Replay, Poll, Take, Stage, AppendOutput, Unlink, PreCheck,
           Dispatch, StoreRaw, PostCheck, ReportFailed, SaveSession, SaveOffset, Resolve, RemoveRaw,
           Cleanup, Settled, Restart, Crash, External
  <2>2. pc = "append" => job.out.key \in Keys
    BY <1>1, EventShape DEF JobShape, IsHostEvent
  <2>3. QED
    BY <2>1, <2>2 DEF SizeInv
<1>5. Len(mailbox') <= MailboxSize
  <2>1. Len(mailbox) \in Nat /\ Len(mailbox) <= MailboxSize /\ MailboxSize \in Nat /\ mailbox \in Seq(Nat)
    BY <1>1, HostAssumption DEF FilesShape, SizeInv
  <2>2. CASE Poll
    <3>1. PICK c, k, s : /\ c = Cardinality(Batch) /\ k = Len(mailbox)
                         /\ IsReadOf(s, Batch) /\ Reads(s, c, k)
      BY <2>2, PollReads
    <3>2. /\ DOMAIN s = 1 .. c /\ c \in Nat /\ k \in Nat
          /\ mailbox' \in Seq(Nat) /\ DOMAIN mailbox' = 1 .. k + c
      BY <3>1 DEF Reads
    <3>3. Len(mailbox') = k + c
      BY <3>2
    <3>4. k + c <= MailboxSize
      BY <1>1, <2>1, <3>1, <3>2, BatchFits
    <3>5. QED
      BY <3>3, <3>4
  <2>3. CASE ~Poll
    <3>1. mailbox' = mailbox \/ mailbox' = << >> \/ (mailbox # << >> /\ mailbox' = Tail(mailbox))
      BY <2>3 DEF Next, HostStep, vars, volatile, Replay, Take, Stage, AppendOutput, Unlink, PreCheck,
             Dispatch, StoreRaw, PostCheck, ReportFailed, SaveSession, SaveOffset, Resolve, RemoveRaw,
             Cleanup, Settled, Restart, Crash, External
    <3>2. Len(<< >>) = 0 /\ (mailbox # << >> => Len(Tail(mailbox)) = Len(mailbox) - 1)
      BY <2>1
    <3>3. QED
      BY <2>1, <3>1, <3>2
  <2>4. QED
    BY <2>2, <2>3
<1>6. pc' \in Labels
  <2>1. CASE AppendOutput
    <3>1. job.then \in Labels
      BY <1>1, <2>1 DEF AppendOutput, JobShape, GoesOn, Labels
    <3>2. pc' \in {job.then, "unlink", "down"}
      BY <2>1 DEF AppendOutput, Goto, Abort, Leave
    <3>3. QED
      BY <3>1, <3>2 DEF Labels
  <2>2. CASE ~AppendOutput
    <3>1. pc' = pc \/ pc' \in Labels
      BY <2>2 DEF Next, HostStep, vars, volatile, Replay, Poll, Take, Handle, Stage, Unlink, PreCheck,
             Dispatch, StoreRaw, PostCheck, ReportFailed, SaveSession, SaveOffset, Resolve, RemoveRaw,
             Cleanup, Settled, Restart, Crash, External, Publish, PublishReceipt, Goto, Abort, Leave, Labels
    <3>2. QED
      BY <3>1 DEF SizeInv
  <2>3. QED
    BY <2>1, <2>2
<1>7. crashes' \in 0 .. MaxCrashes
  <2>1. crashes' = crashes \/ (crashes < MaxCrashes /\ crashes' = crashes + 1)
    BY DEF Next, HostStep, vars, Replay, Poll, Take, Stage, AppendOutput, Unlink, PreCheck,
           Dispatch, StoreRaw, PostCheck, ReportFailed, SaveSession, SaveOffset, Resolve, RemoveRaw,
           Cleanup, Settled, Restart, Crash, External
  <2>2. QED
    BY <2>1, HostAssumption DEF SizeInv
<1>8. QED
  BY <1>2, <1>3, <1>4, <1>5, <1>6, <1>7 DEF SizeInv

\* Every variable of the host keeps its shape: the offset and the sources of
\* what is in the outbox are positions of the log, an outbox file holds an event
\* of its own key, and the mailbox never holds more than there is room for.
THEOREM TypeHolds == Spec => []TypeOK
<1>1. Init => ShapeInv /\ ReportInv /\ SizeInv
  <2>1. Init => SizeInv
    BY HostAssumption DEF Init, SizeInv, Labels
  <2>2. QED
    BY <2>1, InitHolds, ReportHolds DEF HostInv
<1>2. ShapeInv /\ ReportInv /\ SizeInv /\ [Next]_vars => (ShapeInv /\ ReportInv /\ SizeInv)'
  BY ShapeStep, ReportStep, SizeStep
<1>3. ShapeInv /\ ReportInv /\ SizeInv => TypeOK
  <2>1. SUFFICES ASSUME ShapeInv, ReportInv, SizeInv PROVE TypeOK
    OBVIOUS
  <2>2. DOMAIN log = 1 .. Len(log) /\ Len(log) \in Nat
    BY <2>1 DEF ShapeInv, LogInv, LogShape
  <2>3. QED
    BY <2>1, <2>2 DEF ShapeInv, FilesShape, ReportInv, OutboxInv, SizeInv, TypeOK
<1>4. QED
  BY <1>1, <1>2, <1>3, PTL DEF Spec

-----------------------------------------------------------------------------
(* No assignment is skipped.                                               *)

\* Action a need not be begun any more, or not in this plan.
Over(a) ==
    LET v == view[<<a.task, a.rev>>]
    IN  v.epoch > a.epoch \/ v.terminal # None \/ ReplanPending(v)

\* What position p asks of this robot was begun, or is over.
DealtWith(p) ==
    log[p].type = "task_assigned" /\ ForMe(log[p]) =>
        Has("action_intent", MyAct(log[p])) \/ Over(MyAct(log[p]))

\* The plan of the view is that of the log.
PlanOfLog ==
    \A n \in DOMAIN log, tr \in TaskRevs :
        OfType(log[n], "task_assigned", tr) /\ log[n].epoch = view[tr].epoch =>
            view[tr].plan = [id |-> log[n].plan, epoch |-> log[n].epoch, asgs |-> log[n].asgs]

RoundsBehind ==
    \A n \in DOMAIN log, tr \in TaskRevs :
        OfType(log[n], "bid_round_opened", tr) => log[n].epoch <= view[tr].epoch

\* What a session says of task t, the log says, too.
Grounded(s, t) ==
    /\ s.epoch <= view[<<t, 1>>].epoch
    /\ s.intent # None => s.intent.act.asg \in Mine
    /\ s.intent # None /\ s.intent.state # "proposed" => Has("action_intent", s.intent.act)

SessionsGrounded ==
    /\ \A t \in Tasks : session[t] # None => Grounded(session[t], t)
    /\ Pending => Grounded(job.after, job.task)

\* The intent of the job is on its way.
Announcing == pc \in {"stage", "append", "unlink"} /\ job.then = "precheck"

\* What was consumed was dealt with; what is not, is to come in its turn.
InTurn ==
    /\ \A p \in DOMAIN log : p <= offset => DealtWith(p)
    /\ \A p \in DOMAIN log : p < job.src => DealtWith(p)
    /\ job.src # 0 => DealtWith(job.src) \/ Announcing
    /\ pc # "down" => \A i \in DOMAIN mailbox, p \in DOMAIN log :
          p < mailbox[i] => \/ DealtWith(p) \/ p = job.src
                            \/ \E j \in DOMAIN mailbox : j < i /\ mailbox[j] = p

HandledInv == PlanOfLog /\ RoundsBehind /\ SessionsGrounded /\ InTurn

-----------------------------------------------------------------------------
LEMMA BoardSteps ==
    ASSUME ShapeInv, [Next]_vars
    PROVE  \/ UNCHANGED board
           \/ /\ AppendOutput \/ \E e \in Offered : External(e)
              /\ \E e \in Event : Bd!Outcome(e) = "APPENDED" /\ Bd!Commit(e)
<1>1. CASE AppendOutput
  <2>1. pc = "append"
    BY <1>1 DEF AppendOutput
  <2>2. IsHostEvent(Staged)
    BY <2>1 DEF ShapeInv, JobShape
  <2>3. QED
    BY <1>1, <2>2 DEF AppendOutput, IsHostEvent
<1>2. ASSUME NEW e \in Offered, External(e)
      PROVE  Bd!Outcome(e) = "APPENDED" /\ Bd!Commit(e) /\ e \in Event
  BY <1>2, HostAssumption DEF External
<1>3. CASE ~AppendOutput /\ ~\E e \in Offered : External(e)
  BY <1>3 DEF Next, HostStep, vars, Replay, Poll, Take, Stage, Unlink, PreCheck,
         Dispatch, StoreRaw, PostCheck, ReportFailed, SaveSession, SaveOffset, Resolve, RemoveRaw,
         Cleanup, Settled, Restart, Crash
<1>4. QED
  BY <1>1, <1>2, <1>3

LEMMA PlanStays ==
    ASSUME LogInv, PlanOfLog, NEW e \in Event, Bd!Outcome(e) = "APPENDED", Bd!Commit(e)
    PROVE  PlanOfLog'
<1>1. SUFFICES ASSUME NEW n \in DOMAIN log', NEW tr \in TaskRevs,
                      OfType(log'[n], "task_assigned", tr), log'[n].epoch = view'[tr].epoch
               PROVE  view'[tr].plan = [id |-> log'[n].plan, epoch |-> log'[n].epoch,
                                        asgs |-> log'[n].asgs]
  BY DEF PlanOfLog, OfType
<1> DEFINE v == view[tr]
           w == Apply(v, e)
<1>2. /\ v \in View /\ v.epoch \in Nat
      /\ v.round # None => v.round.epoch = v.epoch /\ v.epoch # 0
      /\ tr = Bd!Target(e) => view'[tr] = w /\ Accepted(v, e)
      /\ tr # Bd!Target(e) => view'[tr] = v
  BY ViewStep DEF RoundOf, View
<1>3. CASE n \in DOMAIN log
  <2>1. log'[n] = log[n] /\ log[n].epoch \in Nat \ {0}
    <3>1. log'[n] = log[n] /\ log[n] \in Event
      BY <1>3, Grows DEF LogInv, LogShape
    <3>2. QED
      BY <1>1, <3>1, AssignedShape DEF OfType
  <2>2. v.epoch = log[n].epoch /\ v.plan # None
    <3>1. log[n].epoch < v.epoch \/ (log[n].epoch = v.epoch /\ v.plan # None)
      BY <1>1, <1>3, <2>1 DEF LogInv, EpochsBehind, EpochBehind
    <3>2. v.epoch <= view'[tr].epoch
      BY EpochGrows
    <3>3. QED
      BY <1>1, <1>2, <2>1, <3>1, <3>2
  <2>3. v.plan = [id |-> log[n].plan, epoch |-> log[n].epoch, asgs |-> log[n].asgs]
    BY <1>1, <1>3, <2>1, <2>2 DEF PlanOfLog
  <2>4. CASE tr = Bd!Target(e)
    <3>1. view'[tr] = w /\ Accepted(v, e)
      BY <1>2, <2>4
    <3>2. e.type \notin {"bid_round_opened", "task_assigned"}
      BY <1>2, <2>2, <3>1, RoundApplies, AssignedApplies
    <3>3. e.type # "task_replan"
      BY <1>1, <1>2, <2>1, <2>2, <3>1, ReplanApplies
    <3>4. w.plan = v.plan
      BY <1>2, <3>2, <3>3, CompletedApplies, OthersKeepPlan DEF PlanTypes
    <3>5. QED
      BY <2>1, <2>3, <3>1, <3>4
  <2>5. CASE tr # Bd!Target(e)
    BY <1>2, <2>1, <2>3, <2>5
  <2>6. QED
    BY <2>4, <2>5
<1>4. CASE n \notin DOMAIN log
  <2>1. log'[n] = e
    BY <1>4, Grows
  <2>2. tr = Bd!Target(e) /\ e.type = "task_assigned"
    BY <1>1, <2>1, ViewStep DEF OfType
  <2>3. w.plan = [id |-> e.plan, epoch |-> e.epoch, asgs |-> e.asgs]
    BY <1>2, <2>2, AssignedApplies
  <2>4. QED
    BY <1>2, <2>1, <2>2, <2>3
<1>5. QED
  BY <1>3, <1>4

LEMMA RoundsStay ==
    ASSUME LogInv, RoundsBehind, NEW e \in Event, Bd!Outcome(e) = "APPENDED", Bd!Commit(e)
    PROVE  RoundsBehind'
<1>1. SUFFICES ASSUME NEW n \in DOMAIN log', NEW tr \in TaskRevs,
                      OfType(log'[n], "bid_round_opened", tr)
               PROVE  log'[n].epoch <= view'[tr].epoch
  BY DEF RoundsBehind, OfType
<1>2. view[tr].epoch \in Nat /\ view[tr].epoch <= view'[tr].epoch /\ view'[tr].epoch \in Nat
  BY EpochGrows, ViewsStep DEF ViewsOK, View
<1>3. CASE n \in DOMAIN log
  <2>1. log'[n] = log[n] /\ log[n] \in Event
    BY <1>3, Grows DEF LogInv, LogShape
  <2>2. log[n].epoch \in Nat /\ log[n].epoch <= view[tr].epoch
    BY <1>1, <1>3, <2>1, RoundShape DEF RoundsBehind, OfType
  <2>3. QED
    BY <1>2, <2>1, <2>2
<1>4. CASE n \notin DOMAIN log
  <2>1. log'[n] = e /\ e.type = "bid_round_opened"
    BY <1>1, <1>4, Grows DEF OfType
  <2>2. tr = Bd!Target(e)
    BY <1>1, <2>1, ViewStep DEF OfType
  <2>3. e.epoch = view'[tr].epoch
    <3>1. PICK v \in View : v = view[tr] /\ RoundOf(v) /\ Accepted(v, e) /\ view'[tr] = Apply(v, e)
      BY <2>2, ViewStep
    <3>2. v.round # None => v.round.epoch = v.epoch /\ v.epoch # 0
      BY <3>1 DEF RoundOf
    <3>3. e.epoch = Apply(v, e).epoch
      BY <2>1, <3>1, <3>2, RoundApplies
    <3>4. QED
      BY <3>1, <3>3
  <2>4. QED
    BY <1>2, <2>1, <2>3
<1>5. QED
  BY <1>3, <1>4

\* What is over stays over: evidence only goes with a new epoch.
LEMMA OverStays ==
    ASSUME LogInv, NEW e \in Event, Bd!Outcome(e) = "APPENDED", Bd!Commit(e),
           NEW n \in DOMAIN log, log[n].type = "task_assigned", ForMe(log[n]),
           NEW a, a = MyAct(log[n]), Over(a)
    PROVE  Over(a)'
<1> DEFINE tr == <<a.task, a.rev>>
           v == view[tr]
           w == Apply(v, e)
<1>1. tr \in TaskRevs /\ OfType(log[n], "task_assigned", tr) /\ log[n].epoch = a.epoch /\ a.epoch \in Nat
  BY HomeShape DEF Home
<1>2. /\ v \in View /\ v.epoch \in Nat /\ view'[tr] \in View /\ view'[tr].epoch \in Nat
      /\ v.epoch <= view'[tr].epoch
      /\ tr = Bd!Target(e) => view'[tr] = w /\ Accepted(v, e)
      /\ tr # Bd!Target(e) => view'[tr] = v
  BY <1>1, ViewStep, EpochGrows, ViewsStep DEF ViewsOK, View
<1>3. CASE v.epoch > a.epoch
  BY <1>1, <1>2, <1>3 DEF Over
<1>4. CASE v.terminal # None
  <2>1. view'[tr].terminal # None
    BY <1>1, <1>4, EndsStep
  <2>2. QED
    BY <2>1 DEF Over
<1>5. CASE ~(v.epoch > a.epoch) /\ v.terminal = None
  <2>1. v.pending # {} /\ v.epoch = a.epoch /\ v.plan # None
    <3>1. a.epoch < v.epoch \/ (a.epoch = v.epoch /\ v.plan # None)
      BY <1>1 DEF LogInv, EpochsBehind, EpochBehind
    <3>2. QED
      BY <1>1, <1>2, <1>5, <3>1 DEF Over, ReplanPending
  <2>2. CASE tr # Bd!Target(e)
    BY <1>2, <1>5, <2>1, <2>2 DEF Over, ReplanPending
  <2>3. CASE tr = Bd!Target(e)
    <3>1. view'[tr] = w /\ Accepted(v, e)
      BY <1>2, <2>3
    <3>2. CASE w.terminal # None
      BY <3>1, <3>2 DEF Over
    <3>3. CASE e.type = "task_replan"
      <4>1. w.epoch = v.epoch + 1
        BY <1>2, <3>1, <3>3, ReplanApplies
      <4>2. QED
        BY <1>2, <2>1, <3>1, <4>1 DEF Over
    <3>4. CASE w.terminal = None /\ e.type # "task_replan"
      <4>1. e.type # "task_assigned"
        BY <1>2, <2>1, <3>1, AssignedApplies
      <4>2. w.pending # {}
        BY <1>2, <1>5, <2>1, <3>1, <3>4, <4>1, PendingApplies
      <4>3. QED
        BY <3>1, <3>4, <4>2 DEF Over, ReplanPending
    <3>5. QED
      BY <3>2, <3>3, <3>4
  <2>4. QED
    BY <2>2, <2>3
<1>6. QED
  BY <1>3, <1>4, <1>5

\* What every step leaves in place.
LEMMA Advances ==
    ASSUME ShapeInv, PlanOfLog, RoundsBehind, [Next]_vars
    PROVE  /\ PlanOfLog' /\ RoundsBehind'
           /\ \A p \in DOMAIN log : /\ p \in DOMAIN log' /\ log'[p] = log[p]
                                    /\ DealtWith(p) => DealtWith(p)'
           /\ \A p \in DOMAIN log' : p \in DOMAIN log \/ \A q \in DOMAIN log : q < p
           /\ \A a : Has("action_intent", a) => Has("action_intent", a)'
           /\ \A s, t : t \in Tasks /\ Grounded(s, t) /\ s.epoch \in Nat => Grounded(s, t)'
<1>1. LogInv
  BY DEF ShapeInv
<1>2. CASE UNCHANGED board
  <2>1. log' = log /\ view' = view
    BY <1>2 DEF board
  <2>2. /\ \A a : Has("action_intent", a)' <=> Has("action_intent", a)
        /\ \A a : Over(a)' <=> Over(a)
    BY <2>1 DEF Has, ActOf, Act, Over
  <2>3. QED
    BY <2>1, <2>2 DEF PlanOfLog, RoundsBehind, DealtWith, Grounded, Has, Over, ActOf, Act
<1>3. ASSUME NEW e \in Event, Bd!Outcome(e) = "APPENDED", Bd!Commit(e)
      PROVE  /\ \A p \in DOMAIN log : p \in DOMAIN log' /\ log'[p] = log[p]
             /\ \A p \in DOMAIN log' : p \in DOMAIN log \/ \A q \in DOMAIN log : q < p
             /\ \A a : Has("action_intent", a) => Has("action_intent", a)'
             /\ \A p \in DOMAIN log : DealtWith(p) => DealtWith(p)'
             /\ \A s, t : t \in Tasks /\ Grounded(s, t) /\ s.epoch \in Nat => Grounded(s, t)'
  <2>1. /\ \A p \in DOMAIN log : p \in DOMAIN log' /\ log'[p] = log[p]
        /\ \A p \in DOMAIN log' : p \in DOMAIN log \/ \A q \in DOMAIN log : q < p
    BY <1>1, <1>3, Grows
  <2>2. \A a : Has("action_intent", a) => Has("action_intent", a)'
    BY <2>1 DEF Has, ActOf, Act
  <2>3. ASSUME NEW p \in DOMAIN log, DealtWith(p) PROVE DealtWith(p)'
    <3>1. PICK a : a = MyAct(log[p])
      OBVIOUS
    <3>2. log'[p] = log[p]
      BY <2>1
    <3>3. SUFFICES ASSUME log[p].type = "task_assigned", ForMe(log[p])
                   PROVE  Has("action_intent", a)' \/ Over(a)'
      BY <3>1, <3>2 DEF DealtWith, Has, Over, ActOf, Act
    <3>4. Has("action_intent", a) \/ Over(a)
      BY <2>3, <3>1, <3>3 DEF DealtWith
    <3>5. QED
      BY <1>1, <1>3, <2>2, <3>1, <3>3, <3>4, OverStays
  <2>4. ASSUME NEW s, NEW t \in Tasks, Grounded(s, t), s.epoch \in Nat PROVE Grounded(s, t)'
    <3>1. <<t, 1>> \in TaskRevs
      BY RevsAssumption DEF TaskRevs
    <3>2. /\ view[<<t, 1>>].epoch \in Nat /\ view[<<t, 1>>].epoch <= view'[<<t, 1>>].epoch
          /\ view'[<<t, 1>>].epoch \in Nat
      BY <1>1, <1>3, <3>1, EpochGrows, ViewsStep DEF ViewsOK, View
    <3>3. s.epoch <= view'[<<t, 1>>].epoch
      BY <2>4, <3>2 DEF Grounded
    <3>4. PICK a : a = s.intent.act
      OBVIOUS
    <3>5. /\ s.intent # None => a.asg \in Mine
          /\ s.intent # None /\ s.intent.state # "proposed" => Has("action_intent", a)'
      BY <2>2, <2>4, <3>4 DEF Grounded
    <3>6. QED
      BY <3>3, <3>4, <3>5 DEF Grounded, Has, ActOf, Act
  <2>5. QED
    BY <2>1, <2>2, <2>3, <2>4
<1>4. ASSUME NEW e \in Event, Bd!Outcome(e) = "APPENDED", Bd!Commit(e)
      PROVE  PlanOfLog' /\ RoundsBehind'
  BY <1>1, <1>4, PlanStays, RoundsStay
<1>5. QED
  BY <1>2, <1>3, <1>4, BoardSteps

-----------------------------------------------------------------------------
(* The sessions.                                                           *)

\* What the others read of a session does not change with the board at rest.
LEMMA SameBoard ==
    ASSUME UNCHANGED board
    PROVE  /\ log' = log /\ view' = view
           /\ \A ty, a : Has(ty, a)' <=> Has(ty, a)
           /\ \A p : DealtWith(p)' <=> DealtWith(p)
           /\ \A s, t : Grounded(s, t)' <=> Grounded(s, t)
<1>1. log' = log /\ view' = view
  BY DEF board
<1>2. QED
  BY <1>1 DEF Has, DealtWith, Over, Grounded, ActOf, Act

LEMMA ObservedGrounded ==
    ASSUME LogInv, SessionsGrounded, NEW t \in Tasks
    PROVE  Grounded(Loaded(t), t)
<1>1. CASE session[t] # None
  BY <1>1 DEF SessionsGrounded, Loaded
<1>2. CASE session[t] = None
  <2>1. Loaded(t).epoch = 0 /\ Loaded(t).intent = None
    BY <1>2 DEF Loaded, Observed
  <2>2. <<t, 1>> \in TaskRevs
    BY RevsAssumption DEF TaskRevs
  <2>3. view[<<t, 1>>].epoch \in Nat
    BY <2>2 DEF LogInv, ViewsOK, View
  <2>4. QED
    BY <2>1, <2>3 DEF Grounded
<1>3. QED
  BY <1>1, <1>2

\* An assignment that plans nothing new was begun, or is over.
LEMMA QuietDeals ==
    ASSUME OneRevision, LogInv, PlanOfLog, NEW n \in DOMAIN log, NEW s \in Sessions,
           Grounded(s, log[n].task),
           \/ ~Submits(log[n], s)
           \/ log[n].type = "task_assigned" => ReplanPending(ViewOf(log[n]))
    PROVE  DealtWith(n)
<1> DEFINE e == log[n]
<1>1. SUFFICES ASSUME e.type = "task_assigned", ForMe(e)
               PROVE  Has("action_intent", MyAct(e)) \/ Over(MyAct(e))
  BY DEF DealtWith
<1>2. PICK a : a = MyAct(e)
  OBVIOUS
<1>3. PICK tr \in TaskRevs : tr = <<e.task, 1>> /\ tr = <<a.task, a.rev>> /\ tr = <<e.task, e.rev>>
  <2>1. /\ Home(n, a) /\ e.rev \in Revs
    BY <1>1, <1>2, InputShape, EventShape DEF Home
  <2>2. QED
    BY <2>1, HomeShape DEF OneRevision
<1>4. a.epoch = e.epoch /\ e.epoch \in Nat /\ OfType(e, "task_assigned", tr)
  BY <1>1, <1>2, <1>3, HomeShape DEF Home
<1>5. PICK v \in View : v = view[tr] /\ v.epoch \in Nat
  BY DEF LogInv, ViewsOK, View
<1>6. e.epoch < v.epoch \/ (e.epoch = v.epoch /\ v.plan # None)
  BY <1>4, <1>5 DEF LogInv, EpochsBehind, EpochBehind
<1>7. CASE v.epoch > e.epoch \/ v.terminal # None \/ ReplanPending(v)
  BY <1>2, <1>3, <1>4, <1>5, <1>7 DEF Over
<1>8. CASE e.epoch = v.epoch /\ v.plan # None /\ v.terminal = None /\ ~ReplanPending(v)
  <2>1. v.plan = [id |-> e.plan, epoch |-> e.epoch, asgs |-> e.asgs]
    BY <1>4, <1>5, <1>8 DEF PlanOfLog
  <2>2. ViewOf(e) = v
    BY <1>3, <1>5 DEF ViewOf
  <2>3. s.epoch \in Nat /\ s.epoch <= v.epoch
    BY <1>3, <1>5 DEF Grounded, Sessions
  <2>4. v.plan.id = e.plan /\ v.plan.asgs = e.asgs
    BY <2>1
  <2>5. InForce(e, s)
    BY <1>8, <2>2, <2>3, <2>4 DEF InForce
  <2>6. Begun(e, s)
    BY <1>1, <1>8, <2>2, <2>5 DEF Submits
  <2>7. s.intent # None /\ s.intent.state # "proposed" /\ s.intent.act = a
    BY <1>2, <2>6 DEF Begun
  <2>8. Has("action_intent", a)
    BY <2>7 DEF Grounded
  <2>9. QED
    BY <1>2, <2>8
<1>9. QED
  BY <1>4, <1>5, <1>6, <1>7, <1>8

\* An input leaves in the session what the log says.
LEMMA GroundedAfter ==
    ASSUME OneRevision, LogInv, RoundsBehind, Announced, ReportsWhatHappened,
           NEW n, Input(n), NEW s \in Sessions, NEW t, t = log[n].task, Grounded(s, t),
           NEW yes \in BOOLEAN
    PROVE  Grounded(SessionAfter(log[n], s, yes), t)
<1> DEFINE e == log[n]
<1>1. PICK w \in Sessions : w = SessionAfter(e, s, yes)
  BY SessionAfterType
<1> SUFFICES Grounded(w, t)
  BY <1>1
<1>2. /\ n \in DOMAIN log /\ e \in Event /\ e.type \in AgentTypes /\ t \in Tasks
      /\ s.epoch \in Nat /\ w # None
  BY InputShape, AbsentAssumption DEF Input, Sessions
<1>3. PICK v \in View : v = view[<<t, 1>>] /\ v.epoch \in Nat /\ <<t, 1>> \in TaskRevs
  <2>1. <<t, 1>> \in TaskRevs
    BY <1>2, RevsAssumption DEF TaskRevs
  <2>2. QED
    BY <2>1 DEF LogInv, ViewsOK, View
<1>4. /\ s.epoch <= v.epoch
      /\ s.intent # None => s.intent.act.asg \in Mine
      /\ s.intent # None /\ s.intent.state # "proposed" => Has("action_intent", s.intent.act)
  BY <1>3 DEF Grounded
<1>5. ASSUME w.epoch = s.epoch \/ w.epoch <= v.epoch,
             w.intent \in {s.intent, None}
      PROVE  Grounded(w, t)
  BY <1>3, <1>4, <1>5 DEF Grounded
<1>6. ASSUME w.epoch = s.epoch, w.intent # None, s.intent # None, w.intent.act = s.intent.act,
             Has("action_intent", s.intent.act)
      PROVE  Grounded(w, t)
  BY <1>3, <1>4, <1>6 DEF Grounded
<1>7. \A x : /\ [s EXCEPT !.intent.state = x].intent = [s.intent EXCEPT !.state = x]
             /\ [s EXCEPT !.intent.state = x].epoch = s.epoch
             /\ [s EXCEPT !.intent.state = x, !.state = "failed"].intent
                   = [s.intent EXCEPT !.state = x]
             /\ [s EXCEPT !.intent.state = x, !.state = "failed"].epoch = s.epoch
             /\ [s EXCEPT !.state = x].intent = s.intent
             /\ [s EXCEPT !.state = x].epoch = s.epoch
  BY DEF Sessions
<1>8. ASSUME s.intent # None, NEW x \in IntentStates
      PROVE  /\ [s.intent EXCEPT !.state = x] # None
             /\ [s.intent EXCEPT !.state = x].act = s.intent.act
  <2>1. s.intent \in Intents
    BY <1>8 DEF Sessions
  <2>2. [s.intent EXCEPT !.state = x] \in Intents /\ [s.intent EXCEPT !.state = x].act = s.intent.act
    BY <2>1 DEF Intents
  <2>3. QED
    BY <2>2, AbsentAssumption
<1>9. ASSUME s.intent # None, Has("action_intent", s.intent.act), NEW x \in IntentStates,
             \/ w = [s EXCEPT !.intent.state = x]
             \/ w = [s EXCEPT !.intent.state = x, !.state = "failed"]
      PROVE  Grounded(w, t)
  <2>1. w.intent = [s.intent EXCEPT !.state = x] /\ w.epoch = s.epoch
    BY <1>7, <1>9
  <2>2. w.intent # None /\ w.intent.act = s.intent.act
    BY <1>8, <1>9, <2>1
  <2>3. QED
    BY <1>6, <1>9, <2>1, <2>2
<1>10. ASSUME NEW y, w = s \/ w = [s EXCEPT !.state = y]
       PROVE  Grounded(w, t)
  <2>1. w.epoch = s.epoch /\ w.intent = s.intent
    BY <1>7, <1>10
  <2>2. QED
    BY <1>5, <2>1
<1>11. CASE e.type = "bid_round_opened"
  <2>1. w = s \/ w = [s EXCEPT !.epoch = e.epoch, !.state = "standby"]
    BY <1>1, <1>11 DEF SessionAfter, AfterRound
  <2>2. w.intent = s.intent /\ (w.epoch = s.epoch \/ w.epoch = e.epoch)
    BY <2>1 DEF Sessions
  <2>3. OfType(e, "bid_round_opened", <<t, 1>>)
    BY <1>2, <1>11, EventShape DEF OneRevision, OfType
  <2>4. e.epoch <= v.epoch
    BY <1>2, <1>3, <2>3 DEF RoundsBehind
  <2>5. QED
    BY <1>5, <2>2, <2>4
<1>12. CASE e.type = "task_assigned"
  <2>1. w = AfterAssigned(e, s)
    BY <1>1, <1>12 DEF SessionAfter
  <2>2. CASE ~InForce(e, s)
    BY <1>10, <2>1, <2>2 DEF AfterAssigned
  <2>3. CASE InForce(e, s)
    <3>1. e.epoch = v.epoch
      <4>1. e.rev = 1
        BY <1>2, <1>12, EventShape DEF OneRevision
      <4>2. QED
        BY <1>3, <2>3, <4>1 DEF InForce, ViewOf
    <3>2. w.epoch = v.epoch
      BY <2>1, <2>3, <3>1 DEF AfterAssigned
    <3>3. CASE ~ForMe(e) \/ Begun(e, s)
      <4>1. w.intent \in {s.intent, None}
        BY <2>1, <2>3, <3>3 DEF AfterAssigned
      <4>2. QED
        BY <1>3, <1>5, <3>2, <4>1
    <3>4. CASE ForMe(e) /\ ~Begun(e, s)
      <4>1. w.intent = [act |-> MyAct(e), state |-> "proposed"]
        BY <2>1, <2>3, <3>4 DEF AfterAssigned
      <4>2. Home(n, MyAct(e))
        BY <1>2, <1>12, <3>4 DEF Home
      <4>3. MyAct(e).asg \in Mine
        BY <4>2, HomeShape
      <4>4. QED
        BY <1>3, <3>2, <4>1, <4>3 DEF Grounded
    <3>5. QED
      BY <3>3, <3>4
  <2>4. QED
    BY <2>2, <2>3
<1>13. CASE e.type = "action_intent"
  <2>1. w = AfterIntent(e, s)
    BY <1>1, <1>13 DEF SessionAfter
  <2>2. CASE Concerns(e, s)
    <3>1. s.intent # None /\ s.intent.act = ActOf(e)
      BY <2>2 DEF Concerns
    <3>2. Has("action_intent", s.intent.act)
      BY <1>2, <1>13, <3>1 DEF Has
    <3>3. QED
      BY <1>9, <1>10, <2>1, <3>1, <3>2 DEF AfterIntent, IntentStates
  <2>3. CASE ~Concerns(e, s)
    BY <1>10, <2>1, <2>3 DEF AfterIntent
  <2>4. QED
    BY <2>2, <2>3
<1>14. CASE e.type \in {"receipt", "safety_intercept"}
  <2>1. w = IF e.type = "receipt" THEN AfterReceipt(e, s) ELSE AfterIntercept(e, s)
    BY <1>1, <1>14 DEF SessionAfter
  <2>2. CASE Concerns(e, s)
    <3>1. s.intent # None /\ s.intent.act = ActOf(e) /\ e.asg = s.intent.act.asg
      BY <2>2 DEF Concerns, ActOf, Act
    <3>2. e.asg \in Mine
      BY <1>4, <3>1
    <3>3. Has("action_intent", s.intent.act)
      <4>1. CASE e.type = "receipt"
        <5>1. PICK m \in DOMAIN carried : carried[m].act = ActOf(e)
          BY <1>2, <3>2, <4>1 DEF ReportsWhatHappened
        <5>2. QED
          BY <3>1, <5>1 DEF ReportsWhatHappened
      <4>2. CASE e.type = "safety_intercept"
        BY <1>2, <3>1, <3>2, <4>2 DEF Announced
      <4>3. QED
        BY <1>14, <4>1, <4>2
    <3>4. \E x \in IntentStates : \/ w = [s EXCEPT !.intent.state = x]
                                  \/ w = [s EXCEPT !.intent.state = x, !.state = "failed"]
      BY <2>1, <2>2 DEF AfterReceipt, AfterIntercept, IntentStates
    <3>5. QED
      BY <1>9, <3>1, <3>3, <3>4
  <2>3. CASE ~Concerns(e, s)
    BY <1>10, <2>1, <2>3 DEF AfterReceipt, AfterIntercept
  <2>4. QED
    BY <2>2, <2>3
<1>15. CASE e.type = "task_replan"
  <2>1. w = AfterReplan(e, s)
    BY <1>1, <1>15 DEF SessionAfter
  <2>2. e.from \in Nat /\ OfType(e, "task_replan", <<t, 1>>)
    BY <1>2, <1>15, EventShape, ReplanShape DEF OneRevision, OfType
  <2>3. e.from + 1 <= v.epoch
    BY <1>2, <1>3, <2>2 DEF LogInv, EpochsBehind, EpochBehind
  <2>4. CASE e.from = s.epoch
    <3>1. w.intent = None /\ w.epoch = e.from + 1
      BY <2>1, <2>4 DEF AfterReplan, Observed
    <3>2. QED
      BY <1>5, <2>3, <3>1
  <2>5. CASE e.from # s.epoch
    BY <1>10, <2>1, <2>5 DEF AfterReplan
  <2>6. QED
    BY <2>4, <2>5
<1>16. CASE e.type \in {"assignment_completed", "estop"} \cup TerminalTypes
  <2>1. w = s \/ \E y \in {"done", "failed"} : w = [s EXCEPT !.state = y]
    <3>1. CASE e.type = "assignment_completed"
      BY <1>1, <3>1 DEF SessionAfter, AfterCompleted
    <3>2. CASE e.type = "estop"
      BY <1>1, <3>2 DEF SessionAfter, AfterStop
    <3>3. CASE e.type \in TerminalTypes
      BY <1>1, <3>3 DEF SessionAfter, TerminalTypes
    <3>4. QED
      BY <1>16, <3>1, <3>2, <3>3
  <2>2. QED
    BY <1>10, <2>1
<1>17. QED
  BY <1>1, <1>2, <1>11, <1>12, <1>13, <1>14, <1>15, <1>16 DEF AgentTypes

-----------------------------------------------------------------------------
(* The inputs in their turn.                                               *)

\* The positions the host goes by.
LEMMA Positions ==
    ASSUME ShapeInv, SizeInv
    PROVE  /\ \A p \in DOMAIN log : p \in Nat \ {0}
           /\ offset \in Nat /\ offset \in DOMAIN log \cup {0}
           /\ job.src \in Nat /\ job.src \in DOMAIN log \cup {0}
           /\ mailbox \in Seq(Nat) /\ \A i \in DOMAIN mailbox : mailbox[i] \in DOMAIN log
<1>1. LogInv /\ FilesShape /\ JobShape
  BY DEF ShapeInv
<1>2. \A p \in DOMAIN log : p \in Nat \ {0}
  BY <1>1, InputShape
<1>3. job.src \in Nat /\ job.src \in DOMAIN log \cup {0}
  BY <1>1 DEF JobShape, Jobs, Input
<1>4. QED
  BY <1>1, <1>2, <1>3 DEF FilesShape, SizeInv, Input

\* The inbox and the input of the job stay.
LEMMA TurnSame ==
    ASSUME ShapeInv, SizeInv, PlanOfLog, RoundsBehind, InTurn, [Next]_vars,
           UNCHANGED <<offset, mailbox>>, job'.src = job.src, pc = "down" => pc' = "down",
           job.src # 0 => DealtWith(job.src)' \/ Announcing'
    PROVE  InTurn'
<1>1. /\ \A p \in DOMAIN log : DealtWith(p) => DealtWith(p)'
      /\ \A p \in DOMAIN log' : p \in DOMAIN log \/ \A q \in DOMAIN log : q < p
  BY Advances
<1>2. PICK src \in Nat : src = job.src /\ src \in DOMAIN log \cup {0}
  BY Positions
<1>3. /\ \A p \in DOMAIN log : p \in Nat \ {0}
      /\ offset \in Nat /\ offset \in DOMAIN log \cup {0}
      /\ mailbox \in Seq(Nat) /\ \A i \in DOMAIN mailbox : mailbox[i] \in DOMAIN log
  BY Positions
<1>4. \A p \in DOMAIN log' : p \in Nat
  <2>1. LogInv'
    BY ShapeStep DEF ShapeInv
  <2>2. QED
    BY <2>1 DEF LogInv, LogShape
<1>5. ASSUME NEW p \in DOMAIN log', NEW q \in DOMAIN log \cup {0}, p <= q
      PROVE  p \in DOMAIN log /\ q # 0
  BY <1>1, <1>3, <1>4, <1>5
<1>6. ASSUME NEW p \in DOMAIN log', p <= offset PROVE DealtWith(p)'
  BY <1>1, <1>3, <1>5, <1>6 DEF InTurn
<1>7. ASSUME NEW p \in DOMAIN log', p < src PROVE DealtWith(p)'
  <2>1. p \in DOMAIN log
    BY <1>2, <1>4, <1>5, <1>7
  <2>2. DealtWith(p)
    BY <1>2, <1>7, <2>1 DEF InTurn
  <2>3. QED
    BY <1>1, <2>1, <2>2
<1>8. ASSUME pc' # "down", NEW i \in DOMAIN mailbox, NEW p \in DOMAIN log', p < mailbox[i]
      PROVE  DealtWith(p)' \/ p = src \/ \E j \in DOMAIN mailbox : j < i /\ mailbox[j] = p
  <2>1. p \in DOMAIN log
    <3>1. mailbox[i] \in DOMAIN log /\ mailbox[i] \in Nat
      BY <1>3
    <3>2. QED
      BY <1>4, <1>5, <1>8, <3>1
  <2>2. DealtWith(p) \/ p = src \/ \E j \in DOMAIN mailbox : j < i /\ mailbox[j] = p
    BY <1>2, <1>8, <2>1 DEF InTurn
  <2>3. QED
    BY <1>1, <2>1, <2>2
<1>9. QED
  BY <1>2, <1>6, <1>7, <1>8 DEF InTurn

\* The job is dropped, or ended.
LEMMA TurnDrop ==
    ASSUME ShapeInv, SizeInv, InTurn, UNCHANGED <<board, offset>>, job' = NoJob,
           \/ pc' = "down"
           \/ mailbox' = << >>
           \/ mailbox' = mailbox /\ pc # "down" /\ job.src <= offset
    PROVE  InTurn'
<1>1. log' = log /\ \A p : DealtWith(p)' <=> DealtWith(p)
  BY SameBoard
<1>2. /\ \A p \in DOMAIN log : p \in Nat \ {0}
      /\ job.src \in Nat /\ job.src \in DOMAIN log \cup {0} /\ offset \in Nat
  BY Positions
<1>3. job'.src = 0
  BY DEF NoJob
<1>4. ASSUME pc' # "down", NEW i \in DOMAIN mailbox', NEW p \in DOMAIN log, p < mailbox'[i]
      PROVE  DealtWith(p) \/ \E j \in DOMAIN mailbox' : j < i /\ mailbox'[j] = p
  <2>1. mailbox' = mailbox /\ pc # "down" /\ job.src <= offset
    BY <1>4
  <2>2. DealtWith(p) \/ p = job.src \/ \E j \in DOMAIN mailbox : j < i /\ mailbox[j] = p
    BY <1>4, <2>1 DEF InTurn
  <2>3. p = job.src => DealtWith(p)
    BY <1>2, <2>1 DEF InTurn
  <2>4. QED
    BY <2>1, <2>2, <2>3
<1>5. QED
  BY <1>1, <1>2, <1>3, <1>4 DEF InTurn

\* An intent on its way arrives, unless the process ends.
LEMMA TurnPlain ==
    ASSUME ShapeInv, SizeInv, PlanOfLog, RoundsBehind, InTurn, [Next]_vars, Plain,
           ShapeInv', PublishInv'
    PROVE  InTurn'
<1>1. CASE Drops
  BY <1>1, TurnDrop DEF Drops
<1>2. CASE Carries
  <2>1. /\ UNCHANGED <<offset, mailbox>> /\ job'.src = job.src /\ job'.act = job.act
        /\ pc = "down" => pc' = "down"
    BY <1>2 DEF Carries
  <2>2. job.src \in DOMAIN log \cup {0}
    BY Positions
  <2>3. ASSUME job.src # 0, ~Announcing
        PROVE  DealtWith(job.src)'
    <3>1. PICK p \in DOMAIN log : p = job.src /\ p = job'.src
      BY <2>1, <2>2, <2>3
    <3>2. DealtWith(p)
      BY <2>3, <3>1 DEF InTurn
    <3>3. DealtWith(p)'
      <4>1. \A q \in DOMAIN log : DealtWith(q) => DealtWith(q)'
        BY Advances
      <4>2. QED
        BY <3>2, <4>1
    <3>4. QED
      BY <3>1, <3>3 DEF DealtWith
  <2>4. ASSUME job.src # 0, Announcing
        PROVE  DealtWith(job.src)' \/ Announcing'
    <3>1. pc \in {"stage", "append", "unlink"} /\ job.then = "precheck"
      BY <2>4 DEF Announcing
    <3>2. CASE Stage
      BY <1>2, <3>1, <3>2 DEF Stage, Carries, Abort, Leave, Goto, Announcing
    <3>3. CASE AppendOutput
      <4>1. pc' \in {"unlink", "precheck", "down"} /\ (pc' = "unlink" => job' = job)
        BY <3>1, <3>3 DEF AppendOutput, Abort, Leave, Goto
      <4>2. CASE pc' = "precheck"
        <5>1. PICK p, a : p = job'.src /\ a = job'.act
          OBVIOUS
        <5>2. Home(p, a)' /\ Has("action_intent", a)'
          BY <4>2, <5>1 DEF ShapeInv, JobShape, PublishInv, Home, Has, ActOf, Act
        <5>3. DealtWith(p)'
          BY <5>2 DEF DealtWith, Home
        <5>4. QED
          BY <5>1, <5>3 DEF DealtWith
      <4>3. QED
        BY <1>2, <3>1, <4>1, <4>2 DEF Carries, Announcing
    <3>4. CASE ~Stage /\ ~AppendOutput
      <4>1. pc' = pc /\ job' = job
        BY <1>2, <3>1, <3>4
           DEF Next, HostStep, vars, volatile, Replay, Poll, Take, Unlink, PreCheck, Dispatch,
               StoreRaw, PostCheck, ReportFailed, SaveSession, SaveOffset, Resolve, RemoveRaw,
               Cleanup, Settled, Restart, Crash, External, Carries, Abort, Leave, Goto
      <4>2. QED
        BY <2>4, <4>1 DEF Announcing
    <3>5. QED
      BY <3>2, <3>3, <3>4
  <2>5. QED
    BY <2>1, <2>3, <2>4, TurnSame
<1>3. QED
  BY <1>1, <1>2 DEF Plain

LEMMA TurnPoll == ASSUME ShapeInv, SizeInv, InTurn, Poll PROVE InTurn'
<1>1. /\ pc # "down" /\ job = NoJob /\ job.src = 0 /\ UNCHANGED <<board, offset, job>>
      /\ LogInv /\ FilesShape
  BY DEF ShapeInv, JobShape, Poll, Goto, files, NoJob
<1>2. log' = log /\ \A p : DealtWith(p)' <=> DealtWith(p)
  BY <1>1, SameBoard
<1>3. PICK s, c, k : /\ c = Cardinality(Batch) /\ k = Len(mailbox)
                     /\ IsReadOf(s, Batch) /\ Reads(s, c, k)
  BY PollReads
<1>4. /\ c \in Nat /\ k \in Nat /\ DOMAIN s = 1 .. c
      /\ DOMAIN mailbox = 1 .. k /\ DOMAIN mailbox' = 1 .. k + c
      /\ \A i \in 1 .. k : mailbox'[i] = mailbox[i]
      /\ \A i \in 1 .. c : mailbox'[k + i] = s[i]
      /\ \A i \in 1 .. k + c : i \in 1 .. k \/ (i - k \in 1 .. c /\ mailbox'[i] = s[i - k])
      /\ \A i \in 1 .. c : s[i] \in Batch /\ s[i] \in Nat
  BY <1>3 DEF Reads
<1>5. \A p \in DOMAIN log : p \in Nat \ {0}
  BY Positions
<1>6. ASSUME NEW i \in 1 .. k, NEW p \in DOMAIN log, p < mailbox'[i]
      PROVE  DealtWith(p) \/ \E j \in 1 .. k + c : j < i /\ mailbox'[j] = p
  <2>1. DealtWith(p) \/ \E j \in 1 .. k : j < i /\ mailbox[j] = p
    BY <1>1, <1>4, <1>5, <1>6 DEF InTurn
  <2>2. QED
    BY <1>4, <2>1
<1>7. ASSUME NEW i \in 1 .. k + c, i - k \in 1 .. c, mailbox'[i] = s[i - k],
             NEW p \in DOMAIN log, p < mailbox'[i]
      PROVE  DealtWith(p) \/ \E j \in 1 .. k + c : j < i /\ mailbox'[j] = p
  <2>1. CASE p <= offset \/ log[p].type # "task_assigned"
    BY <2>1 DEF InTurn, DealtWith
  <2>2. CASE p > offset /\ log[p].type = "task_assigned"
    <3>1. p \in Unread
      BY <2>2 DEF Unread, AgentTypes
    <3>2. p \in Batch
      BY <1>1, <1>4, <1>7, <3>1, BatchShape
    <3>3. PICK j \in 1 .. c : s[j] = p
      BY <1>3, <1>4, <3>2 DEF IsReadOf, Range
    <3>4. \A x, y \in 1 .. c : x < y => s[x] < s[y]
      BY <1>3, <1>4 DEF IsReadOf
    <3>5. ~(i - k < j) /\ j # i - k
      BY <1>4, <1>5, <1>7, <3>3, <3>4
    <3>6. j < i - k
      BY <1>4, <1>7, <3>5
    <3>7. k + j \in 1 .. k + c /\ k + j < i
      BY <1>4, <3>6
    <3>8. mailbox'[k + j] = p
      BY <1>4, <3>3
    <3>9. QED
      BY <3>7, <3>8
  <2>3. offset \in Nat /\ p \in Nat
    BY <1>5, Positions
  <2>4. QED
    BY <2>1, <2>2, <2>3
<1>8. \A i \in DOMAIN mailbox', p \in DOMAIN log : p < mailbox'[i] =>
         DealtWith(p) \/ \E j \in DOMAIN mailbox' : j < i /\ mailbox'[j] = p
  BY <1>4, <1>6, <1>7
<1>9. QED
  BY <1>1, <1>2, <1>8 DEF InTurn

\* What is taken from the inbox is dealt with, or its action is announced.
LEMMA TurnTake ==
    ASSUME ShapeInv, SizeInv, InTurn, mailbox # << >>, pc = "take",
           UNCHANGED <<board, offset>>, mailbox' = Tail(mailbox),
           NEW n, n = Head(mailbox), job'.src \in {0, n},
           DealtWith(n) \/ (job'.src = n /\ Announcing')
    PROVE  InTurn'
<1>1. job.src = 0 /\ mailbox \in Seq(Nat) /\ \A p \in DOMAIN log : p \in Nat \ {0}
  BY Positions DEF ShapeInv, JobShape, NoJob
<1>2. log' = log /\ \A p : DealtWith(p)' <=> DealtWith(p)
  BY SameBoard
<1>3. /\ Len(mailbox) \in Nat \ {0} /\ DOMAIN mailbox = 1 .. Len(mailbox)
      /\ DOMAIN mailbox' = 1 .. Len(mailbox) - 1
      /\ \A i \in DOMAIN mailbox' : i + 1 \in DOMAIN mailbox /\ mailbox'[i] = mailbox[i + 1]
      /\ \A i \in DOMAIN mailbox : i = 1 \/ (i - 1 \in DOMAIN mailbox' /\ mailbox'[i - 1] = mailbox[i])
      /\ mailbox[1] = n /\ 1 \in DOMAIN mailbox
  BY <1>1
<1>4. \A i \in DOMAIN mailbox, p \in DOMAIN log : p < mailbox[i] =>
         DealtWith(p) \/ \E j \in DOMAIN mailbox : j < i /\ mailbox[j] = p
  BY <1>1 DEF InTurn
<1>5. ASSUME NEW p \in DOMAIN log, p < job'.src
      PROVE  DealtWith(p)
  <2>1. p < n
    BY <1>1, <1>5
  <2>2. ~\E j \in DOMAIN mailbox : j < 1 /\ mailbox[j] = p
    BY <1>3
  <2>3. QED
    BY <1>3, <1>4, <2>1, <2>2
<1>6. ASSUME NEW i \in DOMAIN mailbox', NEW p \in DOMAIN log, p < mailbox'[i]
      PROVE  DealtWith(p) \/ p = job'.src \/ \E j \in DOMAIN mailbox' : j < i /\ mailbox'[j] = p
  <2>1. i + 1 \in DOMAIN mailbox /\ mailbox'[i] = mailbox[i + 1]
    BY <1>3
  <2>2. CASE DealtWith(p)
    BY <2>2
  <2>3. ASSUME NEW j \in DOMAIN mailbox, j < i + 1, mailbox[j] = p
        PROVE  DealtWith(p) \/ p = job'.src \/ \E x \in DOMAIN mailbox' : x < i /\ mailbox'[x] = p
    <3>1. CASE j = 1
      BY <1>3, <2>3, <3>1
    <3>2. CASE j # 1
      <4>1. j - 1 \in DOMAIN mailbox' /\ mailbox'[j - 1] = p
        BY <1>3, <2>3, <3>2
      <4>2. j - 1 < i
        BY <1>3, <2>3
      <4>3. QED
        BY <4>1, <4>2
    <3>3. QED
      BY <3>1, <3>2
  <2>4. QED
    BY <1>4, <1>6, <2>1, <2>2, <2>3
<1>7. job'.src # 0 => DealtWith(job.src)' \/ Announcing'
  BY <1>2 DEF DealtWith
<1>8. QED
  BY <1>2, <1>5, <1>6, <1>7 DEF InTurn

LEMMA TurnOffset == ASSUME ShapeInv, SizeInv, InTurn, SaveOffset PROVE InTurn'
<1>1. /\ pc = "offset" /\ UNCHANGED <<board, mailbox>>
      /\ job.src \in DOMAIN log /\ \A p \in DOMAIN log : p \in Nat \ {0}
  BY Positions DEF ShapeInv, JobShape, SaveOffset
<1>2. CASE job.src < offset
  BY <1>2, TurnDrop DEF SaveOffset, Abort, Leave, Goto
<1>3. CASE ~(job.src < offset)
  <2>1. offset' = job.src /\ pc' = "settle" /\ job' = job
    BY <1>3 DEF SaveOffset, Goto
  <2>2. log' = log /\ \A p : DealtWith(p)' <=> DealtWith(p)
    BY <1>1, SameBoard
  <2>3. \A p \in DOMAIN log : p <= job.src => DealtWith(p)
    <3>1. DealtWith(job.src)
      BY <1>1 DEF InTurn, Announcing
    <3>2. \A p \in DOMAIN log : p <= job.src => p < job.src \/ p = job.src
      BY <1>1
    <3>3. QED
      BY <3>1, <3>2 DEF InTurn
  <2>4. \A i \in DOMAIN mailbox, p \in DOMAIN log : p < mailbox[i] =>
           DealtWith(p) \/ p = job.src \/ \E j \in DOMAIN mailbox : j < i /\ mailbox[j] = p
    BY <1>1 DEF InTurn
  <2>5. \A p \in DOMAIN log : DealtWith(p)' <=> DealtWith(p)
    BY <2>2
  <2>6. DealtWith(job.src)'
    <3>1. PICK p : p = job.src
      OBVIOUS
    <3>2. DealtWith(p)'
      BY <1>1, <2>2, <2>3, <3>1
    <3>3. QED
      BY <2>1, <3>1, <3>2 DEF DealtWith
  <2>7. QED
    BY <1>1, <2>1, <2>2, <2>3, <2>4, <2>5, <2>6 DEF InTurn
<1>4. QED
  BY <1>2, <1>3

-----------------------------------------------------------------------------
(* One step of the host.                                                   *)

LEMMA SessionsStay ==
    ASSUME ShapeInv, PlanOfLog, RoundsBehind, [Next]_vars,
           \A t \in Tasks : session'[t] # None => Grounded(session'[t], t),
           Pending' => Grounded(job'.after, job'.task)
    PROVE  SessionsGrounded'
<1>1. /\ session' \in [Tasks -> Sessions \cup {None}] /\ \A s \in Sessions : s.epoch \in Nat
      /\ Pending' => job'.after \in Sessions /\ job'.task \in Tasks
  <2>1. LogInv' /\ FilesShape' /\ JobShape'
    BY ShapeStep DEF ShapeInv
  <2>2. Pending' => job'.after \in Sessions /\ job'.task = log'[job'.src].task /\ log'[job'.src] \in Event
    BY <2>1 DEF JobShape, Pending, Input, LogInv, LogShape
  <2>3. \A s \in Sessions : s.epoch \in Nat
    BY DEF Sessions
  <2>4. QED
    BY <2>1, <2>2, <2>3, EventShape DEF FilesShape
<1>2. \A s, t : t \in Tasks /\ Grounded(s, t) /\ s.epoch \in Nat => Grounded(s, t)'
  BY Advances
<1>3. ASSUME NEW t \in Tasks, session'[t] # None
      PROVE  Grounded(session[t], t)'
  <2>1. PICK s : s = session'[t]
    OBVIOUS
  <2>2. Grounded(s, t)'
    BY <1>1, <1>2, <1>3, <2>1
  <2>3. QED
    BY <2>1, <2>2 DEF Grounded
<1>4. ASSUME Pending'
      PROVE  Grounded(job.after, job.task)'
  <2>1. PICK s, t : s = job'.after /\ t = job'.task
    OBVIOUS
  <2>2. Grounded(s, t)'
    BY <1>1, <1>2, <1>4, <2>1
  <2>3. QED
    BY <2>1, <2>2 DEF Grounded
<1>5. QED
  BY <1>3, <1>4 DEF SessionsGrounded

LEMMA TakeHandled ==
    ASSUME OneRevision, ShapeInv, SizeInv, ReportInv, HandledInv, Take
    PROVE  /\ InTurn'
           /\ \A t \in Tasks : session'[t] # None => Grounded(session'[t], t)
           /\ Pending' => Grounded(job'.after, job'.task)
<1>1. /\ pc = "take" /\ mailbox # << >> /\ mailbox' = Tail(mailbox)
      /\ UNCHANGED <<board, offset>> /\ InTurn /\ PlanOfLog /\ RoundsBehind
      /\ SessionsGrounded /\ Announced /\ ReportsWhatHappened /\ LogInv
  BY DEF Take, HandledInv, ReportInv, ShapeInv
<1>2. PICK n : /\ n = Head(mailbox)
               /\ TakesUp(n) \/ \E yes \in BOOLEAN : TakesQuietly(n, yes)
  BY TakeShape
<1>3. PICK e, t, s : e = log[n] /\ t = e.task /\ s = Loaded(t)
  OBVIOUS
<1>4. /\ n \in DOMAIN log /\ Input(n) /\ t \in Tasks
      /\ session \in [Tasks -> Sessions \cup {None}]
  <2>1. Head(mailbox) = mailbox[1] /\ 1 \in DOMAIN mailbox
    BY <1>1 DEF ShapeInv, FilesShape
  <2>2. n \in DOMAIN log /\ Input(n)
    BY <1>2, <2>1 DEF ShapeInv, FilesShape, Input
  <2>3. QED
    BY <1>1, <1>3, <2>2, InputShape DEF ShapeInv, FilesShape
<1>5. s \in Sessions /\ Grounded(s, t)
  BY <1>1, <1>3, <1>4, LoadedType, ObservedGrounded
<1>6. \A yes \in BOOLEAN : Grounded(SessionAfter(e, s, yes), t)
  BY <1>1, <1>3, <1>4, <1>5, GroundedAfter
<1>7. CASE TakesUp(n)
  <2>1. /\ Submits(e, s) /\ session' = [session EXCEPT ![t] = AfterAssigned(e, s)]
        /\ job'.src = n /\ job'.act = MyAct(e) /\ job'.then = "precheck" /\ pc' = "stage"
    BY <1>3, <1>7 DEF TakesUp
  <2>2. e.type = "task_assigned" /\ ForMe(e)
    BY <2>1 DEF Submits
  <2>3. Grounded(AfterAssigned(e, s), t)
    <3>1. SessionAfter(e, s, TRUE) = AfterAssigned(e, s)
      BY <2>2 DEF SessionAfter
    <3>2. QED
      BY <1>6, <3>1
  <2>4. \A x \in Tasks : session'[x] # None => Grounded(session'[x], x)
    <3>1. session'[t] = AfterAssigned(e, s) /\ \A x \in Tasks \ {t} : session'[x] = session[x]
      BY <1>4, <2>1
    <3>2. QED
      BY <1>1, <2>3, <3>1 DEF SessionsGrounded
  <2>5. ~Pending'
    <3>1. Home(n, MyAct(e))
      BY <1>3, <1>4, <2>2 DEF Home
    <3>2. MyAct(e) \in Actions
      BY <1>1, <3>1, HomeShape
    <3>3. MyAct(e) # None
      BY <3>2, AbsentAssumption
    <3>4. QED
      BY <2>1, <3>3 DEF Pending
  <2>6. InTurn'
    BY <1>1, <1>2, <2>1, TurnTake DEF Announcing
  <2>7. QED
    BY <2>4, <2>5, <2>6
<1>8. ASSUME NEW yes \in BOOLEAN, TakesQuietly(n, yes)
      PROVE  /\ InTurn' /\ UNCHANGED session
             /\ Pending' => Grounded(job'.after, job'.task)
  <2>1. /\ UNCHANGED session /\ job'.src \in {0, n}
        /\ \/ /\ pc' \in {"poll", "offset"}
              /\ e.type = "task_assigned" => ReplanPending(ViewOf(e))
           \/ ~Submits(e, s) /\ job'.task = t /\ job'.after = SessionAfter(e, s, yes)
    BY <1>3, <1>8 DEF TakesQuietly
  <2>2. DealtWith(n)
    BY <1>1, <1>3, <1>4, <1>5, <2>1, QuietDeals
  <2>3. InTurn'
    BY <1>1, <1>2, <2>1, <2>2, TurnTake
  <2>4. Pending' => Grounded(job'.after, job'.task)
    BY <1>6, <2>1 DEF Pending
  <2>5. QED
    BY <2>1, <2>3, <2>4
<1>9. QED
  BY <1>1, <1>2, <1>7, <1>8 DEF SessionsGrounded

LEMMA SessionsStep ==
    ASSUME OneRevision, ShapeInv, SizeInv, ReportInv, HandledInv, [Next]_vars
    PROVE  SessionsGrounded'
<1>1. PlanOfLog /\ RoundsBehind /\ SessionsGrounded /\ PublishInv
  BY DEF HandledInv, ReportInv
<1>2. SUFFICES /\ \A t \in Tasks : session'[t] # None => Grounded(session'[t], t)
               /\ Pending' => Grounded(job'.after, job'.task)
  BY <1>1, SessionsStay
<1>3. /\ session \in [Tasks -> Sessions \cup {None}]
      /\ \A t \in Tasks : session[t] # None => Grounded(session[t], t)
      /\ Pending => Grounded(job.after, job.task)
  BY <1>1 DEF SessionsGrounded, ShapeInv, FilesShape
<1>4. CASE Take
  BY <1>4, TakeHandled
<1>5. CASE PreCheck
  <2>1. CASE Plain
    <3>1. pc' \in {"dispatch", "stage"}
      BY <1>5 DEF PreCheck, Publish, Goto
    <3>2. Carries
      BY <2>1, <3>1 DEF Plain, Drops
    <3>3. QED
      BY <1>3, <3>2 DEF Carries
  <2>2. ASSUME NEW t, NEW w, Marks(t, w)
        PROVE  /\ \A x \in Tasks : session'[x] # None => Grounded(session'[x], x)
               /\ ~Pending'
    <3>1. /\ pc' = "dispatch" /\ t \in Tasks /\ session[t] \in Sessions
          /\ session[t].intent # None /\ session[t].intent.act = job.act
          /\ w.epoch = session[t].epoch /\ w.intent.act = job.act
          /\ session'[t] = w /\ \A x \in Tasks \ {t} : session'[x] = session[x]
      BY <2>2 DEF Marks, Begins
    <3>2. session[t] # None
      BY <3>1, AbsentAssumption
    <3>3. Has("action_intent", job.act)
      BY <1>1, <1>5 DEF PublishInv, PreCheck
    <3>4. Grounded(w, t)
      BY <1>3, <3>1, <3>2, <3>3 DEF Grounded
    <3>5. QED
      BY <1>3, <3>1, <3>4 DEF Pending
  <2>3. QED
    BY <1>5, <2>1, <2>2, PreCheckShape
<1>6. CASE SaveSession
  <2>1. /\ session' = IF job.act # None THEN session
                      ELSE [session EXCEPT ![job.task] = job.after]
        /\ pc' = "offset" /\ (job.act = None => Pending)
    BY <1>6, SaveSessionShape DEF SaveSession, Goto
  <2>2. \A x \in Tasks : \/ session'[x] = session[x]
                         \/ Pending /\ x = job.task /\ session'[x] = job.after
    BY <1>3, <2>1
  <2>3. QED
    BY <1>3, <2>1, <2>2 DEF Pending
<1>7. CASE Cleanup
  <2>1. /\ job' = NoJob
        /\ session' = session \/ session' = [session EXCEPT ![job.task] = None]
    BY <1>7, CleanupShape
  <2>2. \A x \in Tasks : session'[x] \in {session[x], None}
    BY <1>3, <2>1
  <2>3. ~Pending'
    BY <2>1 DEF Pending, NoJob
  <2>4. QED
    BY <1>3, <2>2, <2>3
<1>8. CASE ~Take /\ ~PreCheck /\ ~SaveSession /\ ~Cleanup
  <2>1. UNCHANGED session
    BY <1>8 DEF Next, HostStep, vars, files, Replay, Poll, Stage, AppendOutput, Unlink, Dispatch,
           StoreRaw, PostCheck, ReportFailed, SaveOffset, Resolve, RemoveRaw, Settled, Restart,
           Crash, External
  <2>2. Pending' => Pending /\ job'.after = job.after /\ job'.task = job.task
    <3>1. CASE Plain
      BY <3>1 DEF Plain, Carries, Drops, Pending, NoJob
    <3>2. CASE Poll \/ Dispatch \/ SaveOffset
      BY <3>2 DEF Poll, Dispatch, SaveOffset, Abort, Leave, Goto, Pending
    <3>3. QED
      BY <1>8, <3>1, <3>2, ShapeStep
  <2>3. QED
    BY <1>3, <2>1, <2>2
<1>9. QED
  BY <1>4, <1>5, <1>6, <1>7, <1>8

LEMMA TurnStep ==
    ASSUME OneRevision, ShapeInv, SizeInv, ReportInv, HandledInv, [Next]_vars
    PROVE  InTurn'
<1>1. /\ PlanOfLog /\ RoundsBehind /\ InTurn /\ ShapeInv' /\ PublishInv'
      /\ Plain \/ Poll \/ Take \/ PreCheck \/ Dispatch \/ SaveSession \/ SaveOffset \/ Cleanup
  BY ShapeStep, ReportStep DEF HandledInv, ReportInv
<1>2. CASE Plain
  BY <1>1, <1>2, TurnPlain
<1>3. CASE (PreCheck /\ ~Plain) \/ Dispatch \/ SaveSession
  <2>1. /\ UNCHANGED <<board, offset, mailbox>> /\ job'.src = job.src
        /\ pc \in {"precheck", "dispatch", "finish"}
    <3>1. CASE PreCheck /\ ~Plain
      <4>1. job' = job
        BY <3>1, PreCheckShape DEF Marks
      <4>2. QED
        BY <3>1, <4>1 DEF PreCheck
    <3>2. CASE Dispatch
      BY <3>2 DEF Dispatch, files
    <3>3. CASE SaveSession
      BY <3>3 DEF SaveSession
    <3>4. QED
      BY <1>3, <3>1, <3>2, <3>3
  <2>2. job.src # 0 => DealtWith(job.src)
    BY <1>1, <2>1 DEF InTurn, Announcing
  <2>3. job.src # 0 => DealtWith(job.src)'
    <3>1. PICK p : p = job.src
      OBVIOUS
    <3>2. DealtWith(p)' <=> DealtWith(p)
      BY <2>1, SameBoard
    <3>3. p # 0 => DealtWith(p)'
      BY <2>2, <3>1, <3>2
    <3>4. QED
      BY <2>1, <3>1, <3>3 DEF DealtWith
  <2>4. QED
    BY <1>1, <2>1, <2>3, TurnSame
<1>4. CASE Cleanup
  <2>1. /\ pc = "settle" /\ job' = NoJob /\ job.src <= offset
        /\ UNCHANGED <<board, offset, mailbox>>
    BY <1>4, CleanupShape
  <2>2. QED
    BY <1>1, <2>1, TurnDrop
<1>5. QED
  BY <1>1, <1>2, <1>3, <1>4, TurnPoll, TakeHandled, TurnOffset

LEMMA HandledStep ==
    ASSUME OneRevision, ShapeInv, SizeInv, ReportInv, HandledInv, [Next]_vars
    PROVE  HandledInv'
<1>1. PlanOfLog' /\ RoundsBehind'
  BY Advances DEF HandledInv
<1>2. QED
  BY <1>1, SessionsStep, TurnStep DEF HandledInv

\* As long as tasks have one revision, no assignment is skipped: one that the
\* consumer offset has passed is announced on the Blackboard as an action, or its
\* plan is being replaced or is no more, whatever is read again after a crash,
\* and although an assignment may be put back behind what was read after it.
THEOREM NoneSkipped == OneRevision => (Spec => []AssignmentHandled)
<1> SUFFICES ASSUME OneRevision PROVE Spec => []AssignmentHandled
  OBVIOUS
<1> DEFINE Inv == ShapeInv /\ SizeInv /\ ReportInv /\ HandledInv
<1>1. Init => Inv
  <2>1. SUFFICES ASSUME Init PROVE Inv
    OBVIOUS
  <2>2. /\ log = << >> /\ offset = 0 /\ session = [t \in Tasks |-> None]
        /\ mailbox = << >> /\ pc = "replay" /\ job = NoJob /\ DOMAIN log = {}
    BY <2>1 DEF Init, Bd!Init
  <2>3. HandledInv
    BY <2>2 DEF HandledInv, PlanOfLog, RoundsBehind, SessionsGrounded, InTurn, Pending, NoJob
  <2>4. SizeInv
    BY <2>1, HostAssumption DEF Init, SizeInv, Labels
  <2>5. QED
    BY <2>1, <2>3, <2>4, InitHolds, ReportHolds DEF HostInv
<1>2. Inv /\ [Next]_vars => Inv'
  BY ShapeStep, SizeStep, ReportStep, HandledStep
<1>3. Inv => AssignmentHandled
  <2>1. SUFFICES ASSUME Inv, NEW n \in 1 .. offset,
                        log[n].type = "task_assigned", ForMe(log[n])
                 PROVE  LET v == ViewOf(log[n])
                        IN  \/ Has("action_intent", MyAct(log[n]))
                            \/ v.epoch > log[n].epoch \/ v.terminal # None \/ ReplanPending(v)
    BY DEF AssignmentHandled
  <2>2. n \in DOMAIN log /\ n <= offset
    <3>1. offset \in DOMAIN log \cup {0} /\ offset \in Nat
      BY <2>1, Positions
    <3>2. DOMAIN log = 1 .. Len(log) /\ Len(log) \in Nat
      BY <2>1 DEF ShapeInv, LogInv, LogShape
    <3>3. QED
      BY <2>1, <3>1, <3>2
  <2>3. PICK a : a = MyAct(log[n]) /\ Home(n, a)
    BY <2>1, <2>2 DEF Home
  <2>4. a.task = log[n].task /\ a.rev = log[n].rev /\ a.epoch = log[n].epoch
    BY <2>1, <2>3, HomeShape DEF ShapeInv
  <2>5. Has("action_intent", a) \/ Over(a)
    BY <2>1, <2>2, <2>3 DEF HandledInv, InTurn, DealtWith
  <2>6. QED
    BY <2>3, <2>4, <2>5 DEF Over, ViewOf
<1> HIDE DEF Inv
<1>4. QED
  BY <1>1, <1>2, <1>3, PTL DEF Spec

-----------------------------------------------------------------------------
(* What was announced is answered.                                         *)

ActionTypes == {"action_intent", "safety_intercept", "receipt"}

\* A name of what this host publishes about its action a.
NameOf(k, a) == \E ty \in ActionTypes, p \in {"", "pre", "post"} : k = ActionKey(ty, p, a)

\* Nobody else announces an action of this host's, or takes a name of its
\* events: they are made of the assignment, which is this robot's.
OwnNames ==
    \A e \in Offered :
        /\ e.type = "action_intent" => e.asg \notin Mine
        /\ \A a \in Actions : a.asg \in Mine => ~NameOf(e.key, a) /\ ~NameOf(e.id, a)

OnLog(e) == \E n \in DOMAIN log : log[n] = e

Answered(a) == Has("receipt", a) \/ Has("safety_intercept", a)

Answers(e, a) ==
    \/ \E p \in {"pre", "post"} : e = Intercepted(a, p)
    \/ \E ok \in BOOLEAN : e = Receipt(a, ok)

\* The action of the job was announced, and its answer is not on the log yet.
Acting ==
    /\ job.act # None
    /\ \/ pc \in {"precheck", "dispatch", "store", "postcheck", "failed"}
       \/ pc \in {"stage", "append"} /\ job.then # "precheck"

LogOwn == \A n \in DOMAIN log : log[n] \in Offered \/ Own(log[n])

EntriesTrue ==
    /\ \A k \in Keys : byKey[k] # 0 => log[byKey[k]].key = k
    /\ \A i \in EventIds : byId[i] # 0 => log[byId[i]].id = i

NamesInv == LogOwn /\ EntriesTrue

\* The gate is about intents alone, so an answer is never refused.
OnlyIntentsRefused == \A k \in refused : k[1] = "action_intent"

JobAnswers == Acting /\ pc \in {"stage", "append"} => Answers(job.out, job.act)

\* Without a crash an intent is not appended from the outbox, where nobody
\* would answer it: it is in there as long as it is being published, and then
\* until its input is consumed.
IntentsStaged ==
    crashes = 0 =>
        /\ \A k \in Keys : outbox[k] # None /\ outbox[k].event.type = "action_intent" =>
              \/ OnLog(outbox[k].event)
              \/ pc \in {"append", "unlink"} /\ job.out.key = k /\ job.then = "precheck"
        /\ pc = "stage" /\ job.then # "precheck" /\ job.out.type = "action_intent" => OnLog(job.out)
        /\ pc = "append" /\ job.then # "precheck" /\ Staged.type = "action_intent" => OnLog(Staged)

AnswerDue ==
    crashes = 0 =>
        \A n \in DOMAIN log : log[n].type = "action_intent" /\ log[n].asg \in Mine =>
            Answered(ActOf(log[n])) \/ (Acting /\ job.act = ActOf(log[n]))

-----------------------------------------------------------------------------
LEMMA SaidNames ==
    ASSUME NEW a \in Actions, NEW e, Says(e, a)
    PROVE  /\ e.type \in ActionTypes /\ e.key = e.id /\ e.key[1] = e.type /\ ActOf(e) = a
           /\ \E p \in {"", "pre", "post"} : e.key = ActionKey(e.type, p, a)
<1>1. CASE e = IntentEvent(a)
  BY <1>1 DEF IntentEvent, ActionEvent, ActionKey, ActOf, Act, Actions, ActionTypes
<1>2. ASSUME NEW p \in {"pre", "post"}, e = Intercepted(a, p)
      PROVE  /\ e.type \in ActionTypes /\ e.key = e.id /\ e.key[1] = e.type /\ ActOf(e) = a
             /\ e.key = ActionKey(e.type, p, a)
  BY <1>2 DEF Intercepted, ActionEvent, ActionKey, ActOf, Act, Actions, ActionTypes
<1>3. ASSUME NEW ok \in BOOLEAN, e = Receipt(a, ok)
      PROVE  /\ e.type \in ActionTypes /\ e.key = e.id /\ e.key[1] = e.type /\ ActOf(e) = a
             /\ e.key = ActionKey(e.type, "", a)
  BY <1>3 DEF Receipt, ActionKey, ActOf, Act, Actions, ActionTypes
<1>4. QED
  BY <1>1, <1>2, <1>3 DEF Says

LEMMA BidNames ==
    ASSUME NEW r, NEW c
    PROVE  /\ Bid(r, c).key[1] = "bid" /\ Bid(r, c).id[1] = "bid" /\ Bid(r, c).type = "bid"
  BY DEF Bid

\* Two events of this host's with the same name are the same, or tell of the
\* same action how it turned out.
LEMMA SameName ==
    ASSUME LogInv, NEW a, NEW h, Home(h, a), NEW e, Says(e, a), NEW f, Own(f),
           f.key = e.key \/ f.id = e.key
    PROVE  f = e \/ (f.type = "receipt" /\ e.type = "receipt" /\ ActOf(f) = a)
<1>1. a \in Actions /\ h \in DOMAIN log
  BY HomeShape DEF Home
<1>2. PICK p \in {"", "pre", "post"} :
         /\ e.key = ActionKey(e.type, p, a) /\ e.key[1] = e.type /\ e.type \in ActionTypes
  BY <1>1, SaidNames
<1>3. ~\E r, c : f = Bid(r, c)
  BY <1>2, BidNames DEF ActionTypes
<1>4. PICK b \in Actions, g \in DOMAIN log : Home(g, b) /\ Says(f, b)
  BY <1>3 DEF Own
<1>5. PICK q \in {"", "pre", "post"} :
         /\ f.key = ActionKey(f.type, q, b) /\ f.key = f.id /\ f.type \in ActionTypes /\ ActOf(f) = b
  BY <1>4, SaidNames
<1>6. ActionKey(f.type, q, b) = ActionKey(e.type, p, a)
  BY <1>2, <1>5
<1>7. b.task = a.task /\ b.rev = a.rev /\ b.epoch = a.epoch /\ f.type = e.type /\ p = q
  BY <1>6 DEF ActionKey
<1>8. /\ OfType(log[h], "task_assigned", <<a.task, a.rev>>) /\ log[h].epoch = a.epoch
      /\ OfType(log[g], "task_assigned", <<a.task, a.rev>>) /\ log[g].epoch = a.epoch
      /\ <<a.task, a.rev>> \in TaskRevs
  BY <1>4, <1>7, HomeShape
<1>9. g = h
  BY <1>1, <1>4, <1>8 DEF LogInv, OnePlanPerEpoch
<1>10. a = b
  BY <1>4, <1>9 DEF Home
<1>11. CASE e.type = "action_intent"
  <2>1. \A x, y : Intercepted(x, y).type = "safety_intercept" /\ Receipt(x, y).type = "receipt"
    BY DEF Intercepted, ActionEvent, Receipt
  <2>2. e = IntentEvent(a) /\ f = IntentEvent(a)
    BY <1>4, <1>7, <1>10, <1>11, <2>1 DEF Says
  <2>3. QED
    BY <2>2
<1>12. CASE e.type = "safety_intercept"
  <2>1. \A x, y : IntentEvent(x).type = "action_intent" /\ Receipt(x, y).type = "receipt"
    BY DEF IntentEvent, ActionEvent, Receipt
  <2>2. PICK x \in {"pre", "post"}, y \in {"pre", "post"} :
           e = Intercepted(a, x) /\ f = Intercepted(a, y)
    BY <1>4, <1>7, <1>10, <1>12, <2>1 DEF Says
  <2>3. x = p /\ y = p
    BY <1>2, <1>5, <1>6, <2>2 DEF Intercepted, ActionEvent, ActionKey
  <2>4. QED
    BY <2>2, <2>3
<1>13. QED
  BY <1>2, <1>5, <1>7, <1>10, <1>11, <1>12 DEF ActionTypes

\* What the Blackboard says to an event of this host's: an intent may be
\* refused by the gate, and a second receipt may contradict the first.
LEMMA OutcomeOfOwn ==
    ASSUME OwnNames, LogInv, NamesInv, NEW a, NEW h, Home(h, a),
           NEW e, IsHostEvent(e), Says(e, a)
    PROVE  \/ Bd!Outcome(e) \in {"APPENDED", "DUPLICATE_SAME"}
           \/ e.type = "action_intent" /\ Bd!Outcome(e) = "REJECTED"
           \/ e.type = "receipt" /\ Has("receipt", a)
<1> DEFINE k == Bd!KeyEntry(e)
           i == byId[e.id]
<1>1. /\ e.id \in EventIds /\ e.key \in Keys /\ e.key # None /\ e.key = e.id
      /\ e.type \in ActionTypes /\ NameOf(e.key, a) /\ a \in Actions /\ a.asg \in Mine
  <2>1. a \in Actions /\ a.asg \in Mine
    BY HomeShape
  <2>2. e.id \in EventIds /\ e.key \in Keys /\ e.key # None
    BY EventShape DEF IsHostEvent
  <2>3. PICK p \in {"", "pre", "post"} :
           e.key = ActionKey(e.type, p, a) /\ e.key = e.id /\ e.type \in ActionTypes
    BY <2>1, SaidNames
  <2>4. QED
    BY <2>1, <2>2, <2>3 DEF NameOf
<1>2. /\ k \in 0 .. Len(log) /\ i \in 0 .. Len(log) /\ Bd!TerminalEntry(e) = 0
      /\ DOMAIN log = 1 .. Len(log) /\ Len(log) \in Nat
  <2>1. Bd!TerminalEntry(e) = 0
    BY <1>1 DEF ActionTypes, Bd!TerminalEntry, Bd!IsTerminal, Bd!TerminalTypes
  <2>2. log \in Seq(Event)
    BY DEF LogInv, LogShape
  <2>3. QED
    BY <1>1, <2>1, <2>2 DEF LogInv, IndexShape, Bd!KeyEntry
<1>3. ASSUME NEW n \in DOMAIN log, log[n].key = e.key \/ log[n].id = e.key
      PROVE  log[n] = e \/ (e.type = "receipt" /\ Has("receipt", a))
  <2>1. log[n] \notin Offered
    BY <1>1, <1>3 DEF OwnNames
  <2>2. Own(log[n])
    BY <2>1 DEF NamesInv, LogOwn
  <2>3. log[n] = e \/ (log[n].type = "receipt" /\ e.type = "receipt" /\ ActOf(log[n]) = a)
    BY <1>3, <2>2, SameName
  <2>4. QED
    BY <2>3 DEF Has
<1>4. CASE k # 0
  <2>1. k \in DOMAIN log /\ log[k].key = e.key
    BY <1>1, <1>2, <1>4 DEF NamesInv, EntriesTrue, Bd!KeyEntry
  <2>2. log[k] = e => Bd!Outcome(e) = "DUPLICATE_SAME"
    BY <1>4 DEF Bd!Outcome
  <2>3. QED
    BY <1>3, <2>1, <2>2
<1>5. CASE k = 0 /\ i # 0
  <2>1. i \in DOMAIN log /\ log[i].id = e.key
    BY <1>1, <1>2, <1>5 DEF NamesInv, EntriesTrue
  <2>2. log[i] = e => Bd!Outcome(e) = "DUPLICATE_SAME"
    BY <1>2, <1>5 DEF Bd!Outcome
  <2>3. QED
    BY <1>3, <2>1, <2>2
<1>6. CASE k = 0 /\ i = 0
  <2>1. Bd!Outcome(e) = IF Bd!GateAccepts(e) THEN "APPENDED" ELSE "REJECTED"
    BY <1>2, <1>6 DEF Bd!Outcome
  <2>2. e.type # "action_intent" => Bd!GateAccepts(e)
    BY <1>1 DEF ActionTypes, Bd!GateAccepts, Bd!Accepts, Bd!GatedTypes, Bd!TerminalTypes
  <2>3. QED
    BY <2>1, <2>2
<1>7. QED
  BY <1>4, <1>5, <1>6

LEMMA NewOnLog ==
    ASSUME ShapeInv, ReportInv, [Next]_vars
    PROVE  /\ Onward
           /\ \/ UNCHANGED board
              \/ \E e \in Event : /\ Bd!Outcome(e) = "APPENDED" /\ Bd!Commit(e)
                                  /\ e \in Offered \/ Own(e)
<1>1. \/ UNCHANGED board
      \/ \E e \in Event : /\ Bd!Outcome(e) = "APPENDED" /\ Bd!Commit(e)
                          /\ e \in Offered \/ Own(e)
  <2>1. CASE AppendOutput
    <3>1. IsHostEvent(Staged) /\ Own(Staged)
      BY <2>1 DEF AppendOutput, ShapeInv, JobShape, ReportInv, PublishInv
    <3>2. UNCHANGED board \/ (Bd!Outcome(Staged) = "APPENDED" /\ Bd!Commit(Staged))
      BY <2>1 DEF AppendOutput
    <3>3. QED
      BY <3>1, <3>2 DEF IsHostEvent
  <2>2. ASSUME NEW e \in Offered, External(e)
        PROVE  Bd!Outcome(e) = "APPENDED" /\ Bd!Commit(e) /\ e \in Event
    BY <2>2, HostAssumption DEF External
  <2>3. QED
    BY <2>1, <2>2, BoardSteps
<1>2. \A n \in DOMAIN log : n \in DOMAIN log' /\ log'[n] = log[n]
  <2>1. CASE UNCHANGED board
    BY <2>1 DEF board
  <2>2. ASSUME NEW e \in Event, Bd!Outcome(e) = "APPENDED", Bd!Commit(e)
        PROVE  \A n \in DOMAIN log : n \in DOMAIN log' /\ log'[n] = log[n]
    BY <2>2, Grows DEF ShapeInv
  <2>3. QED
    BY <1>1, <2>1, <2>2
<1>3. \A n \in DOMAIN carried : n \in DOMAIN carried' /\ carried'[n] = carried[n]
  <2>1. CASE Dispatch
    <3>1. PICK c : carried' = Append(carried, c)
      BY <2>1 DEF Dispatch
    <3>2. carried \in Seq([act : Actions, outcome : Outcomes])
      BY DEF ShapeInv, FilesShape
    <3>3. QED
      BY <3>1, <3>2
  <2>2. CASE ~Dispatch
    <3>1. carried' = carried
      BY <2>2 DEF Next, HostStep, vars, Replay, Poll, Take, Stage, AppendOutput, Unlink, PreCheck,
             StoreRaw, PostCheck, ReportFailed, SaveSession, SaveOffset, Resolve, RemoveRaw,
             Cleanup, Settled, Restart, Crash, External
    <3>2. QED
      BY <3>1
  <2>3. QED
    BY <2>1, <2>2
<1>4. QED
  BY <1>1, <1>2, <1>3 DEF Onward

LEMMA EntriesStep ==
    ASSUME LogInv, EntriesTrue, NEW e \in Event, Bd!Outcome(e) = "APPENDED", Bd!Commit(e)
    PROVE  EntriesTrue'
<1>1. /\ byId' = [byId EXCEPT ![e.id] = Len(log) + 1]
      /\ byKey' = IF e.key = None THEN byKey ELSE [byKey EXCEPT ![e.key] = Len(log) + 1]
  BY DEF Bd!Commit
<1>2. /\ \A n \in DOMAIN log : log'[n] = log[n]
      /\ log'[Len(log) + 1] = e /\ DOMAIN log = 1 .. Len(log) /\ Len(log) \in Nat
  BY Grows
<1>3. byId \in [EventIds -> 0 .. Len(log)] /\ byKey \in [Keys -> 0 .. Len(log)]
  BY DEF LogInv, IndexShape
<1>4. ASSUME NEW k \in Keys, byKey'[k] # 0 PROVE log'[byKey'[k]].key = k
  <2>1. CASE byKey'[k] = byKey[k]
    <3>1. byKey[k] \in DOMAIN log /\ log[byKey[k]].key = k
      BY <1>2, <1>3, <1>4, <2>1 DEF EntriesTrue
    <3>2. QED
      BY <1>2, <2>1, <3>1
  <2>2. CASE byKey'[k] # byKey[k]
    <3>1. k = e.key /\ byKey'[k] = Len(log) + 1
      BY <1>1, <1>3, <2>2
    <3>2. QED
      BY <1>2, <3>1
  <2>3. QED
    BY <2>1, <2>2
<1>5. ASSUME NEW i \in EventIds, byId'[i] # 0 PROVE log'[byId'[i]].id = i
  <2>1. CASE byId'[i] = byId[i]
    <3>1. byId[i] \in DOMAIN log /\ log[byId[i]].id = i
      BY <1>2, <1>3, <1>5, <2>1 DEF EntriesTrue
    <3>2. QED
      BY <1>2, <2>1, <3>1
  <2>2. CASE byId'[i] # byId[i]
    <3>1. i = e.id /\ byId'[i] = Len(log) + 1
      BY <1>1, <1>3, <2>2
    <3>2. QED
      BY <1>2, <3>1
  <2>3. QED
    BY <2>1, <2>2
<1>6. QED
  BY <1>4, <1>5 DEF EntriesTrue

LEMMA NamesStep == ASSUME ShapeInv, ReportInv, NamesInv, [Next]_vars PROVE NamesInv'
<1>1. Onward
  BY NewOnLog
<1>2. ASSUME NEW n \in DOMAIN log', n \in DOMAIN log \/ log'[n] \in Offered \/
                                    \E f : f = log'[n] /\ Own(f)
      PROVE  log'[n] \in Offered \/ \E f : f = log'[n] /\ Own(f)'
  <2>1. CASE n \in DOMAIN log
    <3>1. PICK f : f = log[n]
      OBVIOUS
    <3>2. log'[n] = f /\ (f \in Offered \/ Own(f))
      BY <1>1, <2>1, <3>1 DEF NamesInv, LogOwn, Onward
    <3>3. QED
      BY <1>1, <3>2, Stays
  <2>2. CASE \E f : f = log'[n] /\ Own(f)
    BY <1>1, <2>2, Stays
  <2>3. QED
    BY <1>2, <2>1, <2>2
<1>3. ASSUME NEW e \in Event, Bd!Outcome(e) = "APPENDED", Bd!Commit(e), e \in Offered \/ Own(e)
      PROVE  EntriesTrue' /\ \A n \in DOMAIN log' : n \in DOMAIN log \/ log'[n] = e
  BY <1>3, EntriesStep, Grows DEF ShapeInv, NamesInv
<1>4. CASE UNCHANGED board
  <2>1. EntriesTrue' /\ DOMAIN log' = DOMAIN log
    BY <1>4 DEF board, NamesInv, EntriesTrue
  <2>2. QED
    BY <1>2, <2>1 DEF NamesInv, LogOwn, Own
<1>5. CASE ~UNCHANGED board
  <2>1. PICK e \in Event : Bd!Outcome(e) = "APPENDED" /\ Bd!Commit(e) /\ (e \in Offered \/ Own(e))
    BY <1>5, NewOnLog
  <2>2. EntriesTrue' /\ \A n \in DOMAIN log' : n \in DOMAIN log \/ log'[n] = e
    BY <1>3, <2>1
  <2>3. \A n \in DOMAIN log' : log'[n] \in Offered \/ \E f : f = log'[n] /\ Own(f)'
    BY <1>2, <2>1, <2>2
  <2>4. QED
    BY <2>2, <2>3 DEF NamesInv, LogOwn, Own
<1>6. QED
  BY <1>4, <1>5

LEMMA RefusedStep ==
    ASSUME ShapeInv, ReportInv, OnlyIntentsRefused, [Next]_vars
    PROVE  OnlyIntentsRefused'
<1>1. CASE AppendOutput /\ Bd!Outcome(Staged) = "REJECTED"
  <2>1. PICK e : e = Staged
    OBVIOUS
  <2>2. /\ refused' = refused \cup {job.out.key}
        /\ IsHostEvent(e) /\ Own(e) /\ e.key = job.out.key /\ Bd!Outcome(e) = "REJECTED"
    BY <1>1, <2>1 DEF AppendOutput, ShapeInv, JobShape, ReportInv, PublishInv
  <2>3. ~Bd!GateAccepts(e)
    BY <2>2 DEF Bd!Outcome
  <2>4. e.type = "action_intent"
    BY <2>2, <2>3 DEF IsHostEvent, HostTypes, Bd!GateAccepts, Bd!Accepts, Bd!GatedTypes,
                      Bd!TerminalTypes
  <2>5. e.key[1] = "action_intent"
    <3>1. \A r, c : Bid(r, c).type = "bid"
      BY BidNames
    <3>2. PICK a \in Actions : Says(e, a)
      BY <2>2, <2>4, <3>1 DEF Own
    <3>3. QED
      BY <2>4, <3>2, SaidNames
  <2>6. QED
    BY <2>2, <2>5 DEF OnlyIntentsRefused
<1>2. CASE ~(AppendOutput /\ Bd!Outcome(Staged) = "REJECTED")
  <2>1. refused' \subseteq refused
    BY <1>2 DEF Next, HostStep, vars, files, Replay, Poll, Take, Stage, AppendOutput, Unlink,
           PreCheck, Dispatch, StoreRaw, PostCheck, ReportFailed, SaveSession, SaveOffset, Resolve,
           RemoveRaw, Cleanup, Settled, Restart, Crash, External
  <2>2. QED
    BY <2>1 DEF OnlyIntentsRefused
<1>3. QED
  BY <1>1, <1>2

-----------------------------------------------------------------------------
\* The three parts that tell of the job.
DueInv == crashes \in Nat /\ JobAnswers /\ IntentsStaged /\ AnswerDue

LEMMA StillSaid ==
    ASSUME Onward
    PROVE  /\ \A a : Answered(a) => Answered(a)'
           /\ \A e : OnLog(e) => OnLog(e)'
<1>1. \A ty, a : Has(ty, a) => Has(ty, a)'
  BY Stays
<1>2. \A e : OnLog(e) => OnLog(e)'
  BY DEF OnLog, Onward
<1>3. QED
  BY <1>1, <1>2 DEF Answered

\* What a step has to show: of what is new on the log, and of the action whose
\* answer was due.
LEMMA DueOn ==
    ASSUME AnswerDue, Onward, crashes' = 0 => crashes = 0,
           \A n \in DOMAIN log' : n \in DOMAIN log \/
              \E e : /\ log'[n] = e
                     /\ e.type = "action_intent" /\ e.asg \in Mine =>
                           \E a : a = ActOf(e) /\ (Answered(a)' \/ (Acting' /\ job'.act = a)),
           Acting => \E a : a = job.act /\ (Answered(a)' \/ (Acting' /\ job'.act = a))
    PROVE  AnswerDue'
<1>1. SUFFICES ASSUME crashes' = 0, NEW n \in DOMAIN log',
                      log'[n].type = "action_intent", log'[n].asg \in Mine
               PROVE  (Answered(ActOf(log[n])) \/ (Acting /\ job.act = ActOf(log[n])))'
  BY DEF AnswerDue
<1>2. PICK e, a : e = log'[n] /\ a = ActOf(e)
  OBVIOUS
<1>3. Answered(a)' \/ (Acting' /\ job'.act = a)
  <2>1. CASE n \in DOMAIN log
    <3>1. log[n] = e
      BY <1>2, <2>1 DEF Onward
    <3>2. Answered(a) \/ (Acting /\ job.act = a)
      BY <1>1, <1>2, <2>1, <3>1 DEF AnswerDue
    <3>3. QED
      BY <3>2, StillSaid
  <2>2. CASE n \notin DOMAIN log
    BY <1>1, <1>2, <2>2
  <2>3. QED
    BY <2>1, <2>2
<1>4. QED
  BY <1>2, <1>3 DEF Answered, Has, ActOf, Act

\* An unchanged board, and an outbox with nothing new in it.
LEMMA StagedOn ==
    ASSUME IntentsStaged, Onward, crashes' = 0 => crashes = 0,
           \A k \in Keys : outbox'[k] \in {outbox[k], None},
           pc \in {"append", "unlink"} =>
              \/ job'.out = job.out /\ job'.then = job.then /\ pc' \in {"append", "unlink"}
              \/ \A k \in Keys : k = job.out.key /\ outbox'[k] # None => \E e : e = outbox[k].event /\ OnLog(e)'
              \/ crashes' # 0,
           pc' = "stage" /\ job'.then # "precheck" /\ job'.out.type = "action_intent" =>
              \E e : e = job'.out /\ OnLog(e)',
           pc' = "append" => \E e : /\ e = outbox'[job'.out.key].event
                                    /\ job'.then # "precheck" /\ e.type = "action_intent" => OnLog(e)'
    PROVE  IntentsStaged'
<1>1. SUFFICES ASSUME crashes' = 0 PROVE IntentsStaged'
  BY DEF IntentsStaged
<1>2. ASSUME NEW k \in Keys, outbox'[k] # None, outbox'[k].event.type = "action_intent"
      PROVE  \/ \E e : e = outbox'[k].event /\ OnLog(e)'
             \/ pc' \in {"append", "unlink"} /\ job'.out.key = k /\ job'.then = "precheck"
  <2>1. PICK e : e = outbox[k].event
    OBVIOUS
  <2>2. outbox'[k] = outbox[k] /\ e = outbox'[k].event
    BY <1>2, <2>1
  <2>3. OnLog(e) \/ (pc \in {"append", "unlink"} /\ job.out.key = k /\ job.then = "precheck")
    BY <1>1, <1>2, <2>1, <2>2 DEF IntentsStaged
  <2>4. OnLog(e) => OnLog(e)'
    BY StillSaid
  <2>5. QED
    BY <1>1, <1>2, <2>1, <2>2, <2>3, <2>4
<1>3. QED
  BY <1>1, <1>2 DEF IntentsStaged, OnLog, Staged

\* The steps around an action: before, no answer is due, and after.
LEMMA DueRest ==
    ASSUME ShapeInv, DueInv,
           \/ Restart \/ Crash \/ Poll \/ Unlink \/ SaveSession \/ SaveOffset
           \/ Resolve \/ RemoveRaw \/ Cleanup \/ Settled
    PROVE  DueInv'
<1>1. UNCHANGED <<board, carried>> /\ (crashes' = crashes \/ (Crash /\ crashes' = crashes + 1))
  BY DEF Restart, Crash, Poll, Unlink, SaveSession, SaveOffset, Resolve, RemoveRaw,
         Cleanup, Settled, files
<1>2. crashes' \in Nat /\ (crashes' = 0 => crashes = 0 /\ ~Crash)
  BY <1>1 DEF DueInv, Crash
<1>3. Onward /\ log' = log
  BY <1>1 DEF Onward, board
<1>4. pc' \in {"down", "replay", "poll", "take", "offset", "settle"}
  BY DEF Restart, Crash, Poll, Unlink, SaveSession, SaveOffset, Resolve, RemoveRaw,
         Cleanup, Settled, Abort, Leave, Goto
<1>5. ~Crash => pc \in {"down", "poll", "take", "unlink", "finish", "offset", "settle"}
                /\ (pc = "unlink" => Unlink)
  BY DEF Restart, Poll, Unlink, SaveSession, SaveOffset, Resolve, RemoveRaw, Cleanup, Settled
<1>6. \A k \in Keys : outbox'[k] \in {outbox[k], None}
  <2>1. CASE Unlink \/ Resolve
    BY <2>1, Outboxes DEF Unlink, Resolve
  <2>2. CASE ~Unlink /\ ~Resolve
    BY <2>2 DEF Restart, Crash, Poll, SaveSession, SaveOffset, RemoveRaw, Cleanup, Settled, files
  <2>3. QED
    BY <2>1, <2>2
<1>7. Unlink => \A k \in Keys : k = job.out.key => outbox'[k] = None
  BY Outboxes DEF Unlink
<1>8. JobAnswers'
  BY <1>4 DEF JobAnswers
<1>9. IntentsStaged'
  BY <1>1, <1>2, <1>3, <1>4, <1>5, <1>6, <1>7, StagedOn DEF DueInv
<1>10. AnswerDue'
  <2>1. CASE crashes' # 0
    BY <2>1 DEF AnswerDue
  <2>2. CASE crashes' = 0
    <3>1. ~Acting
      BY <1>2, <1>5, <2>2 DEF Acting
    <3>2. QED
      BY <1>2, <1>3, <3>1, DueOn DEF DueInv
  <2>3. QED
    BY <2>1, <2>2
<1>11. QED
  BY <1>2, <1>8, <1>9, <1>10 DEF DueInv

\* The job goes to the outbox with something that is no answer.
LEMMA DueStages ==
    ASSUME DueInv, UNCHANGED <<board, outbox, carried, crashes>>,
           pc \in {"replay", "take"}, ~Acting', pc' = "stage", NEW e, job'.out = e,
           job'.then # "precheck" /\ e.type = "action_intent" /\ crashes = 0 => OnLog(e)
    PROVE  DueInv'
<1>1. Onward /\ log' = log
  BY DEF Onward, board
<1>2. ~Acting
  BY DEF Acting
<1>3. OnLog(e) => OnLog(e)'
  BY <1>1, StillSaid
<1>4. IntentsStaged'
  <2>1. CASE crashes = 0
    <3>1. job'.then # "precheck" /\ job'.out.type = "action_intent" => \E f : f = job'.out /\ OnLog(f)'
      BY <1>3, <2>1
    <3>2. QED
      BY <1>1, <3>1, StagedOn DEF DueInv
  <2>2. CASE crashes # 0
    BY <2>2 DEF IntentsStaged
  <2>3. QED
    BY <2>1, <2>2
<1>5. AnswerDue'
  BY <1>1, <1>2, DueOn DEF DueInv
<1>6. QED
  BY <1>4, <1>5 DEF DueInv, JobAnswers

\* Nor does the job, on an unchanged board.
LEMMA DueIdle ==
    ASSUME DueInv, UNCHANGED <<board, outbox, carried, crashes>>, pc \in {"replay", "take"},
           pc' \in {"down", "replay", "poll", "take", "finish", "offset", "settle"}
    PROVE  DueInv'
<1>1. Onward /\ log' = log
  BY DEF Onward, board
<1>2. ~Acting /\ ~Acting'
  BY DEF Acting
<1>3. IntentsStaged'
  BY <1>1, StagedOn DEF DueInv
<1>4. AnswerDue'
  BY <1>1, <1>2, DueOn DEF DueInv
<1>5. QED
  BY <1>2, <1>3, <1>4 DEF DueInv, JobAnswers

LEMMA DueReplay == ASSUME DueInv, Replay PROVE DueInv'
<1>1. UNCHANGED <<board, outbox, carried, crashes>> /\ pc = "replay"
  BY DEF Replay, files
<1>2. CASE Replayable = {}
  BY <1>1, <1>2, DueIdle DEF Replay, Leave, Goto
<1>3. CASE Replayable # {}
  <2>1. PICK k \in Replayable : job' = [NoJob EXCEPT !.out = outbox[k].event, !.then = "settle"]
    BY <1>3 DEF Replay
  <2>2. PICK e : e = outbox[k].event
    OBVIOUS
  <2>3. job'.out = e /\ job'.act = None /\ pc' = "stage" /\ k \in Keys /\ outbox[k] # None
    BY <1>3, <2>1, <2>2 DEF Replay, NoJob, Goto, Replayable
  <2>4. e.type = "action_intent" /\ crashes = 0 => OnLog(e)
    BY <1>1, <2>2, <2>3 DEF DueInv, IntentsStaged
  <2>5. ~Acting'
    BY <2>3 DEF Acting
  <2>6. QED
    BY <1>1, <2>3, <2>4, <2>5, DueStages
<1>4. QED
  BY <1>2, <1>3

LEMMA DueTake == ASSUME ShapeInv, DueInv, Take PROVE DueInv'
<1>1. PICK n : n = Head(mailbox) /\ (TakesUp(n) \/ \E yes \in BOOLEAN : TakesQuietly(n, yes))
  BY TakeShape
<1>2. /\ UNCHANGED <<board, outbox, carried, crashes>> /\ pc = "take"
      /\ pc' \in {"offset", "poll", "stage", "finish"}
  BY DEF Take, Handle, Goto, Leave
<1>3. CASE TakesUp(n)
  <2>1. job'.then = "precheck" /\ pc' = "stage"
    BY <1>3 DEF TakesUp
  <2>2. ~Acting'
    BY <2>1 DEF Acting
  <2>3. PICK e : e = job'.out
    OBVIOUS
  <2>4. QED
    BY <1>2, <2>1, <2>2, <2>3, DueStages
<1>4. ASSUME NEW yes \in BOOLEAN, TakesQuietly(n, yes), pc' = "stage"
      PROVE  DueInv'
  <2>1. PICK c : job'.out = Bid(log[n], c)
    BY <1>4 DEF TakesQuietly
  <2>2. PICK e : e = Bid(log[n], c)
    OBVIOUS
  <2>3. e.type = "bid"
    BY <2>2, BidNames
  <2>4. ~Acting'
    BY <1>4 DEF TakesQuietly, Acting
  <2>5. QED
    BY <1>2, <1>4, <2>1, <2>2, <2>3, <2>4, DueStages
<1>5. CASE pc' # "stage"
  BY <1>2, <1>5, DueIdle
<1>6. QED
  BY <1>1, <1>3, <1>4, <1>5

LEMMA AnswerIs ==
    ASSUME NEW a \in Actions, NEW e, Answers(e, a)
    PROVE  e.type \in {"safety_intercept", "receipt"} /\ e.key[1] = e.type /\ ActOf(e) = a
<1>1. ASSUME NEW p \in {"pre", "post"}, e = Intercepted(a, p)
      PROVE  e.type = "safety_intercept" /\ e.key[1] = e.type /\ ActOf(e) = a
  BY <1>1 DEF Intercepted, ActionEvent, ActionKey, ActOf, Act, Actions
<1>2. ASSUME NEW ok \in BOOLEAN, e = Receipt(a, ok)
      PROVE  e.type = "receipt" /\ e.key[1] = e.type /\ ActOf(e) = a
  BY <1>2 DEF Receipt, ActionKey, ActOf, Act, Actions
<1>3. QED
  BY <1>1, <1>2 DEF Answers

\* The executor at work: the answer stays due.
LEMMA DueActs ==
    ASSUME ShapeInv, DueInv, PreCheck \/ Dispatch \/ StoreRaw \/ PostCheck \/ ReportFailed,
           Onward
    PROVE  DueInv'
<1>1. /\ Home(job.src, job.act) /\ job \in Jobs /\ job.act \in Actions /\ job.act # None /\ Acting
      /\ UNCHANGED <<board, outbox, crashes>>
      /\ pc \in {"precheck", "dispatch", "store", "postcheck", "failed"}
  <2>1. pc \in {"precheck", "dispatch", "store", "postcheck", "failed"}
    BY DEF PreCheck, Dispatch, StoreRaw, PostCheck, ReportFailed
  <2>2. job.act # None
    BY <2>1 DEF ShapeInv, JobShape
  <2>3. UNCHANGED <<board, outbox, crashes>>
    BY DEF PreCheck, Dispatch, StoreRaw, PostCheck, ReportFailed, files
  <2>4. QED
    BY <2>1, <2>2, <2>3, ActOfJob DEF Acting
<1>2. /\ job'.act = job.act
      /\ \/ pc' \in {"dispatch", "store", "postcheck"}
         \/ pc' = "stage" /\ job'.then # "precheck" /\ \E e : e = job'.out /\ Answers(e, job.act)
  <2>1. CASE PreCheck
    BY <1>1, <2>1 DEF PreCheck, Publish, Goto, Jobs, Answers
  <2>2. CASE Dispatch \/ StoreRaw
    BY <1>1, <2>2 DEF Dispatch, StoreRaw, Goto, Jobs
  <2>3. CASE PostCheck
    <3>1. Succeeded(job.outcome) \in BOOLEAN
      BY DEF Succeeded
    <3>2. QED
      BY <1>1, <2>3, <3>1 DEF PostCheck, Publish, PublishReceipt, Goto, Jobs, Answers
  <2>4. CASE ReportFailed
    BY <1>1, <2>4 DEF ReportFailed, PublishReceipt, Goto, Jobs, Answers
  <2>5. QED
    BY <2>1, <2>2, <2>3, <2>4
<1>3. Acting'
  BY <1>1, <1>2 DEF Acting
<1>4. PICK a, e : a = job.act /\ e = job'.out
  OBVIOUS
<1>5. pc' = "stage" => Answers(e, a) /\ e.type # "action_intent"
  <2>1. Answers(e, a) => e.type # "action_intent"
    BY <1>1, <1>4, AnswerIs
  <2>2. QED
    BY <1>2, <1>4, <2>1
<1>6. JobAnswers'
  <2>1. pc' \in {"stage", "append"} => Answers(e, a)
    BY <1>2, <1>5
  <2>2. job'.act = a /\ job'.out = e
    BY <1>2, <1>4
  <2>3. QED
    BY <2>1, <2>2 DEF JobAnswers, Answers, Intercepted, ActionEvent, ActionKey, Receipt
<1>7. IntentsStaged'
  BY <1>1, <1>2, <1>4, <1>5, StagedOn DEF DueInv
<1>8. AnswerDue'
  <2>1. Acting' /\ job'.act = a /\ a = job.act
    BY <1>2, <1>3, <1>4
  <2>2. DOMAIN log' = DOMAIN log
    BY <1>1 DEF board
  <2>3. QED
    BY <1>1, <2>1, <2>2, DueOn DEF DueInv
<1>9. QED
  BY <1>1, <1>6, <1>7, <1>8 DEF DueInv

LEMMA DueStage ==
    ASSUME ShapeInv, ReportInv, OnlyIntentsRefused, DueInv, Stage
    PROVE  DueInv'
<1> DEFINE k == job.out.key
<1>1. /\ pc = "stage" /\ k \in Keys /\ UNCHANGED <<board, carried, crashes>>
      /\ outbox = [x \in Keys |-> outbox[x]] /\ log' = log
  BY EventShape, Outboxes DEF Stage, ShapeInv, JobShape, IsHostEvent, board
<1>2. Onward
  BY <1>1 DEF Onward
<1>3. Acting => Answers(job.out, job.act) /\ k[1] # "action_intent"
  <2>1. Acting => Answers(job.out, job.act)
    BY <1>1 DEF DueInv, JobAnswers
  <2>2. Acting => job.act \in Actions
    <3>1. Acting => Home(job.src, job.act) /\ LogInv
      BY DEF Acting, ShapeInv, JobShape
    <3>2. QED
      BY <3>1, HomeShape
  <2>3. QED
    BY <2>1, <2>2, AnswerIs
<1>4. CASE k \in refused
  <2>1. ~Acting /\ pc' = "down" /\ outbox' = outbox
    BY <1>1, <1>3, <1>4 DEF OnlyIntentsRefused, Stage, Abort, Leave, Goto
  <2>2. AnswerDue'
    BY <1>1, <1>2, <2>1, DueOn DEF DueInv
  <2>3. IntentsStaged'
    BY <1>1, <1>2, <2>1, StagedOn DEF DueInv
  <2>4. QED
    BY <1>1, <2>1, <2>2, <2>3 DEF DueInv, JobAnswers
<1>5. CASE k \notin refused
  <2>1. /\ pc' = "append" /\ job' = job
        /\ outbox' = IF outbox[k] # None THEN outbox
                     ELSE [outbox EXCEPT ![k] = [event |-> job.out, src |-> job.src]]
    BY <1>5 DEF Stage, Goto
  <2>2. Acting' <=> Acting
    BY <1>1, <2>1 DEF Acting
  <2>3. JobAnswers'
    BY <1>3, <2>1, <2>2 DEF JobAnswers, Answers, Intercepted, ActionEvent, ActionKey, Receipt
  <2>4. AnswerDue'
    <3>1. PICK a : a = job.act
      OBVIOUS
    <3>2. Acting => Acting' /\ job'.act = a
      BY <2>1, <2>2, <3>1
    <3>3. QED
      BY <1>1, <1>2, <3>1, <3>2, DueOn DEF DueInv
  <2>5. IntentsStaged'
    <3>1. SUFFICES ASSUME crashes = 0, NEW x \in Keys, outbox'[x] # None \/ x = k,
                          outbox'[x].event.type = "action_intent"
                   PROVE  \/ OnLog(outbox[x].event)'
                          \/ job'.out.key = x /\ job'.then = "precheck"
      BY <1>1, <2>1 DEF IntentsStaged, Staged
    <3>2. PICK e : e = outbox'[x].event
      OBVIOUS
    <3>3. OnLog(e) \/ (job.out.key = x /\ job.then = "precheck")
      <4>1. CASE outbox'[x] = outbox[x] /\ outbox[x] # None
        BY <1>1, <3>1, <3>2, <4>1 DEF DueInv, IntentsStaged
      <4>2. CASE ~(outbox'[x] = outbox[x] /\ outbox[x] # None)
        <5>1. x = k /\ e = job.out
          BY <1>1, <2>1, <3>1, <3>2, <4>2
        <5>2. job.then # "precheck" => OnLog(job.out)
          BY <1>1, <3>1, <3>2, <5>1 DEF DueInv, IntentsStaged
        <5>3. QED
          BY <5>1, <5>2
      <4>3. QED
        BY <4>1, <4>2
    <3>4. OnLog(e)' \/ (job'.out.key = x /\ job'.then = "precheck")
      BY <1>2, <2>1, <3>3, StillSaid
    <3>5. QED
      BY <3>2, <3>4 DEF OnLog
  <2>6. QED
    BY <1>1, <2>3, <2>4, <2>5 DEF DueInv
<1>6. QED
  BY <1>4, <1>5

LEMMA DueExternal ==
    ASSUME ShapeInv, DueInv, OwnNames, NEW e \in Offered, External(e)
    PROVE  DueInv'
<1>1. /\ e \in Event /\ Bd!Outcome(e) = "APPENDED" /\ Bd!Commit(e) /\ LogInv
      /\ UNCHANGED <<outbox, job, pc, carried, crashes>>
  BY HostAssumption DEF External, files, volatile, ShapeInv
<1>2. Onward
  BY <1>1, Grows DEF Onward
<1>3. \A m \in DOMAIN log' : m \in DOMAIN log \/ log'[m] = e
  BY <1>1, Grows
<1>4. e.type = "action_intent" => e.asg \notin Mine
  BY DEF OwnNames
<1>5. Acting' <=> Acting
  BY <1>1 DEF Acting
<1>6. JobAnswers'
  BY <1>1, <1>5 DEF DueInv, JobAnswers, Answers, Intercepted, ActionEvent, ActionKey, Receipt
<1>7. AnswerDue'
  BY <1>1, <1>2, <1>3, <1>4, <1>5, DueOn DEF DueInv
<1>8. IntentsStaged'
  <2>1. PICK f : f = job'.out
    OBVIOUS
  <2>2. crashes = 0 /\ pc = "stage" /\ job.then # "precheck" /\ f.type = "action_intent" => OnLog(f)'
    <3>1. f = job.out
      BY <1>1, <2>1
    <3>2. QED
      BY <1>2, <3>1, StillSaid DEF DueInv, IntentsStaged
  <2>3. CASE crashes = 0
    <3>1. pc' = "stage" /\ job'.then # "precheck" /\ job'.out.type = "action_intent" =>
             \E g : g = job'.out /\ OnLog(g)'
      BY <1>1, <2>1, <2>2, <2>3
    <3>2. PICK g : g = outbox'[job'.out.key].event
      OBVIOUS
    <3>3. g = Staged
      BY <1>1, <3>2 DEF Staged
    <3>4. pc = "append" /\ job.then # "precheck" /\ g.type = "action_intent" => OnLog(g)'
      BY <1>2, <2>3, <3>3, StillSaid DEF DueInv, IntentsStaged
    <3>5. QED
      BY <1>1, <1>2, <3>1, <3>2, <3>4, StagedOn DEF DueInv
  <2>4. QED
    BY <1>1, <2>3 DEF IntentsStaged
<1>9. QED
  BY <1>1, <1>6, <1>7, <1>8 DEF DueInv

\* What is appended to answer an action is an answer to it, whichever file had
\* its key.
LEMMA AnswerAppends ==
    ASSUME OwnNames, ShapeInv, ReportInv, NamesInv, DueInv, AppendOutput, Acting,
           NEW a, a = job.act, NEW e, e = Staged
    PROVE  /\ e.type \in {"safety_intercept", "receipt"} /\ ActOf(e) = a
           /\ \/ Bd!Outcome(e) \in {"APPENDED", "DUPLICATE_SAME"}
              \/ e.type = "receipt" /\ Has("receipt", a) /\ Bd!Outcome(e) # "REJECTED"
<1>1. /\ pc = "append" /\ IsHostEvent(e) /\ LogInv /\ Own(e) /\ e.key = job.out.key
      /\ Home(job.src, a) /\ a # None
  BY DEF AppendOutput, ShapeInv, JobShape, ReportInv, PublishInv, Acting
<1>2. Answers(job.out, a) /\ Own(job.out) /\ a \in Actions
  BY <1>1, HomeShape DEF DueInv, JobAnswers, ReportInv, PublishInv
<1>3. PICK o : o = job.out
  OBVIOUS
<1>4. e.key[1] \in {"safety_intercept", "receipt"}
  BY <1>1, <1>2, <1>3, AnswerIs
<1>5. ~\E r, c : e = Bid(r, c)
  BY <1>4, BidNames
<1>6. PICK b \in Actions, g \in DOMAIN log : Home(g, b) /\ Says(e, b)
  BY <1>1, <1>5 DEF Own
<1>7. e.type = e.key[1] /\ ActOf(e) = b
  BY <1>6, SaidNames
<1>8. o = e \/ (o.type = "receipt" /\ e.type = "receipt" /\ ActOf(o) = b)
  BY <1>1, <1>2, <1>3, <1>6, SameName
<1>9. ActOf(o) = a
  BY <1>2, <1>3, AnswerIs
<1>10. b = a
  BY <1>7, <1>8, <1>9
<1>11. \/ Bd!Outcome(e) \in {"APPENDED", "DUPLICATE_SAME"}
       \/ e.type = "receipt" /\ Has("receipt", a)
  BY <1>1, <1>4, <1>6, <1>7, <1>10, OutcomeOfOwn
<1>12. Bd!Outcome(e) # "REJECTED"
  <2>1. Bd!GateAccepts(e)
    BY <1>4, <1>7 DEF Bd!GateAccepts, Bd!Accepts, Bd!GatedTypes, Bd!TerminalTypes
  <2>2. QED
    BY <2>1 DEF Bd!Outcome
<1>13. QED
  BY <1>4, <1>7, <1>10, <1>11, <1>12

LEMMA DueAppend ==
    ASSUME OwnNames, ShapeInv, ReportInv, NamesInv, DueInv, AppendOutput, Onward
    PROVE  DueInv'
<1> DEFINE o == Bd!Outcome(Staged)
<1>1. PICK e, a : e = Staged /\ a = job.act
  OBVIOUS
<1>2. /\ pc = "append" /\ IsHostEvent(e) /\ GoesOn /\ LogInv /\ job \in Jobs
      /\ UNCHANGED <<outbox, carried, crashes>>
      /\ Own(e) /\ e.key = job.out.key /\ e = outbox[job.out.key].event
      /\ job.then = "precheck" => /\ job.out = IntentEvent(a) /\ a # None
                                  /\ Home(job.src, a)
      /\ job.out.key \in Keys
  <2>1. IsHostEvent(job.out)
    BY DEF AppendOutput, ShapeInv, JobShape
  <2>2. job.out.key \in Keys
    BY <2>1, EventShape DEF IsHostEvent
  <2>3. QED
    BY <1>1, <2>2 DEF AppendOutput, ShapeInv, JobShape, ReportInv, PublishInv, GoesOn, Staged
<1>3. crashes = 0 => crashes' = 0
  BY <1>2
<1>4. CASE o \in {"APPENDED", "DUPLICATE_SAME"}
  <2>1. /\ job' = [job EXCEPT !.keys = Append(@, job.out.key)] /\ pc' = job.then
        /\ o = "APPENDED" => Bd!Commit(e) /\ Bd!Outcome(e) = "APPENDED"
        /\ o # "APPENDED" => UNCHANGED board /\ Bd!Outcome(e) = "DUPLICATE_SAME"
    BY <1>1, <1>4 DEF AppendOutput, Goto
  <2>2. job'.act = a /\ job'.out = job.out /\ job'.then = job.then
    BY <1>1, <1>2, <2>1 DEF Jobs
  <2>3. /\ \E n \in DOMAIN log' : log'[n] = e
        /\ \A m \in DOMAIN log' : m \in DOMAIN log \/ log'[m] = e
    <3>1. CASE o = "APPENDED"
      BY <1>2, <2>1, <3>1, Grows DEF IsHostEvent
    <3>2. CASE o # "APPENDED"
      BY <1>2, <2>1, <3>2, DuplicateIsThere DEF board
    <3>3. QED
      BY <3>1, <3>2
  <2>4. pc' \in {"precheck", "failed", "finish", "settle"}
    BY <1>2, <2>1 DEF GoesOn
  <2>5. OnLog(e)'
    BY <2>3 DEF OnLog
  <2>6. JobAnswers'
    BY <2>4 DEF JobAnswers
  <2>7. IntentsStaged'
    <3>1. \A k \in Keys : k = job.out.key /\ outbox'[k] # None =>
             \E f : f = outbox[k].event /\ OnLog(f)'
      BY <1>2, <2>5
    <3>2. QED
      BY <1>2, <2>4, <3>1, StagedOn DEF DueInv
  <2>8. Acting => Answered(a)'
    <3>1. ASSUME Acting PROVE Has("receipt", a)' \/ Has("safety_intercept", a)'
      <4>1. e.type \in {"safety_intercept", "receipt"} /\ ActOf(e) = a
        BY <1>1, <3>1, AnswerAppends
      <4>2. QED
        BY <2>3, <4>1 DEF Has, ActOf, Act
    <3>2. QED
      BY <3>1 DEF Answered
  <2>9. ASSUME crashes = 0, e.type = "action_intent", e.asg \in Mine
        PROVE  \E b : b = ActOf(e) /\ (Answered(b)' \/ (Acting' /\ job'.act = b))
    <3>1. CASE job.then = "precheck"
      <4>1. e = IntentEvent(a) /\ a \in Actions
        BY <1>2, <3>1, OneIntent, HomeShape
      <4>2. ActOf(e) = a
        BY <4>1, WhatIsSaid
      <4>3. Acting'
        BY <1>2, <2>1, <2>2, <3>1 DEF Acting
      <4>4. QED
        BY <2>2, <4>2, <4>3
    <3>2. CASE job.then # "precheck"
      <4>1. OnLog(e)
        BY <1>1, <1>2, <2>9, <3>2 DEF DueInv, IntentsStaged
      <4>2. PICK b : b = ActOf(e)
        OBVIOUS
      <4>3. Answered(b) \/ (Acting /\ a = b)
        BY <1>1, <2>9, <4>1, <4>2 DEF OnLog, DueInv, AnswerDue
      <4>4. Answered(b)'
        BY <2>8, <4>3, StillSaid
      <4>5. QED
        BY <4>2, <4>4
    <3>3. QED
      BY <3>1, <3>2
  <2>10. AnswerDue'
    <3>1. CASE crashes = 0
      <4>1. \A n \in DOMAIN log' : n \in DOMAIN log \/
               \E f : /\ log'[n] = f
                      /\ f.type = "action_intent" /\ f.asg \in Mine =>
                            \E b : b = ActOf(f) /\ (Answered(b)' \/ (Acting' /\ job'.act = b))
        BY <2>3, <2>9, <3>1
      <4>2. QED
        BY <1>1, <1>2, <2>8, <4>1, DueOn DEF DueInv
    <3>2. CASE crashes # 0
      BY <1>2, <3>2 DEF AnswerDue
    <3>3. QED
      BY <3>1, <3>2
  <2>11. QED
    BY <1>2, <2>6, <2>7, <2>10 DEF DueInv
<1>5. CASE o \notin {"APPENDED", "DUPLICATE_SAME"}
  <2>1. /\ UNCHANGED board
        /\ \/ o = "REJECTED" /\ pc' = "unlink" /\ job' = job
           \/ o # "REJECTED" /\ pc' = "down"
    BY <1>5 DEF AppendOutput, Goto, Abort, Leave
  <2>2. Acting => Answered(a) /\ o # "REJECTED"
    BY <1>1, <1>5, AnswerAppends DEF Answered
  <2>3. AnswerDue'
    <3>1. DOMAIN log' = DOMAIN log
      BY <2>1 DEF board
    <3>2. Acting => Answered(a)'
      BY <2>2, StillSaid
    <3>3. QED
      BY <1>1, <1>2, <3>1, <3>2, DueOn DEF DueInv
  <2>4. IntentsStaged'
    <3>1. CASE o = "REJECTED"
      BY <1>2, <2>1, <3>1, StagedOn DEF DueInv
    <3>2. CASE o # "REJECTED"
      <4>1. ASSUME crashes = 0, e.type = "action_intent" PROVE OnLog(e)
        <5>1. CASE job.then = "precheck"
          <6>1. e = IntentEvent(a) /\ a \in Actions
            BY <1>2, <5>1, OneIntent, HomeShape
          <6>2. Says(e, a) /\ e.type # "receipt"
            BY <4>1, <6>1 DEF Says
          <6>3. FALSE
            BY <1>1, <1>2, <1>5, <3>2, <5>1, <6>2, OutcomeOfOwn
          <6>4. QED
            BY <6>3
        <5>2. CASE job.then # "precheck"
          BY <1>1, <1>2, <4>1, <5>2 DEF DueInv, IntentsStaged
        <5>3. QED
          BY <5>1, <5>2
      <4>2. SUFFICES ASSUME crashes = 0, NEW k \in Keys, outbox'[k] # None,
                            outbox'[k].event.type = "action_intent"
                     PROVE  OnLog(outbox[k].event)'
        BY <1>2, <2>1, <3>2 DEF IntentsStaged
      <4>3. PICK f : f = outbox[k].event
        OBVIOUS
      <4>4. OnLog(f)
        BY <1>2, <4>1, <4>2, <4>3 DEF DueInv, IntentsStaged
      <4>5. OnLog(f)'
        BY <4>4, StillSaid
      <4>6. QED
        BY <1>2, <4>3, <4>5 DEF OnLog
    <3>3. QED
      BY <3>1, <3>2
  <2>5. JobAnswers'
    BY <2>1 DEF JobAnswers
  <2>6. QED
    BY <1>2, <2>3, <2>4, <2>5 DEF DueInv
<1>6. QED
  BY <1>4, <1>5

LEMMA DueStep ==
    ASSUME OwnNames, ShapeInv, ReportInv, NamesInv, OnlyIntentsRefused, DueInv, [Next]_vars
    PROVE  DueInv'
<1>1. Onward
  BY NewOnLog
<1>2. CASE UNCHANGED vars
  <2>1. UNCHANGED <<board, outbox, job, pc, crashes>>
    BY <1>2 DEF vars, files, volatile
  <2>2. Acting' <=> Acting
    BY <2>1 DEF Acting
  <2>3. QED
    BY <2>1, <2>2 DEF DueInv, JobAnswers, Answers, Intercepted, ActionEvent, ActionKey, Receipt,
                      IntentsStaged, OnLog, Staged, AnswerDue, Answered, Has, ActOf, Act, board
<1>3. CASE HostStep
  BY <1>1, <1>3, DueRest, DueReplay, DueTake, DueStage, DueAppend, DueActs DEF HostStep
<1>4. ASSUME NEW e \in Offered, External(e) PROVE DueInv'
  BY <1>4, DueExternal
<1>5. QED
  BY <1>2, <1>3, <1>4, DueRest DEF Next

\* As long as nobody else announces this robot's actions or takes the names of
\* its events, an announced action is answered by a receipt or an intercept
\* before the host goes on or ends, unless it crashes: the gate never refuses an
\* answer, an answer that is already there is the same or tells of the same
\* action, and no intent reaches the log but from the job that answers it.
THEOREM IntentsAreAnswered == OwnNames => (Spec => []IntentAnswered)
<1> SUFFICES ASSUME OwnNames PROVE Spec => []IntentAnswered
  OBVIOUS
<1> DEFINE Inv == ShapeInv /\ ReportInv /\ NamesInv /\ OnlyIntentsRefused /\ DueInv
<1>1. Init => Inv
  <2>1. SUFFICES ASSUME Init PROVE Inv
    OBVIOUS
  <2>2. ShapeInv /\ ReportInv
    BY <2>1, InitHolds, ReportHolds DEF HostInv
  <2>3. /\ DOMAIN log = {} /\ byId = [i \in EventIds |-> 0] /\ byKey = [k \in Keys |-> 0]
        /\ outbox = [k \in Keys |-> None] /\ refused = {} /\ pc = "replay" /\ crashes = 0
    BY <2>1 DEF Init, Bd!Init
  <2>4. NamesInv /\ OnlyIntentsRefused
    BY <2>3 DEF NamesInv, LogOwn, EntriesTrue, OnlyIntentsRefused
  <2>5. DueInv
    BY <2>3 DEF DueInv, JobAnswers, IntentsStaged, AnswerDue
  <2>6. QED
    BY <2>2, <2>4, <2>5
<1>2. Inv /\ [Next]_vars => Inv'
  BY ShapeStep, ReportStep, NamesStep, RefusedStep, DueStep
<1>3. Inv => IntentAnswered
  BY DEF DueInv, AnswerDue, Answered, Acting, IntentAnswered
<1> HIDE DEF Inv
<1>4. QED
  BY <1>1, <1>2, <1>3, PTL DEF Spec
=============================================================================
