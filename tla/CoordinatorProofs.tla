-------------------------- MODULE CoordinatorProofs --------------------------
(***************************************************************************)
(* What the Coordinator's outbox is for, for any number of tasks, events   *)
(* and crashes: nothing staged is lost, and a staged event meets other     *)
(* content under its key only if it is a plan built again after a crash.   *)
(*                                                                         *)
(* The argument for the keys, output by output: a terminal is settled as a *)
(* terminal conflict; a round or a replan is built from a view that no     *)
(* event of that key can have produced; and the completion of a receipt    *)
(* that is read again still has its file.  A plan is built when its round  *)
(* is closed, and without a crash a round is listed once, when its opening *)
(* is read: its plan is built once.  After a crash the list is rebuilt     *)
(* from the log while openings are still unread, and a plan may be built   *)
(* a second time under its key.                                            *)
(*                                                                         *)
(* For the inputs: an event of the log tells its view something that no    *)
(* later event undoes (Lasting), so an input has had its effect once what  *)
(* its handler publishes is on the Blackboard, and every output that is    *)
(* published or found settled brings the input in hand one output closer   *)
(* to that (TookBy).  A stop reaches every task posted before it because   *)
(* the handlers, and the recovery after a crash, keep all of them that     *)
(* run on the list of known tasks.                                         *)
(*                                                                         *)
(* For the rounds: after the opening of a round that is still open the log *)
(* has nothing that sets or clears the round of its task, so neither       *)
(* reading on nor reading again loses it; and the one that was closed is   *)
(* dropped only when its assignment, or the end of the task, is published. *)
(*                                                                         *)
(* For the clues, as long as nothing crashes: what is pending is unread,   *)
(* or answered by an output that is still to be published, or left to an   *)
(* action in flight, whose report is unread, in hand or to be followed up. *)
(***************************************************************************)
EXTENDS Coordinator, TaskViewProofs, SequenceTheorems

-----------------------------------------------------------------------------
(* Names.                                                                  *)

ClueIds == {e.id : e \in {x \in Offered : x.type = "clue"}}

\* Every key, event id and plan id the code may build exists.
NamesAvailable ==
    /\ \A tr \in TaskRevs :
          /\ TerminalKey(tr) \in Keys
          /\ \A s \in {"done", "failed"}, c \in Nat, n \in Nat :
                <<TerminalKey(tr), <<s, c, n>>>> \in EventIds
    /\ \A t \in Tasks, r \in Revs, ep \in Nat :
          /\ PlanOf(<<t, r>>, ep) \in PlanIds
          /\ <<"bid-round", t, r, ep, 1>> \in Keys
          /\ <<"assignment", t, r, ep>> \in Keys
          /\ \A c \in Nat :
                /\ <<<<"bid-round", t, r, ep, 1>>, c>> \in EventIds
                /\ <<<<"assignment", t, r, ep>>, c>> \in EventIds
          /\ \A a \in AssignmentIds :
                \A k \in {"assignment-completed", "action_intent", "receipt",
                          "safety_intercept"} :
                   /\ <<k, t, r, ep, a>> \in Keys
                   /\ \A c \in Nat : <<<<k, t, r, ep, a>>, c>> \in EventIds
          /\ \A c \in ClueIds :
                /\ <<"replan", t, r, c>> \in Keys
                /\ \A P \in SUBSET ClueIds :
                      <<<<"replan", t, r, c>>, <<ep, P>>>> \in EventIds

OutputTypes ==
    {"bid_round_opened", "task_assigned", "assignment_completed", "task_replan"}
    \cup TerminalTypes

RobotTypes == {"action_intent", "receipt", "safety_intercept"}

\* The key of an event of the Coordinator or of a robot, and so its id.
Keyed(e) ==
    /\ e.type = "bid_round_opened" =>
          e.key = <<"bid-round", e.task, e.rev, e.epoch, 1>>
    /\ e.type = "task_assigned" => e.key = <<"assignment", e.task, e.rev, e.epoch>>
    /\ e.type = "assignment_completed" =>
          e.key = <<"assignment-completed", e.task, e.rev, e.epoch, e.asg>>
    /\ e.type = "task_replan" => e.key = <<"replan", e.task, e.rev, e.cause>>
    /\ e.type \in TerminalTypes => e.key = <<"task-terminal", e.task, e.rev>>
    /\ e.type \in RobotTypes => e.key = <<e.type, e.task, e.rev, e.epoch, e.asg>>

Named(e) ==
    /\ e \in Event
    /\ e.type \in OutputTypes \cup RobotTypes
    /\ Keyed(e)
    /\ e.key \in Keys /\ e.id[1] = e.key

Output(e) == Named(e) /\ e.type \in OutputTypes

\* Two events with one key are of one kind, and agree on what the key names.
LEMMA SameKey ==
    ASSUME NEW e, NEW f, Named(e), Named(f), e.key = f.key
    PROVE  /\ e.task = f.task /\ e.rev = f.rev
           /\ e.type \in TerminalTypes <=> f.type \in TerminalTypes
           /\ e.type \notin TerminalTypes => e.type = f.type
           /\ e.type \in {"bid_round_opened", "task_assigned", "assignment_completed"}
                 \cup RobotTypes => e.epoch = f.epoch
           /\ e.type \in {"assignment_completed"} \cup RobotTypes => e.asg = f.asg
           /\ e.type = "task_replan" => e.cause = f.cause
<1>1. e.key[1] = f.key[1]
  OBVIOUS
<1>2. CASE e.type = "bid_round_opened"
  BY <1>1, <1>2 DEF Named, Keyed, OutputTypes, RobotTypes, TerminalTypes
<1>3. CASE e.type = "task_assigned"
  BY <1>1, <1>3 DEF Named, Keyed, OutputTypes, RobotTypes, TerminalTypes
<1>4. CASE e.type = "assignment_completed"
  BY <1>1, <1>4 DEF Named, Keyed, OutputTypes, RobotTypes, TerminalTypes
<1>5. CASE e.type = "task_replan"
  BY <1>1, <1>5 DEF Named, Keyed, OutputTypes, RobotTypes, TerminalTypes
<1>6. CASE e.type \in TerminalTypes
  BY <1>1, <1>6 DEF Named, Keyed, OutputTypes, RobotTypes, TerminalTypes
<1>7. CASE e.type \in RobotTypes
  BY <1>1, <1>7 DEF Named, Keyed, OutputTypes, RobotTypes, TerminalTypes
<1>8. QED
  BY <1>2, <1>3, <1>4, <1>5, <1>6, <1>7 DEF Named, OutputTypes

\* No other source has a key or an id of theirs.
LEMMA OwnName ==
    ASSUME NEW e, Named(e), NEW f \in Offered
    PROVE  e.key # None /\ f.key # e.key /\ f.id # e.id
<1>1. e.key[1] \in OwnKinds
  BY DEF Named, Keyed, OutputTypes, RobotTypes, TerminalTypes, OwnKinds
<1>2. f.id[1][1] \notin OwnKinds /\ (f.key # None => f.key[1] \notin OwnKinds)
  BY OfferedAssumption
<1>3. e.id[1] = e.key /\ e.key # None
  BY NoneAssumption DEF Named
<1>4. QED
  BY <1>1, <1>2, <1>3

-----------------------------------------------------------------------------
(* What the Coordinator and the robots append has such a name.             *)

LEMMA RoundNamed ==
    ASSUME NamesAvailable, crashes \in Nat, NEW tr \in TaskRevs, NEW ep \in Nat \ {0}
    PROVE  /\ Output(RoundOpened(tr, ep))
           /\ RoundOpened(tr, ep).type = "bid_round_opened"
           /\ RoundOpened(tr, ep).task = tr[1] /\ RoundOpened(tr, ep).rev = tr[2]
           /\ RoundOpened(tr, ep).epoch = ep
<1> DEFINE k == <<"bid-round", tr[1], tr[2], ep, 1>>
           e == RoundOpened(tr, ep)
<1>1. tr[1] \in Tasks /\ tr[2] \in Revs
  BY DEF TaskRevs
<1>2. k \in Keys /\ <<k, crashes>> \in EventIds
  BY <1>1 DEF NamesAvailable
<1>3. /\ e.type = "bid_round_opened" /\ e.task = tr[1] /\ e.rev = tr[2] /\ e.epoch = ep
      /\ e.key = k /\ e.id[1] = k
  BY DEF RoundOpened
<1>4. e \in RoundEvent
  BY <1>1, <1>2 DEF RoundOpened, RoundEvent
<1>5. QED
  BY <1>2, <1>3, <1>4
     DEF Output, Named, Keyed, OutputTypes, RobotTypes, TerminalTypes, Event

LEMMA AssignedNamed ==
    ASSUME NamesAvailable, crashes \in Nat, NEW tr \in TaskRevs, NEW ep \in Nat \ {0},
           NEW refs \in SUBSET EventIds
    PROVE  /\ Output(Assigned(tr, ep, refs))
           /\ Assigned(tr, ep, refs).type = "task_assigned"
           /\ Assigned(tr, ep, refs).task = tr[1] /\ Assigned(tr, ep, refs).rev = tr[2]
           /\ Assigned(tr, ep, refs).epoch = ep
<1> DEFINE k == <<"assignment", tr[1], tr[2], ep>>
           e == Assigned(tr, ep, refs)
<1>1. tr[1] \in Tasks /\ tr[2] \in Revs /\ tr = <<tr[1], tr[2]>>
  BY DEF TaskRevs
<1>2. k \in Keys /\ <<k, crashes>> \in EventIds /\ PlanOf(tr, ep) \in PlanIds
  BY <1>1 DEF NamesAvailable
<1>3. /\ e.type = "task_assigned" /\ e.task = tr[1] /\ e.rev = tr[2] /\ e.epoch = ep
      /\ e.key = k /\ e.id[1] = k
  BY DEF Assigned
<1>4. Team[tr] \in SUBSET AssignmentIds
  BY CoordinatorAssumption DEF TaskRevs
<1>5. e \in AssignedEvent
  BY <1>1, <1>2, <1>4 DEF Assigned, AssignedEvent
<1>6. QED
  BY <1>2, <1>3, <1>5
     DEF Output, Named, Keyed, OutputTypes, RobotTypes, TerminalTypes, Event

\* An action names its plan and assignment.
ActionShape(w) ==
    /\ w.task \in Tasks /\ w.rev \in Revs /\ w.epoch \in Nat \ {0}
    /\ w.plan \in PlanIds /\ w.asg \in AssignmentIds

LEMMA CompletedNamed ==
    ASSUME NamesAvailable, crashes \in Nat, NEW r, ActionShape(r)
    PROVE  /\ Output(Completed(r))
           /\ Completed(r).type = "assignment_completed"
           /\ Completed(r).task = r.task /\ Completed(r).rev = r.rev
           /\ Completed(r).epoch = r.epoch /\ Completed(r).asg = r.asg
<1> DEFINE k == <<"assignment-completed", r.task, r.rev, r.epoch, r.asg>>
           e == Completed(r)
<1>1. k \in Keys /\ <<k, crashes>> \in EventIds
  BY DEF NamesAvailable, ActionShape
<1>2. /\ e.type = "assignment_completed" /\ e.task = r.task /\ e.rev = r.rev
      /\ e.epoch = r.epoch /\ e.asg = r.asg /\ e.key = k /\ e.id[1] = k
  BY DEF Completed
<1>3. e \in WorkEvent
  BY <1>1 DEF Completed, WorkEvent, ActionShape
<1>4. QED
  BY <1>1, <1>2, <1>3
     DEF Output, Named, Keyed, OutputTypes, RobotTypes, TerminalTypes, Event

LEMMA FailedNamed ==
    ASSUME NamesAvailable, crashes \in Nat, NEW tr \in TaskRevs, NEW ep \in Nat, NEW n \in Nat
    PROVE  /\ Output(Failed(tr, ep, n))
           /\ Failed(tr, ep, n).type = "task_failed"
           /\ Failed(tr, ep, n).task = tr[1] /\ Failed(tr, ep, n).rev = tr[2]
           /\ Failed(tr, ep, n).epoch = ep
<1> DEFINE e == Failed(tr, ep, n)
<1>1. tr[1] \in Tasks /\ tr[2] \in Revs
  BY DEF TaskRevs
<1>2. TerminalKey(tr) \in Keys /\ <<TerminalKey(tr), <<"failed", crashes, n>>>> \in EventIds
  BY DEF NamesAvailable
<1>3. /\ e.type = "task_failed" /\ e.task = tr[1] /\ e.rev = tr[2] /\ e.epoch = ep
      /\ e.key = TerminalKey(tr) /\ e.id[1] = TerminalKey(tr)
  BY DEF Failed
<1>4. e \in FailedEvent
  BY <1>1, <1>2 DEF Failed, FailedEvent
<1>5. QED
  BY <1>2, <1>3, <1>4
     DEF Output, Named, Keyed, OutputTypes, RobotTypes, TerminalTypes, Event, TerminalKey

LEMMA DoneNamed ==
    ASSUME NamesAvailable, crashes \in Nat, NEW tr \in TaskRevs, NEW n \in Nat,
           view[tr] \in View, view[tr].plan # None, view[tr].epoch # 0
    PROVE  /\ Output(Done(tr, n))
           /\ Done(tr, n).type = "task_done"
<1> DEFINE e == Done(tr, n)
           v == view[tr]
<1>1. tr[1] \in Tasks /\ tr[2] \in Revs
  BY DEF TaskRevs
<1>2. TerminalKey(tr) \in Keys /\ <<TerminalKey(tr), <<"done", crashes, n>>>> \in EventIds
  BY DEF NamesAvailable
<1>3. /\ e.type = "task_done" /\ e.task = tr[1] /\ e.rev = tr[2]
      /\ e.key = TerminalKey(tr) /\ e.id[1] = TerminalKey(tr)
  BY DEF Done
<1>4. v.plan.id \in PlanIds /\ v.completed \in SUBSET AssignmentIds /\ v.epoch \in Nat \ {0}
  BY DEF View, Plan
<1>5. e \in DoneEvent
  BY <1>1, <1>2, <1>4 DEF Done, DoneEvent
<1>6. QED
  BY <1>2, <1>3, <1>5
     DEF Output, Named, Keyed, OutputTypes, RobotTypes, TerminalTypes, Event, TerminalKey

LEMMA ReplanNamed ==
    ASSUME NamesAvailable, NEW tr \in TaskRevs,
           view[tr] \in View, view[tr].pending \in SUBSET ClueIds, Cause(tr) \in view[tr].pending
    PROVE  /\ Output(Replan(tr))
           /\ Replan(tr).type = "task_replan"
           /\ Replan(tr).task = tr[1] /\ Replan(tr).rev = tr[2] /\ Replan(tr).cause = Cause(tr)
<1> DEFINE e == Replan(tr)
           v == view[tr]
           c == Cause(tr)
           k == <<"replan", tr[1], tr[2], c>>
<1>1. tr[1] \in Tasks /\ tr[2] \in Revs /\ c \in ClueIds /\ v.epoch \in Nat
  BY DEF TaskRevs, View
<1>2. k \in Keys /\ <<k, <<v.epoch, v.pending>>>> \in EventIds
  <2> HIDE DEF c
  <2> QED
    BY <1>1 DEF NamesAvailable
<1>3. /\ e.type = "task_replan" /\ e.task = tr[1] /\ e.rev = tr[2] /\ e.cause = c
      /\ e.key = k /\ e.id[1] = k
  BY DEF Replan
<1>4. v.pending \in SUBSET EventIds
  BY DEF View
<1>5. e \in ReplanEvent
  BY <1>1, <1>2, <1>4 DEF Replan, ReplanEvent
<1>6. QED
  BY <1>2, <1>3, <1>5
     DEF Output, Named, Keyed, OutputTypes, RobotTypes, TerminalTypes, Event

LEMMA AgentNamed ==
    ASSUME NamesAvailable, NEW w, ActionShape(w), NEW type \in {"action_intent", "safety_intercept"}
    PROVE  /\ Named(AgentEvent(type, w))
           /\ AgentEvent(type, w).type = type
<1> DEFINE k == <<type, w.task, w.rev, w.epoch, w.asg>>
           e == AgentEvent(type, w)
<1>1. k \in Keys /\ <<k, 0>> \in EventIds
  BY DEF NamesAvailable, ActionShape
<1>2. /\ e.type = type /\ e.task = w.task /\ e.rev = w.rev
      /\ e.epoch = w.epoch /\ e.asg = w.asg /\ e.key = k /\ e.id[1] = k
  BY DEF AgentEvent
<1>3. e \in WorkEvent \cup InterceptEvent
  BY <1>1 DEF AgentEvent, WorkEvent, InterceptEvent, ActionShape
<1>4. QED
  BY <1>1, <1>2, <1>3
     DEF Named, Keyed, OutputTypes, RobotTypes, TerminalTypes, Event

LEMMA ReceiptNamed ==
    ASSUME NamesAvailable, NEW w, ActionShape(w), NEW good \in BOOLEAN
    PROVE  /\ Named(Receipt(w, good))
           /\ Receipt(w, good).type = "receipt"
<1> DEFINE k == <<"receipt", w.task, w.rev, w.epoch, w.asg>>
           e == Receipt(w, good)
<1>1. k \in Keys /\ <<k, 0>> \in EventIds
  BY DEF NamesAvailable, ActionShape
<1>2. /\ e.type = "receipt" /\ e.task = w.task /\ e.rev = w.rev
      /\ e.epoch = w.epoch /\ e.asg = w.asg /\ e.key = k /\ e.id[1] = k
  BY DEF Receipt
<1>3. e \in ReceiptEvent
  BY <1>1 DEF Receipt, ReceiptEvent, ActionShape
<1>4. QED
  BY <1>1, <1>2, <1>3
     DEF Named, Keyed, OutputTypes, RobotTypes, TerminalTypes, Event

-----------------------------------------------------------------------------
(* What the log says, and the view of it.                                  *)

Known(e) == e \in Event /\ (e \in Offered \/ Named(e))

LogShape == log \in Seq(Event) /\ \A n \in DOMAIN log : Known(log[n])

\* An index entry is the position of the one event it is about.
IndexesOK ==
    /\ byKey \in [Keys -> Nat] /\ byId \in [EventIds -> Nat] /\ byTerminal \in [TaskRevs -> Nat]
    /\ \A k \in Keys : byKey[k] # 0 => byKey[k] \in DOMAIN log /\ log[byKey[k]].key = k
    /\ \A i \in EventIds : byId[i] # 0 => byId[i] \in DOMAIN log /\ log[byId[i]].id = i
    /\ \A n \in DOMAIN log : log[n].key # None => byKey[log[n].key] = n
    /\ \A n \in DOMAIN log : byId[log[n].id] = n

\* A clue counts as evidence only while it is in the log and not consumed.
ViewOK(v) ==
    /\ v.round # None => v.round.epoch = v.epoch /\ v.epoch # 0
    /\ v.plan # None => v.epoch # 0
    /\ v.pending \in SUBSET ClueIds

ViewsOK ==
    /\ view \in [TaskRevs -> View]
    /\ \A tr \in TaskRevs : ViewOK(view[tr])
    /\ \A tr \in TaskRevs : \A c \in view[tr].pending : \E n \in DOMAIN log : log[n].id = c

EpochsBehind == \A n \in DOMAIN log, tr \in TaskRevs : EpochBehind(log[n], tr, view[tr])

\* What was opened or replanned before is never built from the view again.
RoundsBehind ==
    \A n \in DOMAIN log, tr \in TaskRevs :
        OfType(log[n], "bid_round_opened", tr) => log[n].epoch <= view[tr].epoch

CausesConsumed ==
    \A n \in DOMAIN log, tr \in TaskRevs :
        OfType(log[n], "task_replan", tr) =>
            /\ log[n].cause \notin view[tr].pending
            /\ \E m \in DOMAIN log : log[m].id = log[n].cause

\* The round of an epoch was opened before its assignment.
RoundsFirst ==
    \A m, n \in DOMAIN log, tr \in TaskRevs :
        /\ OfType(log[m], "bid_round_opened", tr) /\ OfType(log[n], "task_assigned", tr)
        /\ log[m].epoch = log[n].epoch
        => m < n

\* Position n is the receipt that completion e answers.
ReceiptOf(n, e) ==
    /\ n \in DOMAIN log /\ log[n].type = "receipt"
    /\ log[n].task = e.task /\ log[n].rev = e.rev
    /\ log[n].epoch = e.epoch /\ log[n].asg = e.asg

CompletionsAnswer ==
    \A m \in DOMAIN log : log[m].type = "assignment_completed" =>
        \E n \in DOMAIN log : ReceiptOf(n, log[m])

LogInv ==
    /\ LogShape /\ IndexesOK /\ ViewsOK
    /\ EpochsBehind /\ RoundsBehind /\ CausesConsumed /\ RoundsFirst /\ CompletionsAnswer

-----------------------------------------------------------------------------
(* A commit, by the Coordinator or by anybody else.                        *)

LEMMA SameApply ==
    ASSUME NEW v, NEW e
    PROVE  Bd!Apply(v, e) = Apply(v, e)
  BY DEF Bd!Apply, Apply, Bd!ApplyPosted, ApplyPosted, Bd!ApplyRound, ApplyRound,
         Bd!NextRoundEpoch, NextRoundEpoch, Bd!ApplyAssigned, ApplyAssigned,
         Bd!ApplyIntent, ApplyIntent, Bd!ApplyCompleted, ApplyCompleted,
         Bd!ApplyReplan, ApplyReplan, Bd!ApplyTerminal, ApplyTerminal,
         Bd!TerminalTypes, TerminalTypes

LEMMA SameGate ==
    ASSUME NEW v, NEW e
    PROVE  Bd!Accepts(v, e) <=> Accepts(v, e)
  BY Zenon DEF Bd!Accepts, Accepts, Bd!AcceptsRound, AcceptsRound,
         Bd!NextRoundEpoch, NextRoundEpoch, Bd!AcceptsAssigned, AcceptsAssigned,
         Bd!AcceptsIntent, AcceptsIntent, Bd!AcceptsReplan, AcceptsReplan,
         Bd!AcceptsDone, AcceptsDone, Bd!AcceptsFailed, AcceptsFailed,
         Bd!TerminalTypes, TerminalTypes, Bd!GatedTypes, GatedTypes

\* The event that is committed has a new id and key, passed the gate, and the
\* fold applies it to one view.
LEMMA Committed ==
    ASSUME NEW e \in Event, Bd!Outcome(e) = "APPENDED", Bd!Commit(e)
    PROVE  /\ log' = Append(log, e)
           /\ e.key # None => byKey[e.key] = 0
           /\ byId[e.id] = 0
           /\ byKey' = IF e.key = None THEN byKey ELSE [byKey EXCEPT ![e.key] = Len(log) + 1]
           /\ byId' = [byId EXCEPT ![e.id] = Len(log) + 1]
           /\ byTerminal' = IF e.type \in TerminalTypes
                            THEN [byTerminal EXCEPT ![<<e.task, e.rev>>] = Len(log) + 1]
                            ELSE byTerminal
           /\ Accepted(view[Bd!Target(e)], e)
           /\ view' = [view EXCEPT ![Bd!Target(e)] = Apply(view[Bd!Target(e)], e)]
           /\ e.type \notin {"clue", "estop"} => Bd!Target(e) = <<e.task, e.rev>>
<1> DEFINE k == Bd!KeyEntry(e)
           t == Bd!TerminalEntry(e)
           i == byId[e.id]
<1>1. k = 0 /\ t = 0 /\ i = 0 /\ Bd!GateAccepts(e)
  <2>1. Bd!Outcome(e) =
          CASE k # 0 -> IF log[k] = e THEN "DUPLICATE_SAME"
                        ELSE IF Bd!SameTerminalKey(e, log[k])
                        THEN "TERMINAL_CONFLICT" ELSE "KEY_CONFLICT"
            [] k = 0 /\ t # 0 -> IF log[t] = e THEN "DUPLICATE_SAME" ELSE "TERMINAL_CONFLICT"
            [] k = 0 /\ t = 0 /\ i # 0 ->
                 IF log[i] = e THEN "DUPLICATE_SAME" ELSE "KEY_CONFLICT"
            [] k = 0 /\ t = 0 /\ i = 0 -> IF Bd!GateAccepts(e) THEN "APPENDED" ELSE "REJECTED"
    BY DEF Bd!Outcome
  <2> HIDE DEF k, t, i
  <2>2. QED
    BY <2>1
<1>2. Accepted(view[Bd!Target(e)], e)
  BY <1>1, SameGate DEF Bd!GateAccepts, Accepted, GatedTypes
<1>3. e.type \notin {"clue", "estop"} => Bd!Target(e) = <<e.task, e.rev>>
  BY EventShape, NoneAssumption DEF Bd!Target, Bd!EffectiveRev
<1>4. Bd!IsTerminal(e) <=> e.type \in TerminalTypes
  BY DEF Bd!IsTerminal, Bd!TerminalTypes, TerminalTypes
<1>5. e.key # None => byKey[e.key] = 0
  BY <1>1 DEF Bd!KeyEntry
<1>6. QED
  BY <1>1, <1>2, <1>3, <1>4, <1>5, SameApply DEF Bd!Commit

LEMMA Grows ==
    ASSUME LogInv, NEW e \in Event, Bd!Outcome(e) = "APPENDED", Bd!Commit(e)
    PROVE  /\ Len(log) \in Nat /\ DOMAIN log = 1 .. Len(log)
           /\ log' \in Seq(Event) /\ DOMAIN log' = 1 .. Len(log) + 1 /\ Len(log') = Len(log) + 1
           /\ \A n \in DOMAIN log : log'[n] = log[n] /\ n \in DOMAIN log'
           /\ log'[Len(log) + 1] = e
           /\ \A n \in DOMAIN log' : n \in DOMAIN log \/ (n = Len(log) + 1 /\ log'[n] = e)
<1>1. log' = Append(log, e) /\ log \in Seq(Event)
  BY Committed DEF LogInv, LogShape
<1>2. QED
  BY <1>1

\* One task revision across a commit.
LEMMA ViewStep ==
    ASSUME LogInv, NEW e \in Event, Bd!Outcome(e) = "APPENDED", Bd!Commit(e),
           NEW tr \in TaskRevs
    PROVE  /\ view[tr] \in View /\ ViewOK(view[tr])
           /\ view[tr].round # None => view[tr].round.epoch = view[tr].epoch /\ view[tr].epoch # 0
           /\ OfType(e, e.type, tr) /\ e.type \notin {"clue", "estop"} => Bd!Target(e) = tr
           /\ tr = Bd!Target(e) => view'[tr] = Apply(view[tr], e) /\ Accepted(view[tr], e)
           /\ tr # Bd!Target(e) => view'[tr] = view[tr]
<1>1. /\ Accepted(view[Bd!Target(e)], e)
      /\ view' = [view EXCEPT ![Bd!Target(e)] = Apply(view[Bd!Target(e)], e)]
      /\ e.type \notin {"clue", "estop"} => Bd!Target(e) = <<e.task, e.rev>>
  BY Committed
<1>2. view \in [TaskRevs -> View] /\ ViewOK(view[tr])
  BY DEF LogInv, ViewsOK
<1>3. QED
  BY <1>1, <1>2 DEF ViewOK, OfType

LEMMA ShapeStep ==
    ASSUME LogInv, NEW e, Known(e), Bd!Outcome(e) = "APPENDED", Bd!Commit(e)
    PROVE  LogShape'
<1>1. e \in Event
  BY DEF Known
<1>2. SUFFICES ASSUME NEW n \in DOMAIN log' PROVE Known(log'[n])
  BY <1>1, Grows DEF LogShape, Known, Named, Keyed
<1>3. QED
  BY <1>1, <1>2, Grows DEF LogInv, LogShape

LEMMA IndexStep ==
    ASSUME LogInv, NEW e \in Event, Bd!Outcome(e) = "APPENDED", Bd!Commit(e)
    PROVE  IndexesOK'
<1> DEFINE n == Len(log) + 1
<1>1. /\ byKey \in [Keys -> Nat] /\ byId \in [EventIds -> Nat] /\ byTerminal \in [TaskRevs -> Nat]
      /\ \A k \in Keys : byKey[k] # 0 => byKey[k] \in DOMAIN log /\ log[byKey[k]].key = k
      /\ \A i \in EventIds : byId[i] # 0 => byId[i] \in DOMAIN log /\ log[byId[i]].id = i
      /\ \A m \in DOMAIN log : log[m].key # None => byKey[log[m].key] = m
      /\ \A m \in DOMAIN log : byId[log[m].id] = m
  BY DEF LogInv, IndexesOK
<1>2. e.id \in EventIds /\ e.key \in Keys \cup {None}
  BY EventShape
<1>3. /\ n \in Nat /\ n # 0 /\ n \in DOMAIN log' /\ log'[n] = e
      /\ \A m \in DOMAIN log : log'[m] = log[m] /\ m \in DOMAIN log' /\ m # n
      /\ \A m \in DOMAIN log' : m \in DOMAIN log \/ m = n
  BY Grows
<1>4. /\ byKey' = IF e.key = None THEN byKey ELSE [byKey EXCEPT ![e.key] = n]
      /\ byId' = [byId EXCEPT ![e.id] = n]
      /\ byTerminal' = IF e.type \in TerminalTypes
                       THEN [byTerminal EXCEPT ![<<e.task, e.rev>>] = n]
                       ELSE byTerminal
      /\ e.key # None => byKey[e.key] = 0
      /\ byId[e.id] = 0
  BY Committed
<1>5. \A m \in DOMAIN log : log[m].key \in Keys \cup {None} /\ log[m].id \in EventIds /\ m # 0
  BY EventShape, Grows DEF LogInv, LogShape
<1> HIDE DEF n
<1>6. byKey' \in [Keys -> Nat] /\ byId' \in [EventIds -> Nat] /\ byTerminal' \in [TaskRevs -> Nat]
  BY <1>1, <1>3, <1>4
<1>7. ASSUME NEW k \in Keys, byKey'[k] # 0 PROVE byKey'[k] \in DOMAIN log' /\ log'[byKey'[k]].key = k
  BY <1>1, <1>2, <1>3, <1>4, <1>7
<1>8. ASSUME NEW i \in EventIds, byId'[i] # 0 PROVE byId'[i] \in DOMAIN log' /\ log'[byId'[i]].id = i
  BY <1>1, <1>2, <1>3, <1>4, <1>8
<1>9. ASSUME NEW m \in DOMAIN log', log'[m].key # None PROVE byKey'[log'[m].key] = m
  <2>1. CASE m \in DOMAIN log
    <3>1. log'[m] = log[m] /\ byKey[log[m].key] = m /\ m # 0 /\ log[m].key \in Keys
      BY <1>1, <1>3, <1>5, <1>9, <2>1
    <3>2. e.key # None => log[m].key # e.key
      BY <1>4, <3>1
    <3>3. QED
      BY <1>1, <1>4, <3>1, <3>2
  <2>2. CASE m = n
    BY <1>1, <1>2, <1>3, <1>4, <1>9, <2>2
  <2>3. QED
    BY <1>3, <2>1, <2>2
<1>10. ASSUME NEW m \in DOMAIN log' PROVE byId'[log'[m].id] = m
  <2>1. CASE m \in DOMAIN log
    <3>1. log'[m] = log[m] /\ byId[log[m].id] = m /\ m # 0 /\ log[m].id \in EventIds
      BY <1>1, <1>3, <1>5, <2>1
    <3>2. log[m].id # e.id
      BY <1>4, <3>1
    <3>3. QED
      BY <1>4, <3>1, <3>2
  <2>2. CASE m = n
    BY <1>1, <1>2, <1>3, <1>4, <2>2
  <2>3. QED
    BY <1>3, <2>1, <2>2
<1>11. QED
  BY <1>6, <1>7, <1>8, <1>9, <1>10 DEF IndexesOK

LEMMA FineStep ==
    ASSUME NEW v \in View, ViewOK(v), NEW e, Known(e), Accepted(v, e)
    PROVE  ViewOK(Apply(v, e))
<1> DEFINE w == Apply(v, e)
<1>1. /\ e \in Event /\ v.epoch \in Nat
      /\ v.round # None => v.round.epoch = v.epoch /\ v.epoch # 0
      /\ v.plan # None => v.epoch # 0
      /\ v.pending \in SUBSET ClueIds
  BY DEF Known, ViewOK, View
<1>2. w.pending \in SUBSET ClueIds
  <2>1. e.type = "clue" => e.id \in ClueIds
    BY DEF Known, Named, ClueIds, OutputTypes, RobotTypes, TerminalTypes
  <2>2. w.pending \subseteq v.pending \cup (IF e.type = "clue" THEN {e.id} ELSE {})
    BY <1>1, PendingShrinks
  <2> HIDE DEF w
  <2>3. QED
    BY <1>1, <2>1, <2>2
<1>3. /\ w.round # None => w.round.epoch = w.epoch /\ w.epoch # 0
      /\ w.plan # None => w.epoch # 0
  <2>1. CASE e.type = "bid_round_opened"
    <3>1. /\ w.round = [epoch |-> e.epoch, number |-> e.number] /\ e.epoch = w.epoch
          /\ w.plan = None
      BY <1>1, <2>1, RoundApplies
    <3>2. e.epoch # 0
      BY <1>1, <2>1, RoundShape
    <3>3. w.round.epoch = w.epoch /\ w.epoch # 0
      BY <3>1, <3>2
    <3>4. QED
      BY <3>1, <3>3
  <2>2. CASE e.type = "task_assigned"
    <3>1. w.round = None /\ w.epoch = v.epoch /\ v.epoch = e.epoch
      BY <1>1, <2>2, AssignedApplies
    <3>2. e.epoch # 0
      BY <1>1, <2>2, AssignedShape
    <3>3. QED
      BY <3>1, <3>2
  <2>3. CASE e.type = "task_replan"
    <3>1. w.round = None /\ w.plan = None
      BY <1>1, <2>3, ReplanApplies
    <3>2. QED
      BY <3>1
  <2>4. CASE e.type = "assignment_completed"
    <3>1. w.round = v.round /\ w.plan = v.plan /\ w.epoch = v.epoch
      BY <1>1, <2>4, CompletedApplies
    <3>2. QED
      BY <1>1, <3>1
  <2>5. CASE e.type \notin PlanTypes
    <3>1. w.round \in {v.round, None} /\ w.plan = v.plan /\ w.epoch = v.epoch
      BY <1>1, <2>5, OthersKeepPlan
    <3>2. QED
      BY <1>1, <3>1
  <2>6. QED
    BY <2>1, <2>2, <2>3, <2>4, <2>5 DEF PlanTypes
<1>4. QED
  BY <1>2, <1>3 DEF ViewOK

LEMMA ViewsStep ==
    ASSUME LogInv, NEW e, Known(e), Bd!Outcome(e) = "APPENDED", Bd!Commit(e)
    PROVE  ViewsOK'
<1>0. e \in Event
  BY DEF Known
<1>1. view' \in [TaskRevs -> View]
  <2>1. ASSUME Bd!Target(e) \in TaskRevs
        PROVE  Apply(view[Bd!Target(e)], e) \in View
    BY <1>0, <2>1, ApplyType DEF LogInv, ViewsOK
  <2>2. view' = [view EXCEPT ![Bd!Target(e)] = Apply(view[Bd!Target(e)], e)]
    BY <1>0, Committed
  <2>3. QED
    BY <2>1, <2>2 DEF LogInv, ViewsOK
<1>2. ASSUME NEW tr \in TaskRevs PROVE ViewOK(view'[tr])
  <2>1. /\ view[tr] \in View /\ ViewOK(view[tr])
        /\ tr = Bd!Target(e) => view'[tr] = Apply(view[tr], e) /\ Accepted(view[tr], e)
        /\ tr # Bd!Target(e) => view'[tr] = view[tr]
    BY <1>0, ViewStep
  <2>2. QED
    BY <2>1, FineStep
<1>3. ASSUME NEW tr \in TaskRevs, NEW c \in view'[tr].pending
      PROVE  \E n \in DOMAIN log' : log'[n].id = c
  <2>1. c \in view[tr].pending \/ c = e.id
    <3>1. CASE tr = Bd!Target(e)
      <4>1. view[tr] \in View /\ Accepted(view[tr], e) /\ view'[tr] = Apply(view[tr], e)
        BY <1>0, <3>1, ViewStep
      <4>2. QED
        BY <1>0, <1>3, <4>1, PendingShrinks
    <3>2. CASE tr # Bd!Target(e)
      BY <1>0, <1>3, <3>2, ViewStep
    <3>3. QED
      BY <3>1, <3>2
  <2>2. CASE c \in view[tr].pending
    <3>1. PICK n \in DOMAIN log : log[n].id = c
      BY <2>2 DEF LogInv, ViewsOK
    <3>2. QED
      BY <1>0, <3>1, Grows
  <2>3. CASE c = e.id
    <3>1. Len(log) + 1 \in DOMAIN log' /\ log'[Len(log) + 1] = e
      BY <1>0, Grows
    <3>2. QED
      BY <2>3, <3>1
  <2>4. QED
    BY <2>1, <2>2, <2>3
<1>4. QED
  BY <1>1, <1>2, <1>3 DEF ViewsOK, ViewOK

LEMMA BehindStep ==
    ASSUME LogInv, NEW e \in Event, Bd!Outcome(e) = "APPENDED", Bd!Commit(e)
    PROVE  EpochsBehind'
<1>1. SUFFICES ASSUME NEW n \in DOMAIN log', NEW tr \in TaskRevs
               PROVE  EpochBehind(log'[n], tr, view'[tr])
  BY DEF EpochsBehind, EpochBehind, OfType
<1>2. CASE n \in DOMAIN log
  <2>1. log'[n] = log[n] /\ log[n] \in Event /\ EpochBehind(log[n], tr, view[tr])
    BY <1>2, Grows DEF LogInv, LogShape, EpochsBehind
  <2>2. CASE tr = Bd!Target(e)
    <3>1. /\ view'[tr] = Apply(view[tr], e) /\ view[tr] \in View /\ Accepted(view[tr], e)
          /\ view[tr].round # None => view[tr].round.epoch = view[tr].epoch /\ view[tr].epoch # 0
      BY <2>2, ViewStep
    <3>2. QED
      BY <2>1, <3>1, BehindStays
  <2>3. CASE tr # Bd!Target(e)
    BY <2>1, <2>3, ViewStep
  <2>4. QED
    BY <2>2, <2>3
<1>3. CASE n \notin DOMAIN log
  <2>1. log'[n] = e
    BY <1>3, Grows
  <2>2. CASE tr = Bd!Target(e)
    BY <2>1, <2>2, ViewStep, BehindBegins
  <2>3. CASE tr # Bd!Target(e)
    <3>1. e.type \notin {"clue", "estop"} => Bd!Target(e) = <<e.task, e.rev>>
      BY Committed
    <3>2. QED
      BY <2>1, <2>3, <3>1 DEF EpochBehind, OfType
  <2>4. QED
    BY <2>2, <2>3
<1>4. QED
  BY <1>2, <1>3

\* The epoch of a view never decreases.
LEMMA EpochGrows ==
    ASSUME NEW v \in View, NEW e \in Event, Accepted(v, e),
           v.round # None => v.round.epoch = v.epoch /\ v.epoch # 0
    PROVE  Apply(v, e).epoch \in Nat /\ v.epoch <= Apply(v, e).epoch
<1>1. v.epoch \in Nat
  BY DEF View
<1>2. CASE e.type = "bid_round_opened"
  <2>1. /\ v.epoch # 0 => Apply(v, e).epoch = v.epoch
        /\ v.epoch = 0 => Apply(v, e).epoch = 1
    BY <1>2, RoundApplies
  <2>2. QED
    BY <1>1, <2>1
<1>3. CASE e.type = "task_assigned"
  <2>1. Apply(v, e).epoch = v.epoch
    BY <1>3, AssignedApplies
  <2>2. QED
    BY <1>1, <2>1
<1>4. CASE e.type = "task_replan"
  BY <1>1, <1>4, ReplanApplies
<1>5. CASE e.type = "assignment_completed"
  BY <1>1, <1>5, CompletedApplies
<1>6. CASE e.type \notin PlanTypes
  BY <1>1, <1>6, OthersKeepPlan
<1>7. QED
  BY <1>2, <1>3, <1>4, <1>5, <1>6 DEF PlanTypes

LEMMA RoundsBehindStep ==
    ASSUME LogInv, NEW e \in Event, Bd!Outcome(e) = "APPENDED", Bd!Commit(e)
    PROVE  RoundsBehind'
<1>1. SUFFICES ASSUME NEW n \in DOMAIN log', NEW tr \in TaskRevs,
                      OfType(log'[n], "bid_round_opened", tr)
               PROVE  log'[n].epoch <= view'[tr].epoch
  BY DEF RoundsBehind, OfType
<1>2. /\ view[tr] \in View /\ view[tr].epoch \in Nat
      /\ view[tr].round # None => view[tr].round.epoch = view[tr].epoch /\ view[tr].epoch # 0
      /\ tr = Bd!Target(e) => view'[tr] = Apply(view[tr], e) /\ Accepted(view[tr], e)
      /\ tr # Bd!Target(e) => view'[tr] = view[tr]
  BY ViewStep DEF View
<1>3. CASE n \in DOMAIN log
  <2>1. log'[n] = log[n] /\ log[n] \in Event
    BY <1>3, Grows DEF LogInv, LogShape
  <2>2. log[n].epoch <= view[tr].epoch /\ log[n].epoch \in Nat
    BY <1>1, <1>3, <2>1, RoundShape DEF LogInv, RoundsBehind, OfType
  <2>3. view'[tr].epoch \in Nat /\ view[tr].epoch <= view'[tr].epoch
    BY <1>2, EpochGrows
  <2>4. QED
    BY <1>2, <2>1, <2>2, <2>3
<1>4. CASE n \notin DOMAIN log
  <2>1. log'[n] = e /\ e.type = "bid_round_opened" /\ tr = Bd!Target(e)
    <3>1. log'[n] = e
      BY <1>4, Grows
    <3>2. OfType(e, "bid_round_opened", tr) /\ e.type = "bid_round_opened"
      BY <1>1, <3>1 DEF OfType
    <3>3. QED
      BY <3>1, <3>2, ViewStep
  <2>2. e.epoch = view'[tr].epoch /\ e.epoch \in Nat
    <3>1. e.epoch \in Nat
      BY <2>1, RoundShape
    <3>2. view[tr] \in View /\ Accepted(view[tr], e) /\ view'[tr] = Apply(view[tr], e)
      BY <1>2, <2>1
    <3>3. e.epoch = Apply(view[tr], e).epoch
      BY <1>2, <2>1, <3>2, RoundApplies
    <3>4. QED
      BY <3>1, <3>2, <3>3
  <2>3. QED
    BY <2>1, <2>2
<1>5. QED
  BY <1>3, <1>4

LEMMA CausesStep ==
    ASSUME LogInv, NEW e \in Event, Bd!Outcome(e) = "APPENDED", Bd!Commit(e)
    PROVE  CausesConsumed'
<1>1. SUFFICES ASSUME NEW n \in DOMAIN log', NEW tr \in TaskRevs,
                      OfType(log'[n], "task_replan", tr)
               PROVE  /\ log'[n].cause \notin view'[tr].pending
                      /\ \E m \in DOMAIN log' : log'[m].id = log'[n].cause
  BY DEF CausesConsumed, OfType
<1>2. /\ view[tr] \in View
      /\ tr = Bd!Target(e) => view'[tr] = Apply(view[tr], e) /\ Accepted(view[tr], e)
      /\ tr # Bd!Target(e) => view'[tr] = view[tr]
  BY ViewStep
<1>3. \A c : (\E m \in DOMAIN log : log[m].id = c) => (\E m \in DOMAIN log' : log'[m].id = c)
  BY Grows
<1>4. CASE n \in DOMAIN log
  <2>1. log'[n] = log[n]
    BY <1>4, Grows
  <2>2. /\ log[n].cause \notin view[tr].pending
        /\ \E m \in DOMAIN log : log[m].id = log[n].cause
    BY <1>1, <1>4, <2>1 DEF LogInv, CausesConsumed
  <2>3. log[n].cause # e.id
    <3>1. PICK m \in DOMAIN log : log[m].id = log[n].cause
      BY <2>2
    <3>2. byId[e.id] = 0
      BY Committed
    <3>3. log[m].id \in EventIds /\ m # 0
      <4>1. log[m] \in Event /\ m # 0
        BY Grows DEF LogInv, LogShape
      <4>2. QED
        BY <4>1, EventShape
    <3>4. byId[log[m].id] = m
      BY <3>1, <3>3 DEF LogInv, IndexesOK
    <3>5. QED
      BY <3>1, <3>2, <3>3, <3>4
  <2>4. view'[tr].pending \subseteq view[tr].pending \cup {e.id}
    <3>1. CASE tr = Bd!Target(e)
      BY <1>2, <3>1, PendingShrinks
    <3>2. CASE tr # Bd!Target(e)
      BY <1>2, <3>2
    <3>3. QED
      BY <3>1, <3>2
  <2>5. QED
    BY <1>3, <2>1, <2>2, <2>3, <2>4
<1>5. CASE n \notin DOMAIN log
  <2>1. log'[n] = e /\ e.type = "task_replan" /\ tr = Bd!Target(e)
    <3>1. log'[n] = e
      BY <1>5, Grows
    <3>2. OfType(e, "task_replan", tr) /\ e.type = "task_replan"
      BY <1>1, <3>1 DEF OfType
    <3>3. QED
      BY <3>1, <3>2, ViewStep
  <2>2. /\ e.refs \cup {e.cause} \subseteq view[tr].pending
        /\ view'[tr].pending = view[tr].pending \ (e.refs \cup {e.cause})
    BY <1>2, <2>1, ReplanConsumes
  <2>3. \E m \in DOMAIN log : log[m].id = e.cause
    BY <2>2 DEF LogInv, ViewsOK
  <2>4. QED
    BY <1>3, <2>1, <2>2, <2>3
<1>6. QED
  BY <1>4, <1>5

LEMMA RoundsFirstStep ==
    ASSUME LogInv, NEW e \in Event, Bd!Outcome(e) = "APPENDED", Bd!Commit(e)
    PROVE  RoundsFirst'
<1>1. SUFFICES ASSUME NEW m \in DOMAIN log', NEW n \in DOMAIN log', NEW tr \in TaskRevs,
                      OfType(log'[m], "bid_round_opened", tr),
                      OfType(log'[n], "task_assigned", tr), log'[m].epoch = log'[n].epoch
               PROVE  m < n
  BY Zenon DEF RoundsFirst, OfType
<1>2. /\ Len(log) \in Nat /\ DOMAIN log = 1 .. Len(log)
      /\ \A k \in DOMAIN log : log'[k] = log[k]
      /\ \A k \in DOMAIN log' : k \in DOMAIN log \/ (k = Len(log) + 1 /\ log'[k] = e)
  BY Grows
<1>3. CASE m \in DOMAIN log /\ n \in DOMAIN log
  BY <1>1, <1>2, <1>3 DEF LogInv, RoundsFirst
<1>4. CASE m \in DOMAIN log /\ n \notin DOMAIN log
  BY <1>2, <1>4
<1>5. CASE m \notin DOMAIN log /\ n \in DOMAIN log
  <2>1. log'[m] = e /\ log'[n] = log[n] /\ log[n] \in Event
    BY <1>2, <1>5 DEF LogInv, LogShape
  <2>2. OfType(e, "bid_round_opened", tr) /\ e.type = "bid_round_opened"
    BY <1>1, <2>1 DEF OfType
  <2>3. /\ view[tr] \in View /\ view[tr].epoch \in Nat /\ Accepted(view[tr], e)
        /\ view[tr].round # None => view[tr].round.epoch = view[tr].epoch /\ view[tr].epoch # 0
    BY <2>2, ViewStep DEF View
  <2>4. /\ view[tr].plan = None
        /\ view[tr].epoch # 0 => Apply(view[tr], e).epoch = view[tr].epoch
        /\ view[tr].epoch = 0 => Apply(view[tr], e).epoch = 1
        /\ e.epoch = Apply(view[tr], e).epoch
    BY <2>2, <2>3, RoundApplies
  <2>5. /\ OfType(log[n], "task_assigned", tr) /\ EpochBehind(log[n], tr, view[tr])
        /\ log[n].epoch \in Nat \ {0}
    BY <1>1, <1>5, <2>1, AssignedShape DEF OfType, LogInv, EpochsBehind
  <2>6. log[n].epoch < view[tr].epoch \/ (log[n].epoch = view[tr].epoch /\ view[tr].plan # None)
    BY <2>5 DEF EpochBehind
  <2>7. QED
    BY <1>1, <2>1, <2>3, <2>4, <2>5, <2>6
<1>6. CASE m \notin DOMAIN log /\ n \notin DOMAIN log
  <2>1. log'[m] = e /\ log'[n] = e
    BY <1>2, <1>6
  <2>2. QED
    BY <1>1, <2>1 DEF OfType
<1>7. QED
  BY <1>3, <1>4, <1>5, <1>6

\* A receipt stays where it is.
LEMMA ReceiptStays ==
    ASSUME LogInv, NEW e \in Event, Bd!Outcome(e) = "APPENDED", Bd!Commit(e)
    PROVE  \A n, f : ReceiptOf(n, f) => ReceiptOf(n, f)'
  BY Grows DEF ReceiptOf

\* The commit of an event the proofs below allow keeps what the log says.
LEMMA LogStep ==
    ASSUME LogInv, NEW e, Known(e), Bd!Outcome(e) = "APPENDED", Bd!Commit(e),
           e.type = "assignment_completed" => \E n \in DOMAIN log : ReceiptOf(n, e)
    PROVE  LogInv'
<1>0. e \in Event
  BY DEF Known
<1>1. CompletionsAnswer'
  <2>1. SUFFICES ASSUME NEW m \in DOMAIN log', log'[m].type = "assignment_completed"
                 PROVE  \E n \in DOMAIN log' : ReceiptOf(n, log[m])'
    BY DEF CompletionsAnswer
  <2>2. log'[m] = e \/ (m \in DOMAIN log /\ log'[m] = log[m])
    BY <1>0, Grows
  <2>3. PICK n \in DOMAIN log : ReceiptOf(n, log'[m])
    BY <2>1, <2>2 DEF LogInv, CompletionsAnswer
  <2>4. n \in DOMAIN log' /\ log'[n] = log[n]
    BY <1>0, Grows
  <2>5. QED
    BY <2>3, <2>4 DEF ReceiptOf
<1>2. QED
  BY <1>0, <1>1, ShapeStep, IndexStep, ViewsStep, BehindStep, RoundsBehindStep, CausesStep,
     RoundsFirstStep DEF LogInv

-----------------------------------------------------------------------------
(* The choices the model makes exist.                                      *)

LEMMA GreatestOf ==
    ASSUME NEW S, IsFiniteSet(S), S \subseteq Nat, S # {}
    PROVE  \E x \in S : \A y \in S : y <= x
<1> DEFINE Above(x) == {y \in S : y > x}
           T == {Above(x) : x \in S}
<1>1. T \subseteq SUBSET S /\ T # {}
  OBVIOUS
<1>2. PICK t \in T : \A u \in T : u \subseteq t => u = t
  <2>1. T \subseteq SUBSET S /\ T # {} /\ IsFiniteSet(S)
    BY <1>1
  <2> HIDE DEF T
  <2>2. \E t \in T : \A u \in T : u \subseteq t => u = t
    BY ONLY <2>1, WellFoundedSubsets
  <2>3. QED
    BY <2>2
<1>3. PICK x \in S : t = Above(x)
  BY <1>2
<1>4. \A y \in S : ~(y > x)
  <2>1. SUFFICES ASSUME NEW y \in S, y > x PROVE FALSE
    OBVIOUS
  <2>2. x \in Int /\ y \in Int /\ \A z \in S : z \in Int
    OBVIOUS
  <2>3. \A z \in S : z > y => z > x
    BY <2>1, <2>2
  <2>4. Above(y) \subseteq Above(x)
    BY <2>3
  <2>5. y \in Above(x) /\ y \notin Above(y)
    BY <2>1, <2>2
  <2>6. Above(y) = Above(x)
    BY <1>2, <1>3, <2>4
  <2>7. QED
    BY <2>5, <2>6
<1>5. \A y \in S : y <= x
  BY <1>4
<1>6. QED
  BY <1>5

LEMMA MaxOf ==
    ASSUME NEW S, IsFiniteSet(S), S \subseteq Nat, S # {}
    PROVE  Max(S) \in S /\ \A y \in S : y <= Max(S)
<1>1. PICK x \in S : \A y \in S : y <= x
  BY GreatestOf
<1>2. \A y \in S : x >= y
  BY <1>1
<1>3. Max(S) \in S /\ \A y \in S : Max(S) >= y
  BY <1>2 DEF Max
<1>4. QED
  BY <1>3

LEMMA MinOf ==
    ASSUME NEW n \in Nat, NEW S, S \subseteq 0 .. n, S # {}
    PROVE  Min(S) \in S /\ \A y \in S : Min(S) <= y
<1>1. \E x \in S : \A y \in S : x <= y
  BY SmallestOf
<1>2. QED
  BY <1>1 DEF Min

LEMMA FiniteImage ==
    ASSUME NEW S, IsFiniteSet(S), NEW f, f = [x \in S |-> f[x]]
    PROVE  IsFiniteSet({f[x] : x \in S})
<1> DEFINE T == {f[x] : x \in S}
<1>1. f \in Surjection(S, T)
  BY DEF Surjection
<1> HIDE DEF T
<1>2. IsFiniteSet(T)
  BY <1>1, FS_Surjection
<1>3. QED
  BY <1>2 DEF T

LEMMA SeqOfSet ==
    ASSUME NEW S, IsFiniteSet(S)
    PROVE  SetToSeq(S) \in Seq(S)
<1>1. Cardinality(S) \in Nat /\ ExistsBijection(1 .. Cardinality(S), S)
  BY FS_CardinalityType
<1>2. \E f \in [1 .. Cardinality(S) -> S] : IsInjective(f)
  BY <1>1 DEF ExistsBijection, Bijection, Injection, IsInjective
<1>3. SetToSeq(S) \in [1 .. Cardinality(S) -> S]
  BY <1>2 DEF SetToSeq
<1>4. QED
  BY <1>1, <1>3

\* A pending clue is in the log, so one of them is the oldest.
LEMMA CausePending ==
    ASSUME LogInv, NEW tr \in TaskRevs, view[tr].pending # {}
    PROVE  Cause(tr) \in view[tr].pending
<1> DEFINE P == view[tr].pending
           S == {Position(c) : c \in P}
<1>1. Len(log) \in Nat /\ DOMAIN log = 1 .. Len(log)
  BY DEF LogInv, LogShape
<1>2. \A c \in P : Position(c) \in DOMAIN log
  BY DEF LogInv, ViewsOK, Position
<1>3. S \subseteq 0 .. Len(log) /\ S # {}
  BY <1>1, <1>2
<1>4. PICK x \in S : \A y \in S : x <= y
  <2> HIDE DEF S
  <2> QED BY <1>1, <1>3, SmallestOf
<1>5. \E c \in P : \A d \in P : Position(c) <= Position(d)
  BY <1>4
<1>6. QED
  BY <1>5 DEF Cause

LEMMA ClueRevType ==
    ASSUME known \subseteq TaskRevs, IsFiniteSet(known), NEW e \in Event
    PROVE  ClueRev(e) \in Revs
<1>1. CASE e.rev # None
  <2>1. e.rev \in Revs
    BY <1>1, EventShape
  <2>2. QED
    BY <1>1, <2>1 DEF ClueRev
<1>2. CASE e.rev = None
  <2> DEFINE K == {x \in known : x[1] = e.task}
             f == [x \in K |-> x[2]]
             R == {f[x] : x \in K}
  <2>1. IsFiniteSet(K)
    BY FS_Subset
  <2>2. IsFiniteSet(R)
    <3>1. f = [x \in K |-> f[x]]
      OBVIOUS
    <3> HIDE DEF f, K
    <3>2. QED
      BY <2>1, <3>1, FiniteImage
  <2>3. R = {tr[2] : tr \in {x \in known : x[1] = e.task}}
    OBVIOUS
  <2>4. R \subseteq Revs
    BY <2>3 DEF TaskRevs
  <2> HIDE DEF R
  <2>5. IsFiniteSet({1} \cup R)
    <3>1. IsFiniteSet(R \cup {1})
      BY <2>2, FS_AddElement
    <3>2. R \cup {1} = {1} \cup R
      OBVIOUS
    <3>3. QED
      BY <3>1, <3>2
  <2>6. {1} \cup R \subseteq Revs /\ {1} \cup R \subseteq Nat
    BY <2>4, RevsAssumption
  <2>7. Max({1} \cup R) \in {1} \cup R
    BY <2>5, <2>6, MaxOf
  <2>8. ClueRev(e) = Max({1} \cup R)
    BY <1>2, <2>3 DEF ClueRev
  <2>9. QED
    BY <2>6, <2>7, <2>8
<1>3. QED
  BY <1>1, <1>2

-----------------------------------------------------------------------------
(* The invariant.                                                          *)

BaseInv ==
    /\ offset \in 0 .. Len(log) /\ upto \in 0 .. Len(log)
    /\ refused \subseteq Keys
    /\ known \subseteq TaskRevs /\ IsFiniteSet(known)
    /\ pc \in Labels
    /\ crashes \in 0 .. MaxCrashes
    /\ \A w \in decided : ActionShape(w)

\* A file of the outbox holds an event of its key, and where it comes from.
FileOK(k, f) ==
    /\ Output(f.event) /\ f.event.key = k
    /\ f.src \in 0 .. Len(log)
    /\ f.event.type = "assignment_completed" => ReceiptOf(f.src, f.event)

FilesShape ==
    /\ outbox = [k \in Keys |-> outbox[k]]
    /\ \A k \in Keys : outbox[k] # None => FileOK(k, outbox[k])

\* A plan that may have been published before a crash.
Rebuilt(e) == e.type = "task_assigned" /\ crashes > 0

\* What is on the Blackboard under the key of a file is what the file holds.
FilesAgree ==
    \A k \in Keys : outbox[k] # None /\ byKey[k] # 0 =>
        \/ log[byKey[k]] = outbox[k].event
        \/ outbox[k].event.type \in TerminalTypes
        \/ Rebuilt(outbox[k].event)

CompletionKey(r) == <<"assignment-completed", r.task, r.rev, r.epoch, r.asg>>

\* The completion of a receipt that is still to be consumed keeps its file.
CompletionsFiled ==
    \A n \in DOMAIN log :
        /\ n > offset /\ log[n].type = "receipt"
        /\ CompletionKey(log[n]) \in Keys
        /\ byKey[CompletionKey(log[n])] # 0
        => outbox[CompletionKey(log[n])] # None

FileInv == FilesShape /\ FilesAgree /\ CompletionsFiled

Origins == {"none", "input", "replay", "tick", "exit"}

JobType ==
    [from : Origins, src : Nat, outs : Seq(Event), done : SUBSET Keys,
     task : Tasks \cup {None}, more : BOOLEAN]

JobShape ==
    /\ job \in JobType
    /\ job.src \in 0 .. Len(log)
    /\ pc \in {"down", "replay", "poll", "take"} => job = NoJob
    /\ job.from = "none" => pc \in {"down", "replay", "poll", "take"}
    /\ job.from = "input" => job.src # 0 /\ job.src >= offset
    /\ job.from # "input" => job.src = 0 /\ Len(job.outs) <= 1
    /\ pc \in {"save", "followup"} => job.from = "input"
    /\ pc = "resolve" => job.src <= offset
    /\ pc \in {"save", "resolve"} => job.outs = << >>
    /\ pc \in {"stage", "append", "unlink"} => job.outs # << >>
    /\ pc = "plan" => job.from = "tick" /\ job.done = {} /\ ~job.more
    /\ job.from = "tick" => job.task \in Tasks /\ rounds[job.task] # None /\ Unread = {}

\* An output that is still to be published.
OutOK(e) ==
    /\ Output(e)
    /\ e.type = "assignment_completed" /\ job.from # "replay" => ReceiptOf(job.src, e)
    /\ e.type = "task_assigned" => job.from \in {"tick", "replay"}
    /\ job.from = "tick" => e.task = job.task
    /\ byKey[e.key] = 0 \/ outbox[e.key] # None \/ e.type \in TerminalTypes \/ Rebuilt(e)
    /\ job.from = "replay" => outbox[e.key] # None /\ outbox[e.key].src <= offset

\* Its file, once it is staged.
FiledOK ==
    /\ pc \in {"append", "unlink"} => outbox[Current.key] # None
    /\ pc = "unlink" => Current.key \in refused /\ byKey[Current.key] = 0

\* A published output: it is on the Blackboard, or its task has ended.
Settled(e) ==
    e.type \in TerminalTypes /\ byTerminal[<<e.task, e.rev>>] # 0

DoneOK(k) ==
    /\ outbox[k] # None
    /\ byKey[k] # 0 \/ Settled(outbox[k].event)
    /\ outbox[k].event.type = "assignment_completed" =>
          outbox[k].src <= offset \/ outbox[k].src = job.src

\* A completion that is to be followed up is one of the current plan.
MoreOK ==
    /\ pc = "followup" => job.more
    /\ job.more =>
          /\ job.src \in DOMAIN log /\ log[job.src].type = "receipt"
          /\ view[<<log[job.src].task, log[job.src].rev>>].plan # None
          /\ \A i \in DOMAIN job.outs : job.outs[i].type = "assignment_completed"

JobInv ==
    /\ JobShape
    /\ \A i \in DOMAIN job.outs : OutOK(job.outs[i])
    /\ FiledOK
    /\ \A k \in job.done : DoneOK(k)
    /\ MoreOK

\* The assignment a round of the list would lead to.
AssignKey(t) == <<"assignment", t, rounds[t].rev, rounds[t].epoch>>

Closing(t) == pc = "resolve" /\ job.from = "tick" /\ job.task = t

RoundsShape ==
    /\ rounds = [t \in Tasks |-> rounds[t]]
    /\ \A t \in Tasks : rounds[t] # None =>
          rounds[t].rev \in Revs /\ rounds[t].epoch \in Nat \ {0}

\* How far the log has been read.
ReadUpTo == IF pc = "save" THEN job.src ELSE offset

OpeningRead(t, r, ep) ==
    \E n \in DOMAIN log :
        /\ n <= ReadUpTo /\ log[n].type = "bid_round_opened"
        /\ log[n].task = t /\ log[n].rev = r /\ log[n].epoch = ep

NothingPublished ==
    pc \in {"down", "replay"} =>
        /\ \A k \in Keys : outbox[k] = None
        /\ \A n \in DOMAIN log : log[n].type # "bid_round_opened"

RoundsOpened ==
    \A t \in Tasks : rounds[t] # None => OpeningRead(t, rounds[t].rev, rounds[t].epoch)

PlansOpened ==
    \A n \in DOMAIN log : log[n].type = "task_assigned" =>
        OpeningRead(log[n].task, log[n].rev, log[n].epoch)

\* A plan in hand is the plan of the round being closed.
PlanInHand ==
    \A i \in DOMAIN job.outs :
        job.outs[i].type = "task_assigned" => job.outs[i].key = AssignKey(job.task)

RoundsUnplanned ==
    \A t \in Tasks : rounds[t] # None /\ ~Closing(t) => byKey[AssignKey(t)] = 0

\* Before the first crash every round is listed once: when its opening is read.
FirstLife ==
    /\ NothingPublished /\ job.from # "replay"
    /\ RoundsOpened /\ PlansOpened /\ PlanInHand /\ RoundsUnplanned

RoundInv == RoundsShape /\ (crashes = 0 => FirstLife)

Inv == LogInv /\ BaseInv /\ FileInv /\ JobInv /\ RoundInv

-----------------------------------------------------------------------------
(* What a commit does to the indexes.                                      *)

LEMMA BoardSame ==
    ASSUME LogInv, UNCHANGED board
    PROVE  LogInv'
<1>1. /\ log' = log /\ byId' = byId /\ byKey' = byKey /\ byTerminal' = byTerminal
      /\ view' = view
  BY DEF board
<1>2. LogShape' /\ IndexesOK' /\ ViewsOK'
  BY <1>1 DEF LogInv, LogShape, Known, Named, Keyed, IndexesOK, ViewsOK, ViewOK
<1>3. EpochsBehind' /\ RoundsBehind' /\ CausesConsumed' /\ RoundsFirst'
  BY <1>1 DEF LogInv, EpochsBehind, EpochBehind, OfType, RoundsBehind, CausesConsumed, RoundsFirst
<1>4. CompletionsAnswer'
  BY <1>1 DEF LogInv, CompletionsAnswer, ReceiptOf
<1>5. QED
  BY <1>2, <1>3, <1>4 DEF LogInv

LEMMA KeysGrow ==
    ASSUME LogInv, NEW e \in Event, Bd!Outcome(e) = "APPENDED", Bd!Commit(e)
    PROVE  /\ \A k \in Keys : byKey[k] # 0 =>
                 byKey'[k] = byKey[k] /\ byKey[k] \in DOMAIN log
           /\ \A k \in Keys : k # e.key => byKey'[k] = byKey[k]
           /\ e.key # None => byKey[e.key] = 0 /\ byKey'[e.key] = Len(log) + 1
           /\ \A tr \in TaskRevs : byTerminal[tr] # 0 => byTerminal'[tr] # 0
<1>1. /\ byKey \in [Keys -> Nat] /\ byTerminal \in [TaskRevs -> Nat]
      /\ \A k \in Keys : byKey[k] # 0 => byKey[k] \in DOMAIN log
  BY DEF LogInv, IndexesOK
<1>2. e.key \in Keys \cup {None}
  BY EventShape
<1>3. Len(log) \in Nat
  BY Grows
<1>4. /\ byKey' = IF e.key = None THEN byKey ELSE [byKey EXCEPT ![e.key] = Len(log) + 1]
      /\ byTerminal' = IF e.type \in TerminalTypes
                       THEN [byTerminal EXCEPT ![<<e.task, e.rev>>] = Len(log) + 1]
                       ELSE byTerminal
      /\ e.key # None => byKey[e.key] = 0
  BY Committed
<1> DEFINE n == Len(log) + 1
<1>5. n # 0
  BY <1>3
<1>6. /\ byKey' = IF e.key = None THEN byKey ELSE [byKey EXCEPT ![e.key] = n]
      /\ byTerminal' = IF e.type \in TerminalTypes
                       THEN [byTerminal EXCEPT ![<<e.task, e.rev>>] = n] ELSE byTerminal
  BY <1>4
<1> HIDE DEF n
<1>7. \A tr \in TaskRevs : byTerminal[tr] # 0 => byTerminal'[tr] # 0
  BY <1>1, <1>5, <1>6
<1>8. \A k \in Keys : k # e.key => byKey'[k] = byKey[k]
  BY <1>1, <1>6
<1>9. e.key # None => byKey[e.key] = 0 /\ byKey'[e.key] = n
  BY <1>1, <1>2, <1>4, <1>6
<1>10. \A k \in Keys : byKey[k] # 0 => byKey'[k] = byKey[k] /\ byKey[k] \in DOMAIN log
  <2>1. SUFFICES ASSUME NEW k \in Keys, byKey[k] # 0 PROVE k # e.key
    BY <1>1, <1>8
  <2>2. k # None
    BY NoneAssumption
  <2>3. QED
    BY <1>9, <2>1, <2>2
<1>11. QED
  BY <1>7, <1>8, <1>9, <1>10 DEF n

\* The first words of the keys of outputs.
OutputKinds ==
    {"bid-round", "assignment", "assignment-completed", "task-terminal", "replan"}

LEMMA OutputKind ==
    ASSUME NEW e, Output(e)
    PROVE  e.key \in Keys /\ e.key # None /\ e.key[1] \in OutputKinds
<1>1. e.key[1] \in OutputKinds
  BY DEF Output, Named, Keyed, OutputTypes, TerminalTypes, OutputKinds
<1>2. QED
  BY <1>1, NoneAssumption DEF Output, Named

\* The key of an output is taken by an event like it.
LEMMA Holder ==
    ASSUME LogInv, NEW e, Named(e), byKey[e.key] # 0
    PROVE  /\ byKey[e.key] \in DOMAIN log /\ Named(log[byKey[e.key]])
           /\ log[byKey[e.key]].key = e.key
<1>1. byKey[e.key] \in DOMAIN log /\ log[byKey[e.key]].key = e.key
  BY DEF LogInv, IndexesOK, Named
<1>2. Known(log[byKey[e.key]])
  BY <1>1 DEF LogInv, LogShape
<1>3. log[byKey[e.key]] \notin Offered
  BY <1>1, OwnName
<1>4. QED
  BY <1>1, <1>2, <1>3 DEF Known

\* An action is reported once.
LEMMA ReceiptOnce ==
    ASSUME LogInv, NEW n \in DOMAIN log, NEW m \in DOMAIN log,
           log[n].type = "receipt", log[m].type = "receipt",
           log[n].task = log[m].task, log[n].rev = log[m].rev,
           log[n].epoch = log[m].epoch, log[n].asg = log[m].asg
    PROVE  n = m
<1>1. Named(log[n]) /\ Named(log[m])
  BY OfferedAssumption DEF LogInv, LogShape, Known
<1>2. log[n].key = log[m].key /\ log[n].key # None
  BY <1>1, NoneAssumption DEF Named, Keyed, RobotTypes, OutputTypes, TerminalTypes
<1>3. QED
  BY <1>2 DEF LogInv, IndexesOK

LEMMA RoundFresh ==
    ASSUME NamesAvailable, LogInv, crashes \in Nat, NEW tr \in TaskRevs
    PROVE  byKey[RoundOpened(tr, view[tr].epoch + 1).key] = 0
<1> DEFINE e == RoundOpened(tr, view[tr].epoch + 1)
<1>1. view[tr].epoch \in Nat /\ view[tr].epoch + 1 \in Nat \ {0}
  BY DEF LogInv, ViewsOK, View
<1>2. Named(e) /\ e.type = "bid_round_opened" /\ e.task = tr[1] /\ e.rev = tr[2]
      /\ e.epoch = view[tr].epoch + 1
  BY <1>1, RoundNamed DEF Output
<1> HIDE DEF e
<1>3. ASSUME byKey[e.key] # 0 PROVE FALSE
  <2> DEFINE f == log[byKey[e.key]]
  <2>1. byKey[e.key] \in DOMAIN log /\ Named(f) /\ f.key = e.key
    BY <1>2, <1>3, Holder
  <2>2. f.task = tr[1] /\ f.rev = tr[2] /\ f.type = "bid_round_opened" /\ f.epoch = e.epoch
    <3> HIDE DEF f
    <3>1. f.type \in TerminalTypes <=> e.type \in TerminalTypes
      BY <1>2, <2>1, SameKey
    <3>2. f.type = e.type
      BY <1>2, <2>1, <3>1, SameKey DEF TerminalTypes
    <3>3. QED
      BY <1>2, <2>1, <3>2, SameKey
  <2>3. OfType(f, "bid_round_opened", tr)
    BY <2>2 DEF OfType, TaskRevs
  <2>4. f.epoch <= view[tr].epoch
    BY <2>1, <2>3 DEF LogInv, RoundsBehind
  <2>5. QED
    BY <1>1, <1>2, <2>2, <2>4
<1>4. QED
  BY <1>3 DEF e

LEMMA ReplanFresh ==
    ASSUME NamesAvailable, LogInv, NEW tr \in TaskRevs, view[tr].pending # {}
    PROVE  Output(Replan(tr)) /\ Replan(tr).type = "task_replan" /\ byKey[Replan(tr).key] = 0
<1> DEFINE e == Replan(tr)
<1>1. view[tr] \in View /\ view[tr].pending \in SUBSET ClueIds
  BY DEF LogInv, ViewsOK, ViewOK
<1>2. Cause(tr) \in view[tr].pending
  BY CausePending
<1>3. Output(e) /\ e.type = "task_replan" /\ e.task = tr[1] /\ e.rev = tr[2]
      /\ e.cause = Cause(tr)
  BY <1>1, <1>2, ReplanNamed
<1> HIDE DEF e
<1>4. ASSUME byKey[e.key] # 0 PROVE FALSE
  <2> DEFINE f == log[byKey[e.key]]
  <2>1. byKey[e.key] \in DOMAIN log /\ Named(f) /\ f.key = e.key /\ Named(e)
    BY <1>3, <1>4, Holder DEF Output
  <2>2. f.task = tr[1] /\ f.rev = tr[2] /\ f.type = "task_replan" /\ f.cause = e.cause
    <3> HIDE DEF f
    <3>1. f.type \in TerminalTypes <=> e.type \in TerminalTypes
      BY <2>1, SameKey
    <3>2. f.type = e.type
      BY <1>3, <2>1, <3>1, SameKey DEF TerminalTypes
    <3>3. QED
      BY <1>3, <2>1, <3>2, SameKey
  <2>3. OfType(f, "task_replan", tr)
    BY <2>2 DEF OfType, TaskRevs
  <2>4. f.cause \notin view[tr].pending
    BY <2>1, <2>3 DEF LogInv, CausesConsumed
  <2>5. QED
    BY <1>2, <1>3, <2>2, <2>4
<1>5. QED
  BY <1>3, <1>4 DEF e

-----------------------------------------------------------------------------
(* Commits and the files of the outbox.                                    *)

LEMMA CompletionKind ==
    ASSUME NEW e, Named(e), NEW r, e.key = CompletionKey(r)
    PROVE  /\ e.type = "assignment_completed" /\ e.task = r.task /\ e.rev = r.rev
           /\ e.epoch = r.epoch /\ e.asg = r.asg
<1>1. e.key[1] = "assignment-completed" /\ CompletionKey(r)[2] = r.task
      /\ CompletionKey(r)[3] = r.rev /\ CompletionKey(r)[4] = r.epoch
      /\ CompletionKey(r)[5] = r.asg
  BY DEF CompletionKey
<1>2. e.type = "assignment_completed"
  BY <1>1 DEF Named, Keyed, OutputTypes, RobotTypes, TerminalTypes
<1>3. e.key = <<"assignment-completed", e.task, e.rev, e.epoch, e.asg>>
  BY <1>2 DEF Named, Keyed
<1>4. QED
  BY <1>1, <1>2, <1>3

LEMMA AssignmentKind ==
    ASSUME NEW e, Named(e), NEW t, NEW r, NEW ep, e.key = <<"assignment", t, r, ep>>
    PROVE  e.type = "task_assigned" /\ e.task = t /\ e.rev = r /\ e.epoch = ep
<1>1. e.key[1] = "assignment"
  OBVIOUS
<1>2. e.type = "task_assigned"
  BY <1>1 DEF Named, Keyed, OutputTypes, RobotTypes, TerminalTypes
<1>3. e.key = <<"assignment", e.task, e.rev, e.epoch>>
  BY <1>2 DEF Named, Keyed
<1>4. QED
  BY <1>2, <1>3

\* A key of the Coordinator or the robots is held by one of their events.
LEMMA OwnKeyHeld ==
    ASSUME NEW e, Known(e), e.key # None, e.key[1] \in OwnKinds
    PROVE  Named(e)
  BY OfferedAssumption DEF Known

LEMMA CompletionAnswers ==
    ASSUME LogInv, NEW r, CompletionKey(r) \in Keys, byKey[CompletionKey(r)] # 0
    PROVE  \E n \in DOMAIN log : ReceiptOf(n, r)
<1> DEFINE k == CompletionKey(r)
           m == byKey[k]
<1>1. m \in DOMAIN log /\ log[m].key = k /\ Known(log[m])
  BY DEF LogInv, IndexesOK, LogShape
<1>2. k # None /\ k[1] \in OwnKinds
  BY NoneAssumption DEF CompletionKey, OwnKinds
<1> HIDE DEF k, m
<1>3. Named(log[m])
  BY <1>1, <1>2, OwnKeyHeld
<1>4. /\ log[m].type = "assignment_completed" /\ log[m].task = r.task /\ log[m].rev = r.rev
      /\ log[m].epoch = r.epoch /\ log[m].asg = r.asg
  BY <1>1, <1>3, CompletionKind DEF k
<1>5. PICK n \in DOMAIN log : ReceiptOf(n, log[m])
  BY <1>1, <1>4 DEF LogInv, CompletionsAnswer
<1>6. QED
  BY <1>4, <1>5 DEF ReceiptOf

LEMMA ReceiptNew ==
    ASSUME LogInv, NEW e, Known(e), e.type = "receipt", Bd!Outcome(e) = "APPENDED", Bd!Commit(e)
    PROVE  \A n \in DOMAIN log : ~ReceiptOf(n, e)
<1>1. SUFFICES ASSUME NEW n \in DOMAIN log, ReceiptOf(n, e) PROVE FALSE
  OBVIOUS
<1>2. Named(log[n]) /\ Named(e)
  BY <1>1, OfferedAssumption DEF LogInv, LogShape, Known, ReceiptOf
<1>3. log[n].key = e.key /\ e.key # None
  BY <1>1, <1>2, NoneAssumption DEF ReceiptOf, Named, Keyed, RobotTypes, OutputTypes, TerminalTypes
<1>4. byKey[e.key] = 0
  BY <1>2, <1>3, Committed DEF Named
<1>5. byKey[e.key] = n /\ n # 0
  BY <1>3 DEF LogInv, IndexesOK, LogShape
<1>6. QED
  BY <1>4, <1>5

LEMMA CommitFiles ==
    ASSUME LogInv, FileInv, NEW e, Known(e), Bd!Outcome(e) = "APPENDED", Bd!Commit(e),
           offset' = offset, outbox' = outbox, crashes' = crashes,
           \A k \in Keys : k = e.key /\ outbox[k] # None => outbox[k].event = e,
           e.type = "assignment_completed" => outbox[e.key] # None
    PROVE  FileInv'
<1>0. e \in Event
  BY DEF Known
<1>1. /\ Len(log) \in Nat /\ DOMAIN log = 1 .. Len(log) /\ Len(log') = Len(log) + 1
      /\ \A n \in DOMAIN log : log'[n] = log[n]
      /\ log'[Len(log) + 1] = e
      /\ \A n \in DOMAIN log' : n \in DOMAIN log \/ (n = Len(log) + 1 /\ log'[n] = e)
  BY <1>0, Grows
<1>2. /\ \A k \in Keys : byKey[k] # 0 => byKey'[k] = byKey[k] /\ byKey[k] \in DOMAIN log
      /\ \A k \in Keys : k # e.key => byKey'[k] = byKey[k]
      /\ e.key # None => byKey[e.key] = 0 /\ byKey'[e.key] = Len(log) + 1
  BY <1>0, KeysGrow
<1>3. FilesShape'
  <2>1. SUFFICES ASSUME NEW k \in Keys, outbox[k] # None PROVE FileOK(k, outbox[k])'
    BY DEF FileInv, FilesShape, FileOK, ReceiptOf, Output, Named, Keyed
  <2>2. FileOK(k, outbox[k])
    BY <2>1 DEF FileInv, FilesShape
  <2>3. ReceiptOf(outbox[k].src, outbox[k].event) => ReceiptOf(outbox[k].src, outbox[k].event)'
    BY <1>0, Grows DEF ReceiptOf
  <2>4. outbox[k].src \in 0 .. Len(log')
    BY <1>1, <2>2 DEF FileOK
  <2>5. QED
    BY <2>2, <2>3, <2>4 DEF FileOK, Output, Named, Keyed
<1>4. FilesAgree'
  <2>1. SUFFICES ASSUME NEW k \in Keys, outbox[k] # None, byKey'[k] # 0
                 PROVE  \/ log'[byKey'[k]] = outbox[k].event
                        \/ outbox[k].event.type \in TerminalTypes
                        \/ Rebuilt(outbox[k].event)
    BY DEF FilesAgree, Rebuilt
  <2>2. CASE k = e.key
    BY <1>1, <1>2, <2>1, <2>2, NoneAssumption
  <2>3. CASE k # e.key
    <3>1. byKey'[k] = byKey[k] /\ byKey[k] \in DOMAIN log /\ byKey[k] # 0
      BY <1>2, <2>1, <2>3
    <3>2. QED
      BY <1>1, <2>1, <3>1 DEF FileInv, FilesAgree
  <2>4. QED
    BY <2>2, <2>3
<1>5. CompletionsFiled'
  <2>1. SUFFICES ASSUME NEW n \in DOMAIN log', n > offset, log'[n].type = "receipt",
                        CompletionKey(log'[n]) \in Keys, byKey'[CompletionKey(log'[n])] # 0
                 PROVE  outbox[CompletionKey(log'[n])] # None
    BY DEF CompletionsFiled, CompletionKey
  <2> DEFINE r == log'[n]
             k == CompletionKey(r)
  <2>2. CASE k = e.key
    <3>1. e.key # None /\ e.key[1] \in OwnKinds
      BY <2>1, <2>2, NoneAssumption DEF CompletionKey, OwnKinds
    <3>2. Named(e)
      BY <3>1, OwnKeyHeld
    <3>3. e.type = "assignment_completed"
      BY <2>2, <3>2, CompletionKind
    <3>4. QED
      BY <2>2, <3>3
  <2>3. CASE k # e.key
    <3>1. byKey[k] # 0
      BY <1>2, <2>1, <2>3
    <3>2. n \in DOMAIN log
      <4>1. SUFFICES ASSUME n \notin DOMAIN log PROVE FALSE
        OBVIOUS
      <4>2. r = e
        BY <1>1, <2>1, <4>1
      <4>3. \E m \in DOMAIN log : ReceiptOf(m, r)
        BY <2>1, <3>1, CompletionAnswers
      <4>4. QED
        BY <2>1, <4>2, <4>3, ReceiptNew
    <3>3. QED
      BY <1>1, <2>1, <3>1, <3>2 DEF FileInv, CompletionsFiled
  <2>4. QED
    BY <2>2, <2>3
<1>6. QED
  BY <1>3, <1>4, <1>5 DEF FileInv

LEMMA UnreadSame ==
    ASSUME LogInv, BaseInv, NEW e \in Event, Bd!Outcome(e) = "APPENDED", Bd!Commit(e),
           offset' = offset, upto' = upto
    PROVE  Unread' = Unread
<1>1. /\ Len(log) \in Nat /\ DOMAIN log = 1 .. Len(log)
      /\ \A n \in DOMAIN log : log'[n] = log[n]
  BY Grows
<1>2. \A n \in offset + 1 .. upto : log'[n] = log[n]
  BY <1>1 DEF BaseInv
<1>3. QED
  BY <1>2 DEF Unread, Batch

-----------------------------------------------------------------------------
(* The steps of the other actors.                                          *)

LEMMA OthersKeep ==
    ASSUME LogInv, NEW e, Known(e), e \in Offered \/ e.type \in RobotTypes,
           Bd!Outcome(e) = "APPENDED", Bd!Commit(e)
    PROVE  \A k \in Keys : k[1] \in OutputKinds => k # e.key /\ byKey'[k] = byKey[k]
<1>1. e.key # None => e.key[1] \notin OutputKinds
  <2>1. CASE e \in Offered
    BY <2>1, OfferedAssumption DEF OutputKinds, OwnKinds
  <2>2. CASE e \notin Offered
    <3>1. Named(e) /\ e.type \in RobotTypes
      BY <2>2 DEF Known
    <3>2. QED
      BY <3>1 DEF Named, Keyed, RobotTypes, OutputKinds
  <2>3. QED
    BY <2>1, <2>2
<1>2. \A k \in Keys : k # None
  BY NoneAssumption
<1>3. QED
  BY <1>1, <1>2, KeysGrow DEF Known

LEMMA OthersStep ==
    ASSUME NamesAvailable, Inv, NEW e, Known(e), e \in Offered \/ e.type \in RobotTypes,
           Bd!Outcome(e) = "APPENDED", Bd!Commit(e),
           UNCHANGED <<durable, memory, pc, job, crashes>>,
           \A w \in decided' : ActionShape(w)
    PROVE  Inv'
<1>0. e \in Event /\ e.type \notin OutputTypes /\ e.type \notin PlanTypes
  BY OfferedAssumption DEF Known, OutputTypes, RobotTypes, TerminalTypes, PlanTypes
<1>1. /\ offset' = offset /\ outbox' = outbox /\ refused' = refused /\ rounds' = rounds
      /\ known' = known /\ upto' = upto /\ pc' = pc /\ job' = job /\ crashes' = crashes
  BY DEF durable, memory
<1>2. LogInv /\ BaseInv /\ FileInv /\ JobInv /\ RoundInv
  BY DEF Inv
<1>3. /\ Len(log) \in Nat /\ DOMAIN log = 1 .. Len(log) /\ Len(log') = Len(log) + 1
      /\ \A n \in DOMAIN log : log'[n] = log[n] /\ n \in DOMAIN log'
      /\ log'[Len(log) + 1] = e
      /\ \A n \in DOMAIN log' : n \in DOMAIN log \/ (n = Len(log) + 1 /\ log'[n] = e)
  BY <1>0, <1>2, Grows
<1>4. \A k \in Keys : k[1] \in OutputKinds => k # e.key /\ byKey'[k] = byKey[k]
  BY <1>2, OthersKeep
<1>5. LogInv'
  <2>1. e.type = "assignment_completed" => \E n \in DOMAIN log : ReceiptOf(n, e)
    BY <1>0 DEF OutputTypes
  <2>2. QED
    BY <1>2, <2>1, LogStep
<1>6. BaseInv'
  BY <1>1, <1>2, <1>3 DEF BaseInv, ActionShape
<1>7. FileInv'
  <2>1. \A k \in Keys : k = e.key /\ outbox[k] # None => outbox[k].event = e
    <3>1. SUFFICES ASSUME NEW k \in Keys, k = e.key, outbox[k] # None PROVE FALSE
      OBVIOUS
    <3>2. Output(outbox[k].event) /\ outbox[k].event.key = k
      BY <1>2, <3>1 DEF FileInv, FilesShape, FileOK
    <3>3. k[1] \in OutputKinds
      BY <3>2, OutputKind
    <3>4. QED
      BY <1>4, <3>1, <3>3
  <2>2. e.type = "assignment_completed" => outbox[e.key] # None
    BY <1>0 DEF OutputTypes
  <2>3. QED
    BY <1>1, <1>2, <2>1, <2>2, CommitFiles
<1>8. Unread' = Unread
  BY <1>0, <1>1, <1>2, UnreadSame
<1>9. \A n, f : ReceiptOf(n, f) => ReceiptOf(n, f)'
  BY <1>0, <1>2, ReceiptStays
<1>10. JobInv'
  <2>1. JobShape /\ FiledOK /\ MoreOK /\ (\A i \in DOMAIN job.outs : OutOK(job.outs[i]))
        /\ (\A k \in job.done : DoneOK(k))
    BY <1>2 DEF JobInv
  <2>2. JobShape'
    BY <1>1, <1>2, <1>3, <1>8, <2>1 DEF JobShape, JobType, Origins, NoJob, BaseInv
  <2>3. ASSUME NEW i \in DOMAIN job.outs PROVE OutOK(job.outs[i])'
    <3>1. OutOK(job.outs[i])
      BY <2>1
    <3>2. byKey'[job.outs[i].key] = byKey[job.outs[i].key]
      BY <1>4, <3>1, OutputKind DEF OutOK
    <3>3. QED
      BY <1>1, <1>9, <3>1, <3>2 DEF OutOK, Rebuilt, Output, Named, Keyed
  <2>4. FiledOK'
    <3>1. ASSUME pc = "unlink" PROVE byKey'[Current.key] = byKey[Current.key]
      <4>1. job.outs # << >> /\ job.outs \in Seq(Event)
        BY <2>1, <3>1 DEF JobShape, JobType
      <4>2. 1 \in DOMAIN job.outs /\ Current = job.outs[1]
        BY <4>1 DEF Current
      <4>3. Output(Current)
        BY <2>1, <4>2 DEF OutOK
      <4>4. QED
        BY <1>4, <4>3, OutputKind
    <3>2. QED
      BY <1>1, <2>1, <3>1 DEF FiledOK, Current
  <2>5. ASSUME NEW k \in job.done PROVE DoneOK(k)'
    <3>1. DoneOK(k) /\ k \in Keys
      BY <2>1 DEF JobShape, JobType
    <3>2. byKey[k] # 0 => byKey'[k] # 0
      BY <1>0, <1>2, <3>1, KeysGrow
    <3>3. Settled(outbox[k].event) => Settled(outbox[k].event)'
      <4>1. Output(outbox[k].event)
        BY <1>2, <3>1 DEF FileInv, FilesShape, FileOK, DoneOK
      <4>2. ASSUME Settled(outbox[k].event)
            PROVE  <<outbox[k].event.task, outbox[k].event.rev>> \in TaskRevs
        <5>1. outbox[k].event \in Event /\ outbox[k].event.type \notin {"clue", "estop"}
          BY <4>1, <4>2 DEF Output, Named, Settled, TerminalTypes
        <5>2. QED
          BY <5>1, EventShape DEF TaskRevs
      <4>3. \A tr \in TaskRevs : byTerminal[tr] # 0 => byTerminal'[tr] # 0
        BY <1>0, <1>2, KeysGrow
      <4>4. QED
        BY <1>1, <4>2, <4>3 DEF Settled
    <3>4. QED
      BY <1>1, <3>1, <3>2, <3>3 DEF DoneOK
  <2>6. MoreOK'
    <3>1. SUFFICES ASSUME job.more PROVE MoreOK'
      BY <1>1, <2>1 DEF MoreOK
    <3> DEFINE r == log[job.src]
               tr == <<r.task, r.rev>>
    <3>2. job.src \in DOMAIN log /\ r.type = "receipt" /\ view[tr].plan # None
      BY <2>1, <3>1 DEF MoreOK
    <3>3. tr \in TaskRevs
      <4>1. r \in Event
        BY <1>2, <3>2 DEF LogInv, LogShape
      <4>2. QED
        BY <3>2, <4>1, EventShape DEF TaskRevs
    <3> HIDE DEF tr
    <3>4. view'[tr].plan # None
      <4>1. /\ view[tr] \in View
            /\ tr = Bd!Target(e) => view'[tr] = Apply(view[tr], e) /\ Accepted(view[tr], e)
            /\ tr # Bd!Target(e) => view'[tr] = view[tr]
        BY <1>0, <1>2, <3>3, ViewStep
      <4>2. Apply(view[tr], e).plan = view[tr].plan
        BY <1>0, <4>1, OthersKeepPlan
      <4>3. QED
        BY <3>2, <4>1, <4>2 DEF tr
    <3>5. log'[job.src] = log[job.src] /\ job.src \in DOMAIN log'
      BY <1>3, <3>2
    <3>6. QED
      BY <1>1, <2>1, <3>2, <3>4, <3>5 DEF MoreOK, tr
  <2>7. QED
    BY <1>1, <2>2, <2>3, <2>4, <2>5, <2>6 DEF JobInv
<1>11. RoundInv'
  <2>1. RoundsShape /\ RoundsShape'
    BY <1>1, <1>2 DEF RoundInv, RoundsShape
  <2>2. SUFFICES ASSUME crashes = 0, FirstLife PROVE FirstLife'
    BY <1>1, <1>2, <2>1 DEF RoundInv
  <2>3. ReadUpTo' = ReadUpTo
    BY <1>1 DEF ReadUpTo
  <2>4. \A t, r, ep : OpeningRead(t, r, ep) => OpeningRead(t, r, ep)'
    BY <1>3, <2>3 DEF OpeningRead
  <2>5. e.type \notin {"bid_round_opened", "task_assigned"}
    BY <1>0 DEF OutputTypes
  <2>6. NothingPublished' /\ job'.from # "replay" /\ PlanInHand'
    BY <1>1, <1>3, <2>2, <2>5 DEF FirstLife, NothingPublished, PlanInHand, AssignKey
  <2>7. RoundsOpened'
    BY <1>1, <2>2, <2>4 DEF FirstLife, RoundsOpened
  <2>8. PlansOpened'
    <3>1. SUFFICES ASSUME NEW n \in DOMAIN log', NEW f, f = log'[n],
                          f.type = "task_assigned"
                   PROVE  OpeningRead(f.task, f.rev, f.epoch)'
      BY DEF PlansOpened, OpeningRead
    <3>2. n \in DOMAIN log /\ f = log[n]
      BY <1>3, <2>5, <3>1
    <3>3. OpeningRead(f.task, f.rev, f.epoch)
      BY <2>2, <3>1, <3>2 DEF FirstLife, PlansOpened
    <3>4. QED
      BY <2>4, <3>3
  <2>9. RoundsUnplanned'
    <3>1. SUFFICES ASSUME NEW t \in Tasks, rounds[t] # None, ~Closing(t)
                   PROVE  byKey'[AssignKey(t)'] = 0
      BY <1>1 DEF RoundsUnplanned, Closing
    <3>2. AssignKey(t)' = AssignKey(t)
      BY <1>1 DEF AssignKey
    <3>3. AssignKey(t) \in Keys /\ AssignKey(t)[1] \in OutputKinds
      BY <2>1, <3>1 DEF RoundsShape, NamesAvailable, AssignKey, OutputKinds
    <3>4. byKey'[AssignKey(t)] = byKey[AssignKey(t)]
      BY <1>4, <3>3
    <3>5. QED
      BY <2>2, <3>1, <3>2, <3>4 DEF FirstLife, RoundsUnplanned
  <2>10. QED
    BY <2>6, <2>7, <2>8, <2>9 DEF FirstLife
<1>12. QED
  BY <1>5, <1>6, <1>7, <1>10, <1>11 DEF Inv

LEMMA ExternalStep ==
    ASSUME NamesAvailable, Inv, NEW e \in Offered, External(e)
    PROVE  Inv'
<1>1. Known(e)
  BY OfferedAssumption DEF Known
<1>2. Bd!Outcome(e) = "APPENDED" /\ Bd!Commit(e)
      /\ UNCHANGED <<durable, memory, pc, job, crashes>> /\ decided' = decided
  BY DEF External, Arrive
<1>3. \A w \in decided' : ActionShape(w)
  BY <1>2 DEF Inv, BaseInv
<1>4. QED
  BY <1>1, <1>2, <1>3, OthersStep

LEMMA SubmitStep ==
    ASSUME NamesAvailable, Inv, Submit
    PROVE  Inv'
<1>1. PICK w \in decided : Arrive(AgentEvent("action_intent", w)) /\ decided' = decided
  BY DEF Submit
<1> DEFINE e == AgentEvent("action_intent", w)
<1>2. ActionShape(w) /\ \A x \in decided' : ActionShape(x)
  BY <1>1 DEF Inv, BaseInv
<1>3. Named(e) /\ e.type = "action_intent"
  BY <1>2, AgentNamed
<1>4. Known(e) /\ e.type \in RobotTypes
  BY <1>3 DEF Known, Named, RobotTypes
<1>5. Bd!Outcome(e) = "APPENDED" /\ Bd!Commit(e)
      /\ UNCHANGED <<durable, memory, pc, job, crashes>>
  BY <1>1 DEF Arrive
<1> HIDE DEF e
<1>6. QED
  BY <1>2, <1>4, <1>5, OthersStep

LEMMA IntentShape ==
    ASSUME Inv, NEW n \in DOMAIN log, log[n].type = "action_intent"
    PROVE  ActionShape(log[n])
<1>1. log[n] \in Event
  BY DEF Inv, LogInv, LogShape
<1>2. log[n].epoch \in Nat \ {0} /\ log[n].plan \in PlanIds /\ log[n].asg \in AssignmentIds
  BY <1>1, WorkShape
<1>3. log[n].task \in Tasks /\ log[n].rev \in Revs
  BY <1>1, EventShape
<1>4. QED
  BY <1>2, <1>3 DEF ActionShape

LEMMA ReportStep ==
    ASSUME NamesAvailable, Inv, Report
    PROVE  Inv'
<1>1. PICK n \in DOMAIN log : log[n].type = "action_intent" /\ \E good \in BOOLEAN :
          Arrive(Receipt(log[n], good)) /\ decided' = decided
  BY DEF Report
<1>2. PICK good \in BOOLEAN : Arrive(Receipt(log[n], good)) /\ decided' = decided
  BY <1>1
<1> DEFINE e == Receipt(log[n], good)
<1>3. ActionShape(log[n]) /\ \A x \in decided' : ActionShape(x)
  BY <1>1, <1>2, IntentShape DEF Inv, BaseInv
<1>4. Named(e) /\ e.type = "receipt"
  BY <1>3, ReceiptNamed
<1>5. Known(e) /\ e.type \in RobotTypes
  BY <1>4 DEF Known, Named, RobotTypes
<1>6. Bd!Outcome(e) = "APPENDED" /\ Bd!Commit(e)
      /\ UNCHANGED <<durable, memory, pc, job, crashes>>
  BY <1>2 DEF Arrive
<1> HIDE DEF e
<1>7. QED
  BY <1>3, <1>5, <1>6, OthersStep

LEMMA InterceptStep ==
    ASSUME NamesAvailable, Inv, Intercept
    PROVE  Inv'
<1>1. PICK n \in DOMAIN log : log[n].type = "action_intent"
          /\ Arrive(AgentEvent("safety_intercept", log[n])) /\ decided' = decided
  BY DEF Intercept
<1> DEFINE e == AgentEvent("safety_intercept", log[n])
<1>2. ActionShape(log[n]) /\ \A x \in decided' : ActionShape(x)
  BY <1>1, IntentShape DEF Inv, BaseInv
<1>3. Named(e) /\ e.type = "safety_intercept"
  BY <1>2, AgentNamed
<1>4. Known(e) /\ e.type \in RobotTypes
  BY <1>3 DEF Known, Named, RobotTypes
<1>5. Bd!Outcome(e) = "APPENDED" /\ Bd!Commit(e)
      /\ UNCHANGED <<durable, memory, pc, job, crashes>>
  BY <1>1 DEF Arrive
<1> HIDE DEF e
<1>6. QED
  BY <1>2, <1>4, <1>5, OthersStep

-----------------------------------------------------------------------------
(* What a step of the Coordinator keeps while the Blackboard stays the same. *)

LEMMA FilesSame ==
    ASSUME FileInv, UNCHANGED board, offset' = offset, outbox' = outbox,
           crashes' = crashes \/ crashes' > 0
    PROVE  FileInv'
<1>1. log' = log /\ byKey' = byKey
  BY DEF board
<1>2. FilesShape' /\ FilesAgree' /\ CompletionsFiled'
  BY <1>1 DEF Rebuilt, FileInv, FilesShape, FileOK, Output, Named, Keyed, ReceiptOf, FilesAgree,
              CompletionsFiled, CompletionKey
<1>3. QED
  BY <1>2 DEF FileInv

LEMMA AssignKeyIn ==
    ASSUME NamesAvailable, RoundInv, NEW t \in Tasks, rounds[t] # None
    PROVE  AssignKey(t) \in Keys
  BY DEF RoundInv, RoundsShape, NamesAvailable, AssignKey

LEMMA LogLength == ASSUME LogInv PROVE Len(log) \in Nat /\ DOMAIN log = 1 .. Len(log)
  BY DEF LogInv, LogShape

LEMMA RoundsSame ==
    ASSUME LogInv, RoundInv, UNCHANGED board, crashes' = crashes,
           rounds' = [t \in Tasks |-> rounds'[t]],
           \A t \in Tasks : rounds'[t] \in {rounds[t], None},
           \A n \in Nat : n <= ReadUpTo => n <= ReadUpTo',
           FirstLife => NothingPublished' /\ job'.from # "replay" /\ PlanInHand',
           \A t \in Tasks : rounds'[t] # None /\ Closing(t) => Closing(t)'
    PROVE  RoundInv'
<1>1. log' = log /\ byKey' = byKey
  BY DEF board
<1>2. RoundsShape'
  BY DEF RoundInv, RoundsShape
<1>3. SUFFICES ASSUME FirstLife PROVE FirstLife'
  BY <1>2 DEF RoundInv
<1>4. DOMAIN log \subseteq Nat
  BY LogLength
<1>5. \A t, r, ep : OpeningRead(t, r, ep) => OpeningRead(t, r, ep)'
  BY <1>1, <1>4 DEF OpeningRead
<1>6. RoundsOpened'
  <2>1. SUFFICES ASSUME NEW t \in Tasks, NEW q, q = rounds'[t], q # None
                 PROVE  OpeningRead(t, q.rev, q.epoch)'
    BY DEF RoundsOpened, OpeningRead
  <2>2. q = rounds[t] /\ OpeningRead(t, q.rev, q.epoch)
    BY <1>3, <2>1 DEF FirstLife, RoundsOpened
  <2>3. QED
    BY <1>5, <2>2
<1>7. PlansOpened'
  BY <1>1, <1>3, <1>4 DEF FirstLife, PlansOpened, OpeningRead
<1>8. RoundsUnplanned'
  <2>1. SUFFICES ASSUME NEW t \in Tasks, rounds'[t] # None, ~Closing(t)'
                 PROVE  byKey'[AssignKey(t)'] = 0
    BY DEF RoundsUnplanned
  <2>2. rounds'[t] = rounds[t] /\ ~Closing(t)
    BY <2>1
  <2>3. AssignKey(t)' = AssignKey(t)
    BY <2>2 DEF AssignKey
  <2>4. QED
    BY <1>1, <1>3, <2>1, <2>2, <2>3 DEF FirstLife, RoundsUnplanned
<1>9. QED
  BY <1>3, <1>6, <1>7, <1>8 DEF FirstLife

\* Nothing is published: the Coordinator is idle.
LEMMA IdleJob ==
    ASSUME Len(log') \in Nat, job' = NoJob, pc' \in {"down", "replay", "poll", "take"}
    PROVE  JobInv'
<1>1. /\ job'.from = "none" /\ job'.src = 0 /\ job'.outs = << >> /\ job'.done = {}
      /\ job'.task = None /\ job'.more = FALSE
  BY DEF NoJob
<1>2. job' \in JobType
  BY <1>1 DEF NoJob, JobType, Origins
<1>3. JobShape'
  BY <1>1, <1>2 DEF JobShape
<1>4. FiledOK' /\ MoreOK'
  BY <1>1 DEF FiledOK, MoreOK
<1>5. QED
  BY <1>1, <1>3, <1>4 DEF JobInv

LEMMA SameStep ==
    ASSUME Inv, UNCHANGED <<board, durable, memory, pc, job, crashes>>,
           \A w \in decided' : ActionShape(w)
    PROVE  Inv'
<1>1. LogInv /\ BaseInv /\ FileInv /\ JobInv /\ RoundInv
  BY DEF Inv
<1>2. /\ log' = log /\ byKey' = byKey /\ byTerminal' = byTerminal /\ view' = view
      /\ offset' = offset /\ outbox' = outbox /\ refused' = refused /\ rounds' = rounds
      /\ known' = known /\ upto' = upto /\ pc' = pc /\ job' = job /\ crashes' = crashes
  BY DEF board, durable, memory
<1>3. LogInv'
  BY <1>1, BoardSame
<1>4. BaseInv'
  BY <1>1, <1>2 DEF BaseInv, ActionShape
<1>5. FileInv'
  BY <1>1, <1>2, FilesSame
<1>6. JobInv'
  <2>1. JobShape'
    BY <1>1, <1>2 DEF JobInv, JobShape, Unread, Batch
  <2>2. (\A i \in DOMAIN job.outs : OutOK(job.outs[i]))'
    BY <1>1, <1>2 DEF JobInv, OutOK, Rebuilt, Output, Named, Keyed, ReceiptOf
  <2>3. FiledOK' /\ (\A k \in job.done : DoneOK(k))'
    BY <1>1, <1>2 DEF JobInv, FiledOK, Current, DoneOK, Settled
  <2>4. MoreOK'
    BY <1>1, <1>2 DEF JobInv, MoreOK
  <2>5. QED
    BY <2>1, <2>2, <2>3, <2>4 DEF JobInv
<1>7. RoundInv'
  BY <1>1, <1>2 DEF RoundInv, RoundsShape, FirstLife, NothingPublished, RoundsOpened, PlansOpened,
                    OpeningRead, ReadUpTo, PlanInHand, RoundsUnplanned, AssignKey, Closing
<1>8. QED
  BY <1>3, <1>4, <1>5, <1>6, <1>7 DEF Inv

LEMMA DecideStep ==
    ASSUME Inv, Decide
    PROVE  Inv'
<1> DEFINE W(n, a) == [task |-> log[n].task, rev |-> log[n].rev, epoch |-> log[n].epoch,
                       plan |-> log[n].plan, asg |-> a]
<1>0. PICK n \in DOMAIN log : log[n].type = "task_assigned" /\ \E a \in log[n].asgs :
         /\ decided' = decided \cup {W(n, a)}
         /\ UNCHANGED <<board, durable, memory, pc, job, crashes>>
  BY DEF Decide
<1>1. PICK a \in log[n].asgs :
         /\ decided' = decided \cup {W(n, a)}
         /\ UNCHANGED <<board, durable, memory, pc, job, crashes>>
  BY <1>0
<1>2. log[n] \in Event
  BY DEF Inv, LogInv, LogShape
<1>3. /\ log[n].task \in Tasks /\ log[n].rev \in Revs /\ log[n].epoch \in Nat \ {0}
      /\ log[n].plan \in PlanIds /\ a \in AssignmentIds
  BY <1>0, <1>1, <1>2, EventShape, AssignedShape
<1>4. \A w \in decided' : ActionShape(w)
  BY <1>1, <1>3 DEF Inv, BaseInv, ActionShape
<1>5. QED
  BY <1>1, <1>4, SameStep

LEMMA CrashStep ==
    ASSUME Inv, Crash
    PROVE  Inv'
<1>1. LogInv /\ BaseInv /\ FileInv /\ JobInv /\ RoundInv
  BY DEF Inv
<1>2. /\ UNCHANGED board /\ offset' = offset /\ outbox' = outbox /\ refused' = refused
      /\ rounds' = [t \in Tasks |-> None] /\ known' = {} /\ upto' = 0
      /\ job' = NoJob /\ pc' = "down" /\ crashes' = crashes + 1 /\ crashes < MaxCrashes
      /\ decided' = decided
  BY DEF Crash, Idle, Goto, durable
<1>3. log' = log /\ Len(log) \in Nat
  BY <1>1, <1>2, LogLength DEF board
<1>4. LogInv' /\ FileInv'
  <2>1. crashes \in Nat
    BY <1>1, CoordinatorAssumption DEF BaseInv
  <2>2. crashes' > 0
    BY <1>2, <2>1
  <2>3. QED
    BY <1>1, <1>2, <2>2, BoardSame, FilesSame
<1>5. BaseInv'
  BY <1>1, <1>2, <1>3, FS_EmptySet, CoordinatorAssumption DEF BaseInv, Labels, ActionShape
<1>6. JobInv'
  BY <1>2, <1>3, IdleJob
<1>7. RoundInv'
  <2>1. crashes \in Nat
    BY <1>1, CoordinatorAssumption DEF BaseInv
  <2>2. crashes' # 0
    BY <1>2, <2>1
  <2>3. QED
    BY <1>2, <2>2 DEF RoundInv, RoundsShape
<1>8. QED
  BY <1>4, <1>5, <1>6, <1>7 DEF Inv

LEMMA BatchEnd ==
    ASSUME LogInv, BaseInv
    PROVE  Max({m \in offset .. Len(log) : Cardinality(Batch(m)) <= BatchLimit}) \in 0 .. Len(log)
<1> DEFINE S == {m \in offset .. Len(log) : Cardinality(Batch(m)) <= BatchLimit}
<1>1. offset \in 0 .. Len(log) /\ Len(log) \in Nat
  BY LogLength DEF BaseInv
<1>2. S \subseteq 0 .. Len(log) /\ S \subseteq Nat
  BY <1>1
<1>3. IsFiniteSet(S)
  <2>1. IsFiniteSet(0 .. Len(log))
    BY <1>1, FS_Interval
  <2> HIDE DEF S
  <2>2. QED
    BY <1>2, <2>1, FS_Subset
<1>4. offset \in S
  <2>1. Batch(offset) = {}
    BY <1>1 DEF Batch
  <2>2. Cardinality(Batch(offset)) = 0
    BY <2>1, FS_EmptySet
  <2>3. Cardinality(Batch(offset)) <= BatchLimit
    BY <2>2, CoordinatorAssumption
  <2>4. QED
    BY <1>1, <2>3
<1> HIDE DEF S
<1>5. Max(S) \in S
  BY <1>2, <1>3, <1>4, MaxOf
<1>6. QED
  BY <1>2, <1>5 DEF S

LEMMA PollStep ==
    ASSUME NamesAvailable, Inv, Poll
    PROVE  Inv'
<1>1. LogInv /\ BaseInv /\ FileInv /\ JobInv /\ RoundInv
  BY DEF Inv
<1>2. /\ UNCHANGED board /\ offset' = offset /\ outbox' = outbox /\ refused' = refused
      /\ rounds' = rounds /\ known' = known /\ pc' = "take" /\ job' = job
      /\ crashes' = crashes /\ decided' = decided /\ pc \in {"poll", "take"}
  BY DEF Poll, Ticking, Goto, durable, others
<1>3. log' = log /\ Len(log) \in Nat /\ upto' \in 0 .. Len(log)
  BY <1>1, <1>2, LogLength, BatchEnd DEF board, Poll
<1>4. LogInv' /\ FileInv'
  BY <1>1, <1>2, BoardSame, FilesSame
<1>5. BaseInv'
  BY <1>1, <1>2, <1>3 DEF BaseInv, Labels, ActionShape
<1>6. job = NoJob
  BY <1>1, <1>2 DEF JobInv, JobShape
<1>7. JobInv'
  BY <1>2, <1>3, <1>6, IdleJob
<1>8. RoundInv'
  <2>1. /\ rounds' = [t \in Tasks |-> rounds'[t]]
        /\ \A t \in Tasks : rounds'[t] \in {rounds[t], None}
    BY <1>1, <1>2 DEF RoundInv, RoundsShape
  <2>2. ReadUpTo' = ReadUpTo /\ \A t \in Tasks : ~Closing(t)
    BY <1>2 DEF ReadUpTo, Closing
  <2>3. FirstLife => NothingPublished' /\ job'.from # "replay" /\ PlanInHand'
    BY <1>2, <1>6 DEF FirstLife, NothingPublished, PlanInHand, NoJob
  <2>4. QED
    BY <1>1, <1>2, <2>1, <2>2, <2>3, RoundsSame
<1>9. QED
  BY <1>4, <1>5, <1>7, <1>8 DEF Inv

LEMMA ReplayStep ==
    ASSUME NamesAvailable, Inv, Replay
    PROVE  Inv'
<1>1. LogInv /\ BaseInv /\ FileInv /\ JobInv /\ RoundInv
  BY DEF Inv
<1>2. /\ UNCHANGED board /\ offset' = offset /\ outbox' = outbox /\ refused' = refused
      /\ rounds' = rounds /\ known' = known /\ upto' = upto
      /\ crashes' = crashes /\ decided' = decided /\ pc = "replay"
  BY DEF Replay, durable, memory, others
<1>3. log' = log /\ byKey' = byKey /\ Len(log) \in Nat /\ DOMAIN log = 1 .. Len(log)
  BY <1>1, <1>2, LogLength DEF board
<1>4. LogInv' /\ FileInv'
  BY <1>1, <1>2, BoardSame, FilesSame
<1>5. job = NoJob
  BY <1>1, <1>2 DEF JobInv, JobShape
<1>6. CASE job' = NoJob /\ pc' = "poll"
  <2>1. BaseInv'
    BY <1>1, <1>2, <1>3, <1>6 DEF BaseInv, Labels, ActionShape
  <2>2. JobInv'
    BY <1>3, <1>6, IdleJob
  <2>3. RoundInv'
    <3>1. /\ rounds' = [t \in Tasks |-> rounds'[t]]
          /\ \A t \in Tasks : rounds'[t] \in {rounds[t], None}
      BY <1>1, <1>2 DEF RoundInv, RoundsShape
    <3>2. ReadUpTo' = ReadUpTo /\ (NothingPublished' /\ job'.from # "replay" /\ PlanInHand')
      BY <1>2, <1>6 DEF ReadUpTo, NothingPublished, PlanInHand, NoJob
    <3>3. \A t \in Tasks : ~Closing(t)
      BY <1>2 DEF Closing
    <3>4. QED
      BY <1>1, <1>2, <3>1, <3>2, <3>3, RoundsSame
  <2>4. QED
    BY <1>4, <2>1, <2>2, <2>3 DEF Inv
<1>7. ASSUME NEW k \in Replayable, pc' = "stage",
             job' = [NoJob EXCEPT !.from = "replay", !.outs = <<outbox[k].event>>]
      PROVE  Inv'
  <2>0. PICK e : e = outbox[k].event
    OBVIOUS
  <2>1. k \in Keys /\ outbox[k] # None /\ outbox[k].src <= offset /\ FileOK(k, outbox[k])
    BY <1>1, <1>7 DEF Replayable, FileInv, FilesShape
  <2>2. Output(e) /\ e.key = k /\ e \in Event
    BY <2>0, <2>1 DEF FileOK, Output, Named
  <2>3. /\ job'.from = "replay" /\ job'.src = 0 /\ job'.outs = <<e>> /\ job'.done = {}
        /\ job'.task = None /\ job'.more = FALSE
    BY <1>7, <2>0 DEF NoJob
  <2>4. job' \in JobType
    <3>1. <<e>> \in Seq(Event)
      BY <2>2
    <3>2. job' = [NoJob EXCEPT !.from = "replay", !.outs = <<e>>]
      BY <1>7, <2>0
    <3>3. QED
      BY <3>1, <3>2 DEF NoJob, JobType, Origins
  <2>5. BaseInv'
    BY <1>1, <1>2, <1>3, <1>7 DEF BaseInv, Labels, ActionShape
  <2>6. JobInv'
    <3>1. JobShape'
      BY <1>3, <1>7, <2>3, <2>4 DEF JobShape
    <3>2. OutOK(e)'
      BY <1>2, <1>3, <2>1, <2>2, <2>3 DEF OutOK, Rebuilt, Output, Named, Keyed
    <3>3. FiledOK' /\ MoreOK'
      BY <1>7, <2>3 DEF FiledOK, MoreOK
    <3>4. QED
      BY <2>3, <3>1, <3>2, <3>3 DEF JobInv
  <2>7. RoundInv'
    <3>1. /\ rounds' = [t \in Tasks |-> rounds'[t]]
          /\ \A t \in Tasks : rounds'[t] \in {rounds[t], None}
      BY <1>1, <1>2 DEF RoundInv, RoundsShape
    <3>2. ReadUpTo' = ReadUpTo /\ ~FirstLife
      BY <1>2, <1>7, <2>1 DEF ReadUpTo, FirstLife, NothingPublished
    <3>3. \A t \in Tasks : ~Closing(t)
      BY <1>2 DEF Closing
    <3>4. QED
      BY <1>1, <1>2, <3>1, <3>2, <3>3, RoundsSame
  <2>8. QED
    BY <1>4, <2>5, <2>6, <2>7 DEF Inv
<1>8. QED
  BY <1>6, <1>7 DEF Replay, Idle, Goto

-----------------------------------------------------------------------------
(* recover_control_state.                                                  *)

LEMMA RecoveredKnownFinite ==
    ASSUME LogInv
    PROVE  RecoveredKnown \subseteq TaskRevs /\ IsFiniteSet(RecoveredKnown)
<1> DEFINE f == [n \in DOMAIN log |-> <<log[n].task, log[n].rev>>]
           S == {f[n] : n \in DOMAIN log}
<1>1. IsFiniteSet(DOMAIN log)
  <2>1. Len(log) \in Nat /\ DOMAIN log = 1 .. Len(log)
    BY LogLength
  <2>2. IsFiniteSet(1 .. Len(log))
    BY <2>1, FS_Interval
  <2>3. QED
    BY <2>1, <2>2
<1>2. IsFiniteSet(S)
  <2>1. f = [n \in DOMAIN log |-> f[n]]
    OBVIOUS
  <2> DEFINE D == DOMAIN log
  <2>2. f = [n \in D |-> f[n]] /\ IsFiniteSet(D)
    BY <1>1, <2>1
  <2> HIDE DEF f, D
  <2>3. IsFiniteSet({f[n] : n \in D})
    BY <2>2, FiniteImage
  <2>4. QED
    BY <2>3 DEF D
<1>3. RecoveredKnown \subseteq S
  <2>1. SUFFICES ASSUME NEW tr \in RecoveredKnown PROVE tr \in S
    OBVIOUS
  <2>2. PICK n \in DOMAIN log : <<log[n].task, log[n].rev>> = tr
    BY <2>1 DEF RecoveredKnown
  <2>3. QED
    BY <2>2
<1>4. RecoveredKnown \subseteq TaskRevs
  BY DEF RecoveredKnown
<1> HIDE DEF S
<1>5. QED
  BY <1>2, <1>3, <1>4, FS_Subset

\* A round is recovered from its opening.
LEMMA RecoveredOpening ==
    ASSUME LogInv, NEW t \in Tasks, RecoveredRound(t) # None
    PROVE  /\ RecoveredRound(t).rev \in Revs /\ RecoveredRound(t).epoch \in Nat \ {0}
           /\ \E n \in DOMAIN log : log[n].type = "bid_round_opened"
<1> DEFINE S == {n \in DOMAIN log : log[n].task = t /\ log[n].type \in
                                       RecoveryTypes \ {"task_posted"}}
           m == Max(S)
           e == log[m]
<1>1. S # {} /\ e.type = "bid_round_opened"
      /\ RecoveredRound(t).rev = e.rev /\ RecoveredRound(t).epoch = e.epoch
  BY DEF RecoveredRound
<1>2. S \subseteq DOMAIN log /\ Len(log) \in Nat /\ DOMAIN log = 1 .. Len(log)
  BY LogLength
<1>3. m \in S
  <2> HIDE DEF S
  <2>1. IsFiniteSet(1 .. Len(log))
    BY <1>2, FS_Interval
  <2>2. IsFiniteSet(S) /\ S \subseteq Nat
    BY <1>2, <2>1, FS_Subset
  <2>3. QED
    BY <1>1, <2>2, MaxOf
<1> HIDE DEF m
<1>4. m \in DOMAIN log /\ e \in Event
  BY <1>3 DEF LogInv, LogShape
<1>5. e.rev \in Revs /\ e.epoch \in Nat \ {0}
  <2>1. e.type = "bid_round_opened" /\ e \in Event
    BY <1>1, <1>4
  <2> HIDE DEF e
  <2>2. QED
    BY <2>1, EventShape, RoundShape
<1>6. QED
  BY <1>1, <1>4, <1>5

LEMMA RecoverStep ==
    ASSUME NamesAvailable, Inv, Recover
    PROVE  Inv'
<1>1. LogInv /\ BaseInv /\ FileInv /\ JobInv /\ RoundInv
  BY DEF Inv
<1>2. /\ UNCHANGED board /\ offset' = offset /\ outbox' = outbox /\ refused' = refused
      /\ rounds' = [t \in Tasks |-> RecoveredRound(t)] /\ known' = RecoveredKnown
      /\ upto' = upto /\ pc = "down" /\ pc' = "replay" /\ job' = job
      /\ crashes' = crashes /\ decided' = decided
  BY DEF Recover, Goto, durable, others
<1>3. log' = log /\ byKey' = byKey /\ Len(log) \in Nat
  BY <1>1, <1>2, LogLength DEF board
<1>4. LogInv' /\ FileInv'
  BY <1>1, <1>2, BoardSame, FilesSame
<1>5. job = NoJob
  BY <1>1, <1>2 DEF JobInv, JobShape
<1>6. BaseInv'
  BY <1>1, <1>2, <1>3, RecoveredKnownFinite DEF BaseInv, Labels, ActionShape
<1>7. JobInv'
  BY <1>2, <1>3, <1>5, IdleJob
<1>8. RoundInv'
  <2>1. RoundsShape'
    BY <1>1, <1>2, RecoveredOpening DEF RoundsShape
  <2>2. SUFFICES ASSUME crashes = 0 PROVE FirstLife'
    BY <1>2, <2>1 DEF RoundInv
  <2>3. FirstLife /\ NothingPublished
    BY <1>1, <2>2 DEF RoundInv, FirstLife
  <2>4. \A t \in Tasks : rounds'[t] = None
    BY <1>1, <1>2, <2>3, RecoveredOpening DEF NothingPublished
  <2>5. NothingPublished' /\ job'.from # "replay" /\ PlanInHand'
    BY <1>2, <1>3, <1>5, <2>3 DEF NothingPublished, PlanInHand, NoJob
  <2>6. PlansOpened'
    BY <1>2, <1>3, <2>3 DEF FirstLife, PlansOpened, OpeningRead, ReadUpTo
  <2>7. QED
    BY <2>4, <2>5, <2>6 DEF FirstLife, RoundsOpened, RoundsUnplanned
<1>9. QED
  BY <1>4, <1>6, <1>7, <1>8 DEF Inv

-----------------------------------------------------------------------------
(* Closing a round, and the exit of a robot.                               *)

LEMMA CloseRoundStep ==
    ASSUME NamesAvailable, Inv, NEW t \in Tasks, CloseRound(t)
    PROVE  Inv'
<1>1. LogInv /\ BaseInv /\ FileInv /\ JobInv /\ RoundInv
  BY DEF Inv
<1>2. /\ UNCHANGED board /\ offset' = offset /\ outbox' = outbox /\ refused' = refused
      /\ known' = known /\ upto' = upto
      /\ crashes' = crashes /\ decided' = decided /\ pc = "take" /\ Unread = {}
      /\ rounds[t] # None
  BY DEF CloseRound, Ticking, durable, others
<1>3. log' = log /\ byKey' = byKey /\ Len(log) \in Nat
  BY <1>1, <1>2, LogLength DEF board
<1>4. LogInv' /\ FileInv'
  BY <1>1, <1>2, BoardSame, FilesSame
<1>5. job = NoJob
  BY <1>1, <1>2 DEF JobInv, JobShape
<1>6. rounds = [x \in Tasks |-> rounds[x]] /\ \A x \in Tasks : ~Closing(x)
  BY <1>1, <1>2 DEF RoundInv, RoundsShape, Closing
<1>7. CASE rounds' = [rounds EXCEPT ![t] = None] /\ pc' = pc /\ job' = job
  <2>1. BaseInv'
    BY <1>1, <1>2, <1>3, <1>7 DEF BaseInv, Labels, ActionShape
  <2>2. JobInv'
    BY <1>2, <1>3, <1>5, <1>7, IdleJob
  <2>3. RoundInv'
    <3>1. /\ rounds' = [x \in Tasks |-> rounds'[x]]
          /\ \A x \in Tasks : rounds'[x] \in {rounds[x], None}
      BY <1>6, <1>7
    <3>2. ReadUpTo' = ReadUpTo /\ (NothingPublished' /\ job'.from # "replay" /\ PlanInHand')
      BY <1>2, <1>5, <1>7 DEF ReadUpTo, NothingPublished, PlanInHand, NoJob
    <3>3. QED
      BY <1>1, <1>2, <1>6, <3>1, <3>2, RoundsSame
  <2>4. QED
    BY <1>4, <2>1, <2>2, <2>3 DEF Inv
<1>8. CASE job' = [NoJob EXCEPT !.from = "tick", !.task = t] /\ pc' = "plan" /\ rounds' = rounds
  <2>1. /\ job'.from = "tick" /\ job'.src = 0 /\ job'.outs = << >> /\ job'.done = {}
        /\ job'.task = t /\ job'.more = FALSE
    BY <1>8 DEF NoJob
  <2>2. job' \in JobType
    <3>1. NoJob \in JobType
      BY DEF NoJob, JobType, Origins
    <3>2. "tick" \in Origins /\ t \in Tasks \cup {None}
      BY DEF Origins
    <3> HIDE DEF NoJob
    <3>3. QED
      BY <1>8, <3>1, <3>2 DEF JobType
  <2>3. BaseInv'
    BY <1>1, <1>2, <1>3, <1>8 DEF BaseInv, Labels, ActionShape
  <2>4. JobInv'
    <3>1. Unread' = {}
      BY <1>2, <1>3 DEF Unread, Batch
    <3>2. JobShape'
      BY <1>2, <1>3, <1>8, <2>1, <2>2, <3>1 DEF JobShape
    <3>3. FiledOK' /\ MoreOK'
      BY <1>8, <2>1 DEF FiledOK, MoreOK
    <3>4. QED
      BY <2>1, <3>2, <3>3 DEF JobInv
  <2>5. RoundInv'
    <3>1. /\ rounds' = [x \in Tasks |-> rounds'[x]]
          /\ \A x \in Tasks : rounds'[x] \in {rounds[x], None}
      BY <1>6, <1>8
    <3>2. ReadUpTo' = ReadUpTo /\ (NothingPublished' /\ job'.from # "replay" /\ PlanInHand')
      BY <1>2, <1>8, <2>1 DEF ReadUpTo, NothingPublished, PlanInHand
    <3>3. QED
      BY <1>1, <1>2, <1>6, <3>1, <3>2, RoundsSame
  <2>6. QED
    BY <1>4, <2>3, <2>4, <2>5 DEF Inv
<1>9. QED
  BY <1>7, <1>8 DEF CloseRound, Drop, Goto

\* An output built for a tick, alone.
LEMMA TickOutput ==
    ASSUME NamesAvailable, Inv, UNCHANGED <<board, durable, memory, others>>,
           pc' = "stage", NEW e,
           job' \in JobType, job'.from \in {"tick", "exit"}, job'.src = 0, job'.outs = <<e>>,
           job'.done = {}, job'.more = FALSE,
           job'.from = "tick" => pc = "plan" /\ job.from = "tick" /\ job'.task = job.task
                                 /\ e.task = job.task,
           job'.from = "exit" => pc = "take",
           Output(e), e.type # "assignment_completed",
           e.type = "task_assigned" => job'.from = "tick" /\ e.key = AssignKey(job.task),
           byKey[e.key] = 0 \/ e.type \in TerminalTypes \/ Rebuilt(e)
    PROVE  Inv'
<1>1. LogInv /\ BaseInv /\ FileInv /\ JobInv /\ RoundInv
  BY DEF Inv
<1>2. /\ UNCHANGED board /\ offset' = offset /\ outbox' = outbox /\ refused' = refused
      /\ known' = known /\ upto' = upto /\ rounds' = rounds
      /\ crashes' = crashes /\ decided' = decided
  BY DEF durable, memory, others
<1>3. log' = log /\ byKey' = byKey /\ Len(log) \in Nat
  BY <1>1, <1>2, LogLength DEF board
<1>4. LogInv' /\ FileInv'
  BY <1>1, <1>2, BoardSame, FilesSame
<1>5. BaseInv'
  BY <1>1, <1>2, <1>3 DEF BaseInv, Labels, ActionShape
<1>6. JobInv'
  <2>1. Unread' = Unread
    BY <1>2, <1>3 DEF Unread, Batch
  <2>2. job'.from = "tick" => job.task \in Tasks /\ rounds[job.task] # None /\ Unread = {}
    BY <1>1 DEF JobInv, JobShape
  <2>3. JobShape'
    BY <1>2, <1>3, <2>1, <2>2 DEF JobShape
  <2>4. OutOK(e)'
    BY <1>2, <1>3 DEF OutOK, Rebuilt, Output, Named, Keyed
  <2>5. FiledOK' /\ MoreOK'
    BY DEF FiledOK, MoreOK
  <2>6. QED
    BY <2>3, <2>4, <2>5 DEF JobInv
<1>7. RoundInv'
  <2>1. /\ rounds' = [x \in Tasks |-> rounds'[x]]
        /\ \A x \in Tasks : rounds'[x] \in {rounds[x], None}
    BY <1>1, <1>2 DEF RoundInv, RoundsShape
  <2>2. pc \in {"plan", "take"} /\ ReadUpTo' = ReadUpTo
    BY <1>2 DEF ReadUpTo
  <2>3. \A x \in Tasks : ~Closing(x)
    BY <2>2 DEF Closing
  <2>5. NothingPublished' /\ job'.from # "replay" /\ PlanInHand'
    <3>1. \A i \in DOMAIN job'.outs : job'.outs[i] = e
      OBVIOUS
    <3>2. e.type = "task_assigned" => e.key = AssignKey(job.task) /\ job'.task = job.task
      OBVIOUS
    <3>3. QED
      BY <1>2, <3>1, <3>2 DEF NothingPublished, PlanInHand, AssignKey
  <2>6. QED
    BY <1>1, <1>2, <2>1, <2>2, <2>3, <2>5, RoundsSame
<1>8. QED
  BY <1>4, <1>5, <1>6, <1>7 DEF Inv

LEMMA ChoosePlanStep ==
    ASSUME NamesAvailable, Inv, ChoosePlan
    PROVE  Inv'
<1> DEFINE t == job.task
           tr == RoundOf(t)
           ep == rounds[t].epoch
<1>1. PICK e \in {Assigned(tr, ep, refs) : refs \in SUBSET Citable(tr)} \cup {Failed(tr, ep, 0)} :
         job' = [job EXCEPT !.outs = <<e>>]
  BY DEF ChoosePlan
<1>2. /\ pc = "plan" /\ pc' = "stage" /\ UNCHANGED <<board, durable, memory, others>>
      /\ LogInv /\ BaseInv /\ JobInv /\ RoundInv
  BY DEF ChoosePlan, Goto, Inv
<1>3. /\ job.from = "tick" /\ t \in Tasks /\ rounds[t] # None /\ Unread = {} /\ job.src = 0
      /\ job \in JobType
  BY <1>2 DEF JobInv, JobShape
<1>4. rounds[t].rev \in Revs /\ ep \in Nat \ {0} /\ ep \in Nat /\ tr \in TaskRevs
      /\ tr[1] = t /\ tr[2] = rounds[t].rev
  BY <1>2, <1>3 DEF RoundInv, RoundsShape, RoundOf, TaskRevs
<1>5. crashes \in Nat /\ 0 \in Nat
  BY <1>2, CoordinatorAssumption DEF BaseInv
<1>6. /\ Output(e) /\ e.type \in {"task_assigned", "task_failed"} /\ e.task = t
      /\ e.type = "task_assigned" => e.key = AssignKey(t)
  <2>1. CASE e = Failed(tr, ep, 0)
    <3>1. Output(Failed(tr, ep, 0)) /\ Failed(tr, ep, 0).type = "task_failed"
          /\ Failed(tr, ep, 0).task = tr[1]
      BY <1>4, <1>5, FailedNamed
    <3>2. QED
      BY <1>4, <2>1, <3>1
  <2>2. ASSUME NEW refs \in SUBSET Citable(tr), e = Assigned(tr, ep, refs)
        PROVE  /\ Output(e) /\ e.type = "task_assigned" /\ e.task = t
               /\ e.key = AssignKey(t)
    <3>1. refs \in SUBSET EventIds
      <4>1. view[tr].pending \subseteq EventIds
        BY <1>2, <1>4 DEF LogInv, ViewsOK, View
      <4>2. QED
        BY <4>1 DEF Citable
    <3>2. Output(Assigned(tr, ep, refs)) /\ Assigned(tr, ep, refs).type = "task_assigned"
          /\ Assigned(tr, ep, refs).task = tr[1]
      BY <1>4, <1>5, <3>1, AssignedNamed
    <3>3. Assigned(tr, ep, refs).key = <<"assignment", tr[1], tr[2], ep>>
      BY DEF Assigned
    <3>4. QED
      BY <1>4, <2>2, <3>2, <3>3 DEF AssignKey
  <2>3. QED
    BY <1>1, <2>1, <2>2
<1>7. /\ job'.from = "tick" /\ job'.src = 0 /\ job'.outs = <<e>> /\ job'.done = job.done
      /\ job'.task = t /\ job'.more = job.more
  BY <1>1, <1>3 DEF JobType
<1>8. job' \in JobType
  <2>1. <<e>> \in Seq(Event)
    BY <1>6 DEF Output, Named
  <2>2. QED
    BY <1>1, <1>3, <2>1 DEF JobType
<1>9. ASSUME e.type = "task_assigned" PROVE byKey[e.key] = 0 \/ Rebuilt(e)
  <2>1. CASE crashes = 0
    <3>1. FirstLife /\ ~Closing(t)
      BY <1>2, <2>1 DEF RoundInv, Closing
    <3>2. QED
      BY <1>3, <1>6, <1>9, <3>1 DEF FirstLife, RoundsUnplanned
  <2>2. CASE crashes # 0
    BY <1>5, <1>9, <2>2 DEF Rebuilt
  <2>3. QED
    BY <2>1, <2>2
<1>10. job.done = {} /\ job.more = FALSE
  BY <1>2 DEF JobInv, JobShape
<1> HIDE DEF t
<1>11. QED
  BY <1>2, <1>3, <1>6, <1>7, <1>8, <1>9, <1>10, TickOutput DEF TerminalTypes, t

LEMMA AgentExitStep ==
    ASSUME NamesAvailable, Inv, NEW tr \in TaskRevs, AgentExit(tr)
    PROVE  Inv'
<1> DEFINE ep == view[tr].epoch
           e == Failed(tr, ep, 0)
<1>1. /\ pc = "take" /\ pc' = "stage" /\ UNCHANGED <<board, durable, memory, others>>
      /\ LogInv /\ BaseInv
      /\ job' = [NoJob EXCEPT !.from = "exit", !.outs = <<e>>]
  BY DEF AgentExit, Ticking, Goto, Inv
<1>2. ep \in Nat /\ 0 \in Nat /\ crashes \in Nat
  BY <1>1, CoordinatorAssumption DEF LogInv, ViewsOK, View, BaseInv
<1>3. Output(e) /\ e.type = "task_failed"
  BY <1>2, FailedNamed
<1> HIDE DEF e
<1>4. /\ job'.from = "exit" /\ job'.src = 0 /\ job'.outs = <<e>> /\ job'.done = {}
      /\ job'.more = FALSE
  BY <1>1 DEF NoJob
<1>5. job' \in JobType
  <2>1. <<e>> \in Seq(Event)
    BY <1>3 DEF Output, Named
  <2>2. QED
    BY <1>1, <2>1 DEF NoJob, JobType, Origins
<1>6. QED
  BY <1>1, <1>3, <1>4, <1>5, TickOutput DEF TerminalTypes

-----------------------------------------------------------------------------
(* The outputs of an input.                                                *)

LEMMA ReportShape ==
    ASSUME NEW e \in Event, e.type \in {"receipt", "safety_intercept"}
    PROVE  ActionShape(e)
<1>1. e.epoch \in Nat \ {0} /\ e.plan \in PlanIds /\ e.asg \in AssignmentIds
  BY DEF Event, PostedEvent, RoundEvent, AssignedEvent, WorkEvent, ClueEvent,
         ReplanEvent, DoneEvent, FailedEvent, ReceiptEvent,
         InterceptEvent, BidEvent, EstopEvent
<1>2. e.task \in Tasks /\ e.rev \in Revs
  BY EventShape
<1>3. QED
  BY <1>1, <1>2 DEF ActionShape

\* An output that input n may lead to.
Publishable(f, n) ==
    /\ Output(f) /\ f.type # "task_assigned"
    /\ f.type = "assignment_completed" => ReceiptOf(n, f)
    /\ byKey[f.key] = 0 \/ outbox[f.key] # None \/ f.type \in TerminalTypes

AllPublishable(outs, n) ==
    outs \in Seq(Event) /\ \A i \in DOMAIN outs : Publishable(outs[i], n)

LEMMA FewPublishable ==
    ASSUME NEW n
    PROVE  /\ AllPublishable(<< >>, n)
           /\ \A f : Publishable(f, n) => AllPublishable(<<f>>, n)
           /\ \A f, g : Publishable(f, n) /\ Publishable(g, n) => AllPublishable(<<f, g>>, n)
<1>1. \A f : Publishable(f, n) => f \in Event
  BY DEF Publishable, Output, Named
<1>2. AllPublishable(<< >>, n)
  BY DEF AllPublishable
<1>3. ASSUME NEW f, Publishable(f, n) PROVE AllPublishable(<<f>>, n)
  <2>1. f \in Event
    BY <1>1, <1>3
  <2>2. <<f>> \in Seq(Event) /\ DOMAIN <<f>> = 1 .. 1
    BY <2>1
  <2>3. \A i \in DOMAIN <<f>> : <<f>>[i] = f
    BY <2>2
  <2>4. QED
    BY <1>3, <2>2, <2>3 DEF AllPublishable
<1>4. ASSUME NEW f, NEW g, Publishable(f, n), Publishable(g, n)
      PROVE  AllPublishable(<<f, g>>, n)
  <2>1. f \in Event /\ g \in Event
    BY <1>1, <1>4
  <2>2. <<f, g>> \in Seq(Event) /\ DOMAIN <<f, g>> = 1 .. 2
    BY <2>1
  <2>3. \A i \in DOMAIN <<f, g>> : <<f, g>>[i] = f \/ <<f, g>>[i] = g
    BY <2>2
  <2>4. QED
    BY <1>4, <2>2, <2>3 DEF AllPublishable
<1>5. QED
  BY <1>2, <1>3, <1>4

LEMMA RoundPublishable ==
    ASSUME NamesAvailable, Inv, NEW tr \in TaskRevs, NEW n
    PROVE  Publishable(RoundOpened(tr, view[tr].epoch + 1), n)
<1> DEFINE e == RoundOpened(tr, view[tr].epoch + 1)
<1>1. LogInv /\ crashes \in Nat
  BY CoordinatorAssumption DEF Inv, BaseInv
<1>2. view[tr].epoch + 1 \in Nat \ {0}
  BY <1>1 DEF LogInv, ViewsOK, View
<1>3. Output(e) /\ e.type = "bid_round_opened"
  BY <1>1, <1>2, RoundNamed
<1>4. byKey[e.key] = 0
  BY <1>1, RoundFresh
<1> HIDE DEF e
<1>5. QED
  BY <1>3, <1>4 DEF Publishable, e

LEMMA FailedPublishable ==
    ASSUME NamesAvailable, Inv, NEW tr \in TaskRevs, NEW ep \in Nat, NEW n \in Nat
    PROVE  Publishable(Failed(tr, ep, n), n)
<1> DEFINE e == Failed(tr, ep, n)
<1>1. crashes \in Nat
  BY CoordinatorAssumption DEF Inv, BaseInv
<1>2. Output(e) /\ e.type = "task_failed"
  BY <1>1, FailedNamed
<1> HIDE DEF e
<1>3. QED
  BY <1>2 DEF Publishable, TerminalTypes, e

LEMMA ReplansPublishable ==
    ASSUME NamesAvailable, Inv, NEW tr \in TaskRevs, NEW n
    PROVE  AllPublishable(ReplanOutputs(tr), n)
<1>1. CASE ReplanPending(view[tr]) /\ ~InFlight(tr)
  <2> DEFINE e == Replan(tr)
             f == RoundOpened(tr, view[tr].epoch + 1)
  <2>1. view[tr].pending # {} /\ LogInv
    BY <1>1 DEF ReplanPending, Inv
  <2>2. Output(e) /\ e.type = "task_replan" /\ byKey[e.key] = 0
    BY <2>1, ReplanFresh
  <2>3. Publishable(f, n)
    BY RoundPublishable
  <2>4. ReplanOutputs(tr) = <<e, f>>
    BY <1>1 DEF ReplanOutputs
  <2> HIDE DEF e, f
  <2>5. Publishable(e, n)
    BY <2>2 DEF Publishable
  <2>6. QED
    BY <2>3, <2>4, <2>5, FewPublishable
<1>2. CASE ~(ReplanPending(view[tr]) /\ ~InFlight(tr))
  <2>1. ReplanOutputs(tr) = << >>
    BY <1>2 DEF ReplanOutputs
  <2>2. QED
    BY <2>1, FewPublishable
<1>3. QED
  BY <1>1, <1>2

LEMMA CompletedPublishable ==
    ASSUME NamesAvailable, Inv, NEW n \in DOMAIN log, n > offset, log[n].type = "receipt"
    PROVE  /\ Publishable(Completed(log[n]), n)
           /\ Completed(log[n]).type = "assignment_completed"
<1>0. PICK r : r = log[n]
  OBVIOUS
<1> DEFINE e == Completed(r)
<1>1. crashes \in Nat /\ LogInv /\ FileInv
  BY CoordinatorAssumption DEF Inv, BaseInv
<1>2. ActionShape(r)
  <2>1. r \in Event
    BY <1>0, <1>1 DEF LogInv, LogShape
  <2>2. QED
    BY <1>0, <2>1, ReportShape
<1>3. /\ Output(e) /\ e.type = "assignment_completed" /\ e.task = r.task /\ e.rev = r.rev
      /\ e.epoch = r.epoch /\ e.asg = r.asg
  BY <1>1, <1>2, CompletedNamed
<1>4. e.key = CompletionKey(r)
  BY DEF Completed, CompletionKey
<1>5. ReceiptOf(n, e)
  BY <1>0, <1>3 DEF ReceiptOf
<1>6. CompletionKey(r) \in Keys
  BY <1>3, <1>4 DEF Output, Named
<1>7. byKey[CompletionKey(r)] = 0 \/ outbox[CompletionKey(r)] # None
  BY <1>0, <1>1, <1>6 DEF FileInv, CompletionsFiled
<1> HIDE DEF e
<1>8. QED
  BY <1>0, <1>3, <1>4, <1>5, <1>7 DEF Publishable, e

LEMMA StopsPublishable ==
    ASSUME NamesAvailable, Inv, NEW e \in Event, NEW n \in Nat
    PROVE  AllPublishable(SetToSeq({Failed(x, view[x].epoch, n) : x \in EstopTargets(e)}), n)
<1> DEFINE X == EstopTargets(e)
           f == [x \in X |-> Failed(x, view[x].epoch, n)]
           S == {f[x] : x \in X}
<1>1. known \subseteq TaskRevs /\ IsFiniteSet(known) /\ LogInv
  BY DEF Inv, BaseInv
<1>2. X \subseteq TaskRevs /\ IsFiniteSet(X)
  <2>1. CASE e.rev = None
    <3>1. X \subseteq known
      BY <2>1 DEF EstopTargets
    <3> HIDE DEF X
    <3>2. QED
      BY <1>1, <3>1, FS_Subset
  <2>2. CASE e.rev # None
    <3>1. X \subseteq {<<e.task, e.rev>>} /\ <<e.task, e.rev>> \in TaskRevs
      BY <2>2, EventShape DEF EstopTargets, TaskRevs
    <3>2. IsFiniteSet({<<e.task, e.rev>>})
      BY FS_Singleton
    <3> HIDE DEF X
    <3>3. QED
      BY <3>1, <3>2, FS_Subset
  <2>3. QED
    BY <2>1, <2>2
<1>3. IsFiniteSet(S)
  <2>1. f = [x \in X |-> f[x]]
    OBVIOUS
  <2> HIDE DEF f, X
  <2>2. QED
    BY <1>2, <2>1, FiniteImage
<1>4. S = {Failed(x, view[x].epoch, n) : x \in EstopTargets(e)}
  OBVIOUS
<1>5. \A x \in X : Publishable(Failed(x, view[x].epoch, n), n)
  <2>1. SUFFICES ASSUME NEW x \in X PROVE Publishable(Failed(x, view[x].epoch, n), n)
    OBVIOUS
  <2>2. x \in TaskRevs /\ view[x].epoch \in Nat
    BY <1>1, <1>2 DEF LogInv, ViewsOK, View
  <2>3. QED
    BY <2>2, FailedPublishable
<1>6. \A g \in S : Publishable(g, n) /\ g \in Event
  BY <1>5 DEF Publishable, Output, Named
<1> HIDE DEF S
<1>7. SetToSeq(S) \in Seq(S)
  BY <1>3, SeqOfSet
<1>8. SetToSeq(S) \in Seq(Event) /\ \A i \in DOMAIN SetToSeq(S) : SetToSeq(S)[i] \in S
  <2>0. PICK s : s = SetToSeq(S)
    OBVIOUS
  <2>1. s \in Seq(S)
    BY <1>7, <2>0
  <2>2. s \in Seq(Event) /\ \A i \in DOMAIN s : s[i] \in S
    BY <1>6, <2>1
  <2>3. QED
    BY <2>0, <2>2
<1>9. AllPublishable(SetToSeq(S), n)
  BY <1>6, <1>8 DEF AllPublishable
<1>10. QED
  BY <1>4, <1>9

LEMMA OutputsPublishable ==
    ASSUME NamesAvailable, Inv, NEW n \in DOMAIN log, n > offset
    PROVE  AllPublishable(Outputs(log[n], n), n)
<1>0. PICK e : e = log[n]
  OBVIOUS
<1>1. LogInv /\ e \in Event /\ n \in Nat
  BY <1>0, LogLength DEF Inv, LogInv, LogShape
<1> DEFINE tr == <<e.task, e.rev>>
<1>2. e.type \notin {"clue", "estop"} => tr \in TaskRevs
  BY <1>1, EventShape DEF TaskRevs
<1>3. CASE e.type = "task_posted"
  <2>1. Outputs(e, n) = PostedOutputs(tr, n) /\ tr \in TaskRevs
    BY <1>2, <1>3 DEF Outputs
  <2>2. Publishable(Failed(tr, 0, n), n) /\ Publishable(RoundOpened(tr, view[tr].epoch + 1), n)
    BY <1>1, <2>1, FailedPublishable, RoundPublishable
  <2> HIDE DEF tr
  <2>3. PostedOutputs(tr, n) \in
           {<<Failed(tr, 0, n)>>, << >>, <<RoundOpened(tr, view[tr].epoch + 1)>>}
    BY DEF PostedOutputs
  <2>4. QED
    BY <1>0, <2>1, <2>2, <2>3, FewPublishable
<1>4. CASE e.type = "receipt"
  <2>1. Outputs(e, n) = ReceiptOutputs(e, n) /\ tr \in TaskRevs
    BY <1>2, <1>4 DEF Outputs
  <2>2. e.epoch \in Nat
    BY <1>1, <1>4, ReportShape DEF ActionShape
  <2>3. Publishable(Failed(tr, e.epoch, n), n)
    BY <1>1, <2>1, <2>2, FailedPublishable
  <2>4. Publishable(Completed(e), n)
    BY <1>0, <1>4, CompletedPublishable
  <2>5. ReceiptOutputs(e, n) \in {<<Failed(tr, e.epoch, n)>>, << >>, <<Completed(e)>>}
    BY DEF ReceiptOutputs
  <2>6. QED
    BY <1>0, <2>1, <2>3, <2>4, <2>5, FewPublishable
<1>5. CASE e.type = "safety_intercept"
  <2>1. Outputs(e, n) = <<Failed(tr, e.epoch, n)>> /\ tr \in TaskRevs
    BY <1>2, <1>5 DEF Outputs
  <2>2. e.epoch \in Nat
    BY <1>1, <1>5, ReportShape DEF ActionShape
  <2>3. Publishable(Failed(tr, e.epoch, n), n)
    BY <1>1, <2>1, <2>2, FailedPublishable
  <2>4. QED
    BY <1>0, <2>1, <2>3, FewPublishable
<1>6. CASE e.type = "clue"
  <2>1. Outputs(e, n) = ReplanOutputs(<<e.task, ClueRev(e)>>)
    BY <1>6 DEF Outputs
  <2>2. ClueRev(e) \in Revs
    BY <1>1, ClueRevType DEF Inv, BaseInv
  <2>3. <<e.task, ClueRev(e)>> \in TaskRevs
    BY <1>1, <2>2, EventShape DEF TaskRevs
  <2>4. AllPublishable(ReplanOutputs(<<e.task, ClueRev(e)>>), n)
    BY <2>3, ReplansPublishable
  <2>5. QED
    BY <1>0, <2>1, <2>4
<1>7. CASE e.type = "estop"
  <2>1. Outputs(e, n) = SetToSeq({Failed(x, view[x].epoch, n) : x \in EstopTargets(e)})
    BY <1>7 DEF Outputs
  <2>2. QED
    BY <1>0, <1>1, <2>1, StopsPublishable
<1>8. CASE e.type \notin {"task_posted", "receipt", "safety_intercept", "clue", "estop"}
  <2>1. Outputs(e, n) = << >>
    BY <1>8 DEF Outputs
  <2>2. QED
    BY <1>0, <2>1, FewPublishable
<1>9. QED
  BY <1>3, <1>4, <1>5, <1>6, <1>7, <1>8

LEMMA AssignHolder ==
    ASSUME NamesAvailable, LogInv, NEW t \in Tasks, NEW r \in Revs, NEW ep \in Nat,
           NEW p, p = byKey[<<"assignment", t, r, ep>>], p # 0
    PROVE  /\ p \in DOMAIN log /\ log[p].type = "task_assigned"
           /\ log[p].task = t /\ log[p].rev = r /\ log[p].epoch = ep
<1> DEFINE k == <<"assignment", t, r, ep>>
<1>1. k \in Keys /\ k[1] \in OwnKinds
  BY DEF NamesAvailable, OwnKinds
<1>2. p \in DOMAIN log /\ log[p].key = k /\ Known(log[p])
  BY <1>1 DEF LogInv, IndexesOK, LogShape
<1>3. Named(log[p])
  BY <1>1, <1>2, NoneAssumption, OwnKeyHeld
<1>4. QED
  BY <1>2, <1>3, AssignmentKind

-----------------------------------------------------------------------------
(* Handling an input.                                                      *)

LEMMA KnownAfter ==
    ASSUME known \subseteq TaskRevs, IsFiniteSet(known), NEW e \in Event
    PROVE  /\ known \ {<<e.task, e.rev>>} \subseteq TaskRevs
           /\ IsFiniteSet(known \ {<<e.task, e.rev>>})
           /\ known \cup Mentioned(e) \subseteq TaskRevs
           /\ IsFiniteSet(known \cup Mentioned(e))
<1>1. IsFiniteSet(known \ {<<e.task, e.rev>>})
  BY FS_RemoveElement
<1>2. e.task \in Tasks /\ (e.rev # None => e.rev \in Revs) /\ 1 \in Revs
  BY EventShape, RevsAssumption
<1>3. /\ Mentioned(e) \in {{<<e.task, e.rev>>}, {<<e.task, 1>>}, {}}
      /\ Mentioned(e) \subseteq TaskRevs
  BY <1>2 DEF Mentioned, TaskRevs
<1>4. IsFiniteSet(Mentioned(e))
  BY <1>3, FS_Singleton, FS_EmptySet
<1>5. IsFiniteSet(known \cup Mentioned(e))
  BY <1>4, FS_Union
<1>6. QED
  BY <1>1, <1>3, <1>5

\* The list of rounds after input n.
LEMMA RoundsAfterShape ==
    ASSUME RoundInv, NEW e \in Event, NEW R, R = RoundsAfter(e), NEW t \in Tasks, R[t] # None
    PROVE  \/ e.type = "bid_round_opened" /\ t = e.task
              /\ R[t] = [rev |-> e.rev, epoch |-> e.epoch]
              /\ e.rev \in Revs /\ e.epoch \in Nat \ {0}
           \/ R[t] = rounds[t]
<1>1. rounds = [x \in Tasks |-> rounds[x]] /\ e.task \in Tasks
  BY EventShape DEF RoundInv, RoundsShape
<1>2. CASE e.type = "bid_round_opened" /\ t = e.task
  <2>1. R[t] = [rev |-> e.rev, epoch |-> e.epoch]
    BY <1>1, <1>2 DEF RoundsAfter
  <2>2. e.rev \in Revs /\ e.epoch \in Nat \ {0}
    BY <1>2, EventShape, RoundShape
  <2>3. QED
    BY <1>2, <2>1, <2>2
<1>3. CASE ~(e.type = "bid_round_opened" /\ t = e.task)
  BY <1>1, <1>3 DEF RoundsAfter
<1>4. QED
  BY <1>2, <1>3

\* Without a crash a round is listed before anything plans it: its plan would
\* have been published for an opening that was read, and that is the same event.
LEMMA OpenedUnplanned ==
    ASSUME NamesAvailable, LogInv, FirstLife, pc = "take", NEW n \in DOMAIN log, n > offset,
           offset \in Nat, log[n].type = "bid_round_opened"
    PROVE  byKey[<<"assignment", log[n].task, log[n].rev, log[n].epoch>>] = 0
<1>0. PICK e : e = log[n]
  OBVIOUS
<1>1. e \in Event /\ e.task \in Tasks /\ e.rev \in Revs /\ e.epoch \in Nat
  BY <1>0, EventShape, RoundShape DEF LogInv, LogShape
<1>2. SUFFICES ASSUME NEW p, p = byKey[<<"assignment", e.task, e.rev, e.epoch>>], p # 0
               PROVE  FALSE
  BY <1>0
<1>3. /\ p \in DOMAIN log /\ log[p].type = "task_assigned"
      /\ log[p].task = e.task /\ log[p].rev = e.rev /\ log[p].epoch = e.epoch
  BY <1>1, <1>2, AssignHolder
<1>4. PICK m \in DOMAIN log :
          /\ m <= offset /\ log[m].type = "bid_round_opened"
          /\ log[m].task = e.task /\ log[m].rev = e.rev /\ log[m].epoch = e.epoch
  BY <1>3 DEF FirstLife, PlansOpened, OpeningRead, ReadUpTo
<1>5. Named(e) /\ Named(log[m])
  BY <1>0, <1>4, OfferedAssumption DEF LogInv, LogShape, Known
<1>6. e.key = log[m].key /\ e.key # None
  BY <1>0, <1>4, <1>5, NoneAssumption DEF Named, Keyed
<1>7. n = m
  BY <1>0, <1>6 DEF LogInv, IndexesOK
<1>8. n \in Nat
  BY LogLength
<1>9. QED
  BY <1>4, <1>7, <1>8

\* The outputs are what the handler of input n built, and they are staged next.
LEMMA HandlerJob ==
    ASSUME Inv, UNCHANGED board, offset' = offset, outbox' = outbox, crashes' = crashes,
           NEW n \in DOMAIN log, n >= offset,
           job' \in JobType, job'.from = "input", job'.src = n, NEW outs, job'.outs = outs,
           AllPublishable(outs, n),
           pc' = (IF outs = << >> THEN "save" ELSE "stage"),
           \A k \in job'.done : DoneOK(k) /\ job'.src = job.src,
           job'.more =>
              /\ log[n].type = "receipt"
              /\ view[<<log[n].task, log[n].rev>>].plan # None
              /\ \A i \in DOMAIN outs : outs[i].type = "assignment_completed"
    PROVE  JobInv'
<1>1. /\ log' = log /\ byKey' = byKey /\ byTerminal' = byTerminal /\ view' = view
      /\ Len(log) \in Nat /\ DOMAIN log = 1 .. Len(log)
  BY LogLength DEF board, Inv
<1>2. JobShape'
  BY <1>1 DEF JobShape
<1>3. \A i \in DOMAIN outs : OutOK(outs[i])'
  <2>1. SUFFICES ASSUME NEW i \in DOMAIN outs PROVE OutOK(outs[i])'
    OBVIOUS
  <2>2. PICK e : e = outs[i]
    OBVIOUS
  <2>3. Publishable(e, n)
    BY <2>2 DEF AllPublishable
  <2>4. OutOK(e)'
    BY <1>1, <2>3 DEF Publishable, OutOK, Rebuilt, Output, Named, Keyed, ReceiptOf
  <2>5. QED
    BY <2>2, <2>4
<1>4. FiledOK'
  BY DEF FiledOK
<1>5. ASSUME NEW k \in job'.done PROVE DoneOK(k)'
  BY <1>1, <1>5 DEF DoneOK, Settled
<1>6. MoreOK'
  BY <1>1 DEF MoreOK
<1>7. QED
  BY <1>2, <1>3, <1>4, <1>5, <1>6 DEF JobInv

LEMMA TakeStep ==
    ASSUME NamesAvailable, Inv, Take
    PROVE  Inv'
<1>1. LogInv /\ BaseInv /\ FileInv /\ JobInv /\ RoundInv
  BY DEF Inv
<1>2. PICK n : n = Min(Unread)
  OBVIOUS
<1>3. PICK e : e = log[n]
  OBVIOUS
<1>4. PICK outs : outs = Outputs(e, n)
  OBVIOUS
<1>5. /\ UNCHANGED board /\ offset' = offset /\ outbox' = outbox /\ refused' = refused
      /\ upto' = upto /\ crashes' = crashes /\ decided' = decided
      /\ pc = "take" /\ Unread # {}
      /\ known' = (IF e.type \in TerminalTypes
                   THEN known \ {<<e.task, e.rev>>} ELSE known \cup Mentioned(e))
      /\ rounds' = RoundsAfter(e)
      /\ job' = [NoJob EXCEPT !.from = "input", !.src = n, !.outs = outs,
                              !.more = e.type = "receipt" /\ AcceptedReceipt(e)]
      /\ pc' = (IF outs = << >> THEN "save" ELSE "stage")
  BY <1>2, <1>3, <1>4 DEF Take, Goto, durable, others
<1>6. log' = log /\ byKey' = byKey /\ Len(log) \in Nat /\ DOMAIN log = 1 .. Len(log)
  BY <1>1, <1>5, LogLength DEF board
<1>7. /\ n \in Unread /\ (\A m \in Unread : n <= m)
      /\ n \in DOMAIN log /\ n > offset /\ n \in Nat /\ n # 0 /\ n >= offset
  <2>1. Unread \subseteq 0 .. Len(log) /\ Unread \subseteq offset + 1 .. upto
    BY <1>1, <1>6 DEF Unread, Batch, BaseInv
  <2>2. n \in Unread /\ \A m \in Unread : n <= m
    BY <1>2, <1>5, <1>6, <2>1, MinOf
  <2>3. QED
    BY <1>1, <1>6, <2>1, <2>2 DEF BaseInv
<1>8. e \in Event
  BY <1>1, <1>3, <1>7 DEF LogInv, LogShape
<1>9. LogInv' /\ FileInv'
  BY <1>1, <1>5, BoardSame, FilesSame
<1>10. BaseInv'
  <2>1. known' \subseteq TaskRevs /\ IsFiniteSet(known')
    BY <1>1, <1>5, <1>8, KnownAfter DEF BaseInv
  <2>2. pc' \in Labels
    BY <1>5 DEF Labels
  <2>3. QED
    BY <1>1, <1>5, <1>6, <2>1, <2>2 DEF BaseInv, ActionShape
<1>11. AllPublishable(outs, n)
  BY <1>3, <1>4, <1>7, OutputsPublishable
<1>12. JobInv'
  <2>1. PICK more \in BOOLEAN : more = (e.type = "receipt" /\ AcceptedReceipt(e))
    OBVIOUS
  <2>2. job' = [NoJob EXCEPT !.from = "input", !.src = n, !.outs = outs, !.more = more]
    BY <1>5, <2>1
  <2>3. /\ job'.from = "input" /\ job'.src = n /\ job'.outs = outs /\ job'.done = {}
        /\ job'.more = more
    BY <2>2 DEF NoJob
  <2>4. job' \in JobType
    <3>1. NoJob \in JobType /\ "input" \in Origins
      BY DEF NoJob, JobType, Origins
    <3>2. outs \in Seq(Event)
      BY <1>11 DEF AllPublishable
    <3> HIDE DEF NoJob
    <3>3. QED
      BY <1>7, <2>2, <3>1, <3>2 DEF JobType
  <2>5. ASSUME more
        PROVE  /\ log[n].type = "receipt" /\ view[<<log[n].task, log[n].rev>>].plan # None
               /\ \A i \in DOMAIN outs : outs[i].type = "assignment_completed"
    <3>1. e.type = "receipt" /\ AcceptedReceipt(e)
      BY <2>1, <2>5
    <3>2. view[<<e.task, e.rev>>].plan # None
      BY <3>1 DEF AcceptedReceipt, Relevant
    <3>3. outs = <<Completed(e)>>
      BY <1>4, <3>1 DEF Outputs, ReceiptOutputs, AcceptedReceipt
    <3>4. Completed(e).type = "assignment_completed"
      BY DEF Completed
    <3>5. \A i \in DOMAIN outs : outs[i] = Completed(e)
      BY <3>3
    <3>6. QED
      BY <1>3, <3>1, <3>2, <3>4, <3>5
  <2>6. job'.more => /\ log[n].type = "receipt"
                     /\ view[<<log[n].task, log[n].rev>>].plan # None
                     /\ \A i \in DOMAIN outs : outs[i].type = "assignment_completed"
    BY <2>3, <2>5
  <2>7. \A k \in job'.done : DoneOK(k) /\ job'.src = job.src
    BY <2>3
  <2>8. QED
    BY <1>5, <1>7, <1>11, <2>3, <2>4, <2>6, <2>7, HandlerJob
<1>13. RoundInv'
  <2>1. /\ job'.src = n /\ job'.from = "input" /\ job'.outs = outs
        /\ offset \in Nat /\ ReadUpTo = offset
    BY <1>1, <1>5, <1>6 DEF NoJob, BaseInv, ReadUpTo
  <2>2. rounds' = [t \in Tasks |-> rounds'[t]]
    <3>1. rounds = [t \in Tasks |-> rounds[t]]
      BY <1>1 DEF RoundInv, RoundsShape
    <3>2. \/ rounds' = rounds
          \/ rounds' = [rounds EXCEPT ![e.task] = None]
          \/ rounds' = [rounds EXCEPT ![e.task] = [rev |-> e.rev, epoch |-> e.epoch]]
      <4> DEFINE A == [rounds EXCEPT ![e.task] = [rev |-> e.rev, epoch |-> e.epoch]]
                 B == [rounds EXCEPT ![e.task] = None]
      <4>1. RoundsAfter(e) = CASE e.type = "bid_round_opened" -> A
                               [] e.type \in TerminalTypes \cup {"task_assigned"} -> B
                               [] OTHER -> rounds
        BY DEF RoundsAfter
      <4> HIDE DEF A, B
      <4>2. RoundsAfter(e) \in {A, B, rounds}
        BY <4>1
      <4>3. QED
        BY <1>5, <4>2 DEF A, B
    <3>3. QED
      BY <3>1, <3>2
  <2>3. \A t \in Tasks : rounds'[t] # None =>
           \/ e.type = "bid_round_opened" /\ t = e.task
              /\ rounds'[t] = [rev |-> e.rev, epoch |-> e.epoch]
              /\ e.rev \in Revs /\ e.epoch \in Nat \ {0}
           \/ rounds'[t] = rounds[t]
    BY <1>1, <1>5, <1>8, RoundsAfterShape
  <2>4. RoundsShape'
    BY <1>1, <2>2, <2>3 DEF RoundInv, RoundsShape
  <2>5. SUFFICES ASSUME FirstLife PROVE FirstLife'
    BY <1>1, <1>5, <2>4 DEF RoundInv
  <2>6. \A m \in DOMAIN log : m <= offset => m <= ReadUpTo'
    BY <1>5, <1>6, <1>7, <2>1 DEF ReadUpTo
  <2>7. \A t, r, ep : OpeningRead(t, r, ep) => OpeningRead(t, r, ep)'
    BY <1>6, <2>1, <2>6 DEF OpeningRead
  <2>8. NothingPublished' /\ job'.from # "replay" /\ PlanInHand'
    <3>1. \A i \in DOMAIN outs : outs[i].type # "task_assigned"
      BY <1>11 DEF AllPublishable, Publishable
    <3>2. QED
      BY <1>5, <2>1, <3>1 DEF NothingPublished, PlanInHand
  <2>9. RoundsOpened'
    <3>1. SUFFICES ASSUME NEW t \in Tasks, NEW q, q = rounds'[t], q # None
                   PROVE  OpeningRead(t, q.rev, q.epoch)'
      BY DEF RoundsOpened, OpeningRead
    <3>2. CASE rounds'[t] = rounds[t]
      <4>1. OpeningRead(t, q.rev, q.epoch)
        BY <2>5, <3>1, <3>2 DEF FirstLife, RoundsOpened
      <4>2. QED
        BY <2>7, <4>1
    <3>3. CASE /\ e.type = "bid_round_opened" /\ t = e.task
               /\ rounds'[t] = [rev |-> e.rev, epoch |-> e.epoch]
      <4>1. outs = << >>
        BY <1>4, <3>3 DEF Outputs
      <4>2. n <= ReadUpTo'
        BY <1>5, <1>7, <2>1, <4>1 DEF ReadUpTo
      <4>3. q.rev = e.rev /\ q.epoch = e.epoch
        BY <3>1, <3>3
      <4>4. QED
        BY <1>3, <1>6, <1>7, <3>3, <4>2, <4>3 DEF OpeningRead
    <3>4. QED
      BY <2>3, <3>1, <3>2, <3>3
  <2>10. PlansOpened'
    <3>1. SUFFICES ASSUME NEW p \in DOMAIN log, log[p].type = "task_assigned"
                   PROVE  OpeningRead(log[p].task, log[p].rev, log[p].epoch)'
      BY <1>6 DEF PlansOpened, OpeningRead
    <3>2. PICK m \in DOMAIN log :
             /\ m <= offset /\ log[m].type = "bid_round_opened"
             /\ log[m].task = log[p].task /\ log[m].rev = log[p].rev
             /\ log[m].epoch = log[p].epoch
      BY <2>1, <2>5, <3>1 DEF FirstLife, PlansOpened, OpeningRead
    <3>3. QED
      BY <1>6, <2>6, <3>2 DEF OpeningRead
  <2>11. RoundsUnplanned'
    <3>1. SUFFICES ASSUME NEW t \in Tasks, rounds'[t] # None
                   PROVE  byKey'[AssignKey(t)'] = 0
      BY DEF RoundsUnplanned
    <3>2. CASE rounds'[t] = rounds[t]
      <4>1. AssignKey(t)' = AssignKey(t) /\ ~Closing(t)
        BY <1>5, <3>2 DEF AssignKey, Closing
      <4>2. QED
        BY <1>6, <2>5, <3>1, <3>2, <4>1 DEF FirstLife, RoundsUnplanned
    <3>3. CASE /\ e.type = "bid_round_opened" /\ t = e.task
               /\ rounds'[t] = [rev |-> e.rev, epoch |-> e.epoch]
      <4>1. AssignKey(t)' = <<"assignment", e.task, e.rev, e.epoch>>
        BY <3>3 DEF AssignKey
      <4>2. byKey[<<"assignment", e.task, e.rev, e.epoch>>] = 0
        BY <1>1, <1>3, <1>5, <1>7, <2>1, <2>5, <3>3, OpenedUnplanned
      <4>3. QED
        BY <1>6, <4>1, <4>2
    <3>4. QED
      BY <2>3, <3>1, <3>2, <3>3
  <2>12. QED
    BY <2>8, <2>9, <2>10, <2>11 DEF FirstLife
<1>14. QED
  BY <1>9, <1>10, <1>12, <1>13 DEF Inv

LEMMA FollowUpStep ==
    ASSUME NamesAvailable, Inv, FollowUp
    PROVE  Inv'
<1>1. LogInv /\ BaseInv /\ FileInv /\ JobInv /\ RoundInv
  BY DEF Inv
<1>2. PICK n : n = job.src
  OBVIOUS
<1>3. PICK r : r = log[n]
  OBVIOUS
<1>4. PICK tr : tr = <<r.task, r.rev>>
  OBVIOUS
<1>5. PICK outs : outs = IF ReplanPending(view[tr]) THEN ReplanOutputs(tr)
                         ELSE IF view[tr].plan.asgs \subseteq view[tr].completed
                         THEN <<Done(tr, n)>> ELSE << >>
  OBVIOUS
<1>6. /\ UNCHANGED board /\ offset' = offset /\ outbox' = outbox /\ refused' = refused
      /\ rounds' = rounds /\ known' = known /\ upto' = upto
      /\ crashes' = crashes /\ decided' = decided /\ pc = "followup"
      /\ job' = [job EXCEPT !.outs = outs, !.more = FALSE]
      /\ pc' = (IF outs = << >> THEN "save" ELSE "stage")
  BY <1>2, <1>3, <1>4, <1>5 DEF FollowUp, Goto, durable, memory, others
<1>7. log' = log /\ byKey' = byKey /\ Len(log) \in Nat /\ DOMAIN log = 1 .. Len(log)
  BY <1>1, <1>6, LogLength DEF board
<1>8. /\ job \in JobType /\ job.from = "input" /\ n >= offset /\ job.more
      /\ n \in DOMAIN log /\ r.type = "receipt" /\ view[tr].plan # None
      /\ \A k \in job.done : DoneOK(k)
  BY <1>1, <1>2, <1>3, <1>4, <1>6 DEF JobInv, JobShape, MoreOK
<1>9. LogInv' /\ FileInv'
  BY <1>1, <1>6, BoardSame, FilesSame
<1>10. BaseInv'
  BY <1>1, <1>6, <1>7 DEF BaseInv, Labels, ActionShape
<1>11. tr \in TaskRevs
  <2>1. r \in Event
    BY <1>1, <1>3, <1>8 DEF LogInv, LogShape
  <2>2. QED
    BY <1>4, <1>8, <2>1, EventShape DEF TaskRevs
<1>12. AllPublishable(outs, n)
  <2>1. AllPublishable(ReplanOutputs(tr), n)
    BY <1>11, ReplansPublishable
  <2>2. AllPublishable(<<Done(tr, n)>>, n)
    <3>1. crashes \in Nat /\ n \in Nat
      BY <1>1, <1>7, <1>8, CoordinatorAssumption DEF BaseInv
    <3>2. view[tr] \in View /\ view[tr].epoch # 0
      BY <1>1, <1>8, <1>11 DEF LogInv, ViewsOK, ViewOK
    <3>3. Output(Done(tr, n)) /\ Done(tr, n).type = "task_done"
      BY <1>8, <1>11, <3>1, <3>2, DoneNamed
    <3>4. Publishable(Done(tr, n), n)
      BY <3>3 DEF Publishable, TerminalTypes
    <3>5. QED
      BY <3>4, FewPublishable
  <2>3. AllPublishable(<< >>, n)
    BY FewPublishable
  <2>4. QED
    BY <1>5, <2>1, <2>2, <2>3
<1>13. JobInv'
  <2>1. outs \in Seq(Event)
    BY <1>12 DEF AllPublishable
  <2>2. /\ job'.from = "input" /\ job'.src = n /\ job'.outs = outs /\ job'.done = job.done
        /\ job'.more = FALSE /\ job' \in JobType
    BY <1>2, <1>6, <1>8, <2>1 DEF JobType
  <2>3. \A k \in job'.done : DoneOK(k) /\ job'.src = job.src
    BY <1>2, <1>8, <2>2
  <2>4. QED
    BY <1>6, <1>8, <1>12, <2>2, <2>3, HandlerJob
<1>14. RoundInv'
  <2>1. /\ rounds' = [x \in Tasks |-> rounds'[x]]
        /\ \A x \in Tasks : rounds'[x] \in {rounds[x], None}
    BY <1>1, <1>6 DEF RoundInv, RoundsShape
  <2>2. /\ job'.src = job.src /\ job'.from = "input" /\ job'.outs = outs
        /\ offset \in Nat /\ job.src \in Nat /\ job.src >= offset
    BY <1>1, <1>2, <1>6, <1>7, <1>8 DEF JobType, BaseInv
  <2>3. \A x \in Tasks : ~Closing(x)
    BY <1>6 DEF Closing
  <2>4. \A m \in Nat : m <= ReadUpTo => m <= ReadUpTo'
    BY <1>6, <2>2 DEF ReadUpTo
  <2>5. NothingPublished' /\ job'.from # "replay" /\ PlanInHand'
    <3>1. \A i \in DOMAIN outs : outs[i].type # "task_assigned"
      BY <1>12 DEF AllPublishable, Publishable
    <3>2. QED
      BY <1>6, <2>2, <3>1 DEF NothingPublished, PlanInHand
  <2>6. QED
    BY <1>1, <1>6, <2>1, <2>3, <2>4, <2>5, RoundsSame
<1>15. QED
  BY <1>9, <1>10, <1>13, <1>14 DEF Inv

-----------------------------------------------------------------------------
(* Staging an output.                                                      *)

LEMMA CurrentOK ==
    ASSUME JobInv, pc \in {"stage", "append", "unlink"}
    PROVE  /\ OutOK(Current) /\ Current.key \in Keys /\ Output(Current)
           /\ job.outs \in Seq(Event) /\ job.outs # << >>
           /\ Current = job.outs[1] /\ 1 \in DOMAIN job.outs
<1>1. job.outs \in Seq(Event) /\ job.outs # << >>
  BY DEF JobInv, JobShape, JobType
<1>2. Current = job.outs[1] /\ 1 \in DOMAIN job.outs
  BY <1>1 DEF Current
<1>3. OutOK(Current)
  BY <1>2 DEF JobInv
<1>4. QED
  BY <1>1, <1>2, <1>3 DEF OutOK, Output, Named

LEMMA StageFiles ==
    ASSUME LogInv, FileInv, JobInv, pc = "stage", UNCHANGED board, offset' = offset,
           crashes' = crashes,
           outbox' = [outbox EXCEPT ![Current.key] =
                         Filed([event |-> Current, src |-> job.src])]
    PROVE  /\ FileInv'
           /\ outbox'[Current.key] # None
           /\ \A k \in Keys : outbox[k] # None => outbox'[k] = outbox[k]
<1>1. PICK e : e = Current
  OBVIOUS
<1>2. PICK r : r = [event |-> e, src |-> job.src]
  OBVIOUS
<1>3. OutOK(e) /\ e.key \in Keys /\ Output(e) /\ e \in Event
  BY <1>1, CurrentOK DEF Output, Named
<1>4. r.event = e /\ r.src = job.src
  BY <1>2
<1>5. job.src \in 0 .. Len(log) /\ Len(log) \in Nat
  BY LogLength DEF JobInv, JobShape
<1>6. r # None
  BY <1>2, <1>3, <1>5, CoordinatorAssumption
<1>7. outbox' = [outbox EXCEPT ![e.key] = Filed(r)]
  BY <1>1, <1>2
<1>8. Filed(r) = IF outbox[e.key] # None THEN outbox[e.key] ELSE r
  BY <1>4 DEF Filed
<1>9. outbox = [k \in Keys |-> outbox[k]]
  BY DEF FileInv, FilesShape
<1>10. /\ outbox' = [k \in Keys |-> outbox'[k]]
       /\ \A k \in Keys : outbox[k] # None => outbox'[k] = outbox[k]
       /\ \A k \in Keys : k # e.key => outbox'[k] = outbox[k]
       /\ outbox[e.key] = None => outbox'[e.key] = r
       /\ outbox'[e.key] # None
  BY <1>3, <1>6, <1>7, <1>8, <1>9
<1>11. log' = log /\ byKey' = byKey
  BY DEF board
<1>12. FileOK(e.key, r) \/ outbox[e.key] # None
  <2>1. SUFFICES ASSUME outbox[e.key] = None PROVE FileOK(e.key, r)
    OBVIOUS
  <2>2. e.type = "assignment_completed" => ReceiptOf(job.src, e)
    BY <1>3, <2>1 DEF OutOK
  <2>3. QED
    BY <1>3, <1>4, <1>5, <2>2 DEF FileOK
<1>13. FilesShape'
  <2>1. ASSUME NEW k \in Keys, outbox'[k] # None PROVE FileOK(k, outbox'[k])
    <3>1. CASE outbox[k] # None
      BY <1>10, <3>1 DEF FileInv, FilesShape
    <3>2. CASE outbox[k] = None
      <4>1. k = e.key /\ outbox'[k] = r
        BY <1>10, <2>1, <3>2
      <4>2. QED
        BY <1>12, <3>2, <4>1
    <3>3. QED
      BY <3>1, <3>2
  <2>2. ASSUME NEW k \in Keys, outbox'[k] # None PROVE FileOK(k, outbox[k])'
    <3>1. PICK f : f = outbox'[k]
      OBVIOUS
    <3>2. FileOK(k, f)
      BY <2>1, <2>2, <3>1
    <3>3. FileOK(k, f)'
      BY <1>11, <3>2 DEF FileOK, Output, Named, Keyed, ReceiptOf
    <3>4. QED
      BY <3>1, <3>3
  <2>3. QED
    BY <1>10, <2>2 DEF FilesShape
<1>14. FilesAgree'
  <2>1. SUFFICES ASSUME NEW k \in Keys, outbox'[k] # None, byKey[k] # 0
                 PROVE  \/ log[byKey[k]] = outbox'[k].event
                        \/ outbox'[k].event.type \in TerminalTypes
                        \/ Rebuilt(outbox'[k].event)
    BY <1>11 DEF FilesAgree, Rebuilt
  <2>2. CASE outbox[k] # None
    BY <1>10, <2>1, <2>2 DEF FileInv, FilesAgree
  <2>3. CASE outbox[k] = None
    <3>1. k = e.key /\ outbox'[k] = r
      BY <1>10, <2>1, <2>3
    <3>2. e.type \in TerminalTypes \/ Rebuilt(e)
      BY <1>3, <2>1, <2>3, <3>1 DEF OutOK
    <3>3. QED
      BY <1>4, <3>1, <3>2
  <2>4. QED
    BY <2>2, <2>3
<1>15. CompletionsFiled'
  BY <1>10, <1>11 DEF FileInv, CompletionsFiled, CompletionKey
<1>16. QED
  BY <1>1, <1>10, <1>13, <1>14, <1>15 DEF FileInv

LEMMA StageStep ==
    ASSUME NamesAvailable, Inv, Stage
    PROVE  Inv'
<1>1. LogInv /\ BaseInv /\ FileInv /\ JobInv /\ RoundInv
  BY DEF Inv
<1>2. /\ UNCHANGED board /\ offset' = offset /\ refused' = refused
      /\ rounds' = rounds /\ known' = known /\ upto' = upto
      /\ crashes' = crashes /\ decided' = decided /\ pc = "stage"
      /\ \/ job' = NoJob /\ pc' = "poll" /\ outbox' = outbox
         \/ /\ pc' = "append" /\ job' = job
            /\ outbox' = [outbox EXCEPT ![Current.key] =
                             Filed([event |-> Current, src |-> job.src])]
  BY DEF Stage, Idle, Goto, memory, others
<1>3. log' = log /\ byKey' = byKey /\ byTerminal' = byTerminal /\ view' = view
      /\ Len(log) \in Nat /\ DOMAIN log = 1 .. Len(log)
  BY <1>1, <1>2, LogLength DEF board
<1>4. LogInv'
  BY <1>1, <1>2, BoardSame
<1>5. BaseInv'
  BY <1>1, <1>2, <1>3 DEF BaseInv, Labels, ActionShape
<1>6. RoundInv'
  <2>1. /\ rounds' = [x \in Tasks |-> rounds'[x]]
        /\ \A x \in Tasks : rounds'[x] \in {rounds[x], None}
    BY <1>1, <1>2 DEF RoundInv, RoundsShape
  <2>2. /\ ReadUpTo' = ReadUpTo
        /\ FirstLife => NothingPublished' /\ job'.from # "replay" /\ PlanInHand'
    BY <1>2 DEF ReadUpTo, FirstLife, NothingPublished, PlanInHand, AssignKey, NoJob
  <2>3. \A x \in Tasks : ~Closing(x)
    BY <1>2 DEF Closing
  <2>4. QED
    BY <1>1, <1>2, <2>1, <2>2, <2>3, RoundsSame
<1>7. CASE job' = NoJob /\ pc' = "poll" /\ outbox' = outbox
  <2>1. FileInv'
    BY <1>1, <1>2, <1>7, FilesSame
  <2>2. JobInv'
    BY <1>3, <1>7, IdleJob
  <2>3. QED
    BY <1>4, <1>5, <1>6, <2>1, <2>2 DEF Inv
<1>8. CASE /\ pc' = "append" /\ job' = job
           /\ outbox' = [outbox EXCEPT ![Current.key] =
                             Filed([event |-> Current, src |-> job.src])]
  <2>1. /\ FileInv' /\ outbox'[Current.key] # None
        /\ \A k \in Keys : outbox[k] # None => outbox'[k] = outbox[k]
    BY <1>1, <1>2, <1>8, StageFiles
  <2>2. JobShape'
    <3>1. Unread' = Unread
      BY <1>2, <1>3 DEF Unread, Batch
    <3>2. QED
      BY <1>1, <1>2, <1>3, <1>8, <3>1 DEF JobInv, JobShape
  <2>3. ASSUME NEW i \in DOMAIN job.outs PROVE OutOK(job.outs[i])'
    <3>1. PICK e : e = job.outs[i]
      OBVIOUS
    <3>2. OutOK(e) /\ e.key \in Keys
      BY <1>1, <3>1 DEF JobInv, OutOK, Output, Named
    <3>3. OutOK(e)'
      BY <1>2, <1>3, <1>8, <2>1, <3>2 DEF OutOK, Rebuilt, Output, Named, Keyed, ReceiptOf
    <3>4. QED
      BY <1>8, <3>1, <3>3
  <2>4. FiledOK'
    BY <1>8, <2>1 DEF FiledOK, Current
  <2>5. ASSUME NEW k \in job.done PROVE DoneOK(k)'
    <3>1. DoneOK(k) /\ k \in Keys
      BY <1>1 DEF JobInv, JobShape, JobType
    <3>2. QED
      BY <1>2, <1>3, <1>8, <2>1, <3>1 DEF DoneOK, Settled
  <2>6. MoreOK'
    BY <1>1, <1>2, <1>3, <1>8 DEF JobInv, MoreOK
  <2>7. JobInv'
    BY <1>8, <2>2, <2>3, <2>4, <2>5, <2>6 DEF JobInv
  <2>8. QED
    BY <1>4, <1>5, <1>6, <2>1, <2>7 DEF Inv
<1>9. QED
  BY <1>2, <1>7, <1>8

-----------------------------------------------------------------------------
(* Appending what is staged.                                               *)

\* The file of the current output: an event with its key, so one like it.
LEMMA StagedOK ==
    ASSUME LogInv, FileInv, JobInv, pc \in {"append", "unlink"}
    PROVE  /\ outbox[Current.key] # None /\ Current.key \in Keys
           /\ Output(Staged) /\ Named(Staged) /\ Staged \in Event /\ Known(Staged)
           /\ Staged.key = Current.key /\ Staged.key # None
           /\ Staged.task = Current.task /\ Staged.rev = Current.rev
           /\ Staged.type \in TerminalTypes <=> Current.type \in TerminalTypes
           /\ Staged.type \notin TerminalTypes => Staged.type = Current.type
           /\ Staged.type = "assignment_completed" =>
                 /\ Staged.epoch = Current.epoch /\ Staged.asg = Current.asg
                 /\ ReceiptOf(outbox[Current.key].src, Staged)
           /\ OutOK(Current)
<1>1. PICK c : c = Current
  OBVIOUS
<1>2. OutOK(c) /\ c.key \in Keys /\ Output(c) /\ Named(c)
  BY <1>1, CurrentOK DEF Output
<1>3. outbox[c.key] # None
  BY <1>1 DEF JobInv, FiledOK
<1>4. FileOK(c.key, outbox[c.key])
  BY <1>2, <1>3 DEF FileInv, FilesShape
<1>5. PICK e : e = outbox[c.key].event
  OBVIOUS
<1>6. Output(e) /\ Named(e) /\ e.key = c.key /\ e.key # None /\ e \in Event
      /\ (e.type = "assignment_completed" => ReceiptOf(outbox[c.key].src, e))
  BY <1>2, <1>4, <1>5, NoneAssumption DEF FileOK, Output, Named
<1>7. /\ e.task = c.task /\ e.rev = c.rev
      /\ e.type \in TerminalTypes <=> c.type \in TerminalTypes
      /\ e.type \notin TerminalTypes => e.type = c.type
      /\ e.type = "assignment_completed" => e.epoch = c.epoch /\ e.asg = c.asg
  BY <1>2, <1>6, SameKey
<1>8. Staged = e
  BY <1>1, <1>5 DEF Staged
<1>9. QED
  BY <1>1, <1>2, <1>3, <1>5, <1>6, <1>7, <1>8 DEF Known

LEMMA TerminalRev ==
    ASSUME NEW e, Output(e)
    PROVE  <<e.task, e.rev>> \in TaskRevs
<1>1. e \in Event /\ e.type \notin {"clue", "estop"}
  BY DEF Output, Named, OutputTypes, TerminalTypes
<1>2. QED
  BY <1>1, EventShape DEF TaskRevs

\* Published: the next output, or what follows the last one.
LEMMA PublishedJob ==
    ASSUME Inv, pc = "append", Published, offset' = offset, outbox' = outbox,
           crashes' = crashes, rounds' = rounds, Unread' = Unread,
           Len(log') \in Nat, Len(log) <= Len(log'), DOMAIN log' = 1 .. Len(log'),
           \A n \in DOMAIN log : log'[n] = log[n],
           \A tr \in TaskRevs : byTerminal[tr] # 0 => byTerminal'[tr] # 0,
           \A k \in Keys : byKey[k] # 0 => byKey'[k] # 0,
           \A k \in Keys : k # Current.key => byKey'[k] = byKey[k],
           byKey'[Current.key] # 0 \/ (/\ Staged.type \in TerminalTypes
                                       /\ byTerminal'[<<Staged.task, Staged.rev>>] # 0),
           \A tr \in TaskRevs : job.more /\ view[tr].plan # None => view'[tr].plan # None
    PROVE  /\ JobInv' /\ pc' \in {"resolve", "stage", "followup", "save"}
           /\ job'.src = job.src /\ job'.from = job.from /\ job'.task = job.task
           /\ job.from = "tick" => pc' = "resolve"
           /\ pc' = "save" => job.src \in Nat /\ job.src >= offset
           /\ \A i \in DOMAIN job'.outs : \E j \in DOMAIN job.outs : job'.outs[i] = job.outs[j]
<1>1. LogInv /\ BaseInv /\ FileInv /\ JobInv /\ RoundInv
  BY DEF Inv
<1>2. PICK c : c = Current
  OBVIOUS
<1>3. /\ OutOK(c) /\ c.key \in Keys /\ job.outs \in Seq(Event) /\ job.outs # << >>
      /\ outbox[c.key] # None
  BY <1>1, <1>2, CurrentOK, StagedOK
<1>4. /\ job' = [job EXCEPT !.outs = Tail(@), !.done = @ \cup {c.key}]
      /\ pc' = (CASE job.src = 0           -> "resolve"
                  [] Len(job.outs) > 1     -> "stage"
                  [] Len(job.outs) = 1 /\ job.src # 0 ->
                        IF job.more THEN "followup" ELSE "save")
  BY <1>2 DEF Published, Goto
<1>5. job \in JobType /\ JobShape
  BY <1>1 DEF JobInv, JobShape
<1>6. PICK t \in Seq(Event) : t = Tail(job.outs)
  BY <1>3, HeadTailProperties
<1>7. /\ Len(job.outs) \in Nat \ {0} /\ Len(t) = Len(job.outs) - 1
      /\ DOMAIN t = 1 .. Len(t) /\ DOMAIN job.outs = 1 .. Len(job.outs)
      /\ \A i \in DOMAIN t : t[i] = job.outs[i + 1] /\ i + 1 \in DOMAIN job.outs
      /\ (t = << >> <=> Len(job.outs) = 1)
  <2>1. Len(job.outs) \in Nat \ {0} /\ DOMAIN job.outs = 1 .. Len(job.outs)
    BY <1>3
  <2>2. Len(t) = Len(job.outs) - 1 /\ \A i \in 1 .. Len(t) : t[i] = job.outs[i + 1]
    BY <1>3, <1>6, HeadTailProperties
  <2>3. DOMAIN t = 1 .. Len(t) /\ (t = << >> <=> Len(t) = 0) /\ Len(t) \in Nat
    BY <1>6, EmptySeq, LenProperties
  <2>4. QED
    BY <2>1, <2>2, <2>3
<1>8. /\ job' \in JobType /\ job'.outs = t /\ job'.done = job.done \cup {c.key}
      /\ job'.src = job.src /\ job'.from = job.from /\ job'.task = job.task
      /\ job'.more = job.more
  BY <1>3, <1>4, <1>5, <1>6 DEF JobType
<1>9. /\ job.src \in 0 .. Len(log) /\ Len(log) \in Nat /\ DOMAIN log = 1 .. Len(log)
      /\ offset \in Nat
      /\ job.from \in Origins /\ job.from # "none"
      /\ job.from = "input" => job.src # 0 /\ job.src >= offset
      /\ job.from # "input" => job.src = 0 /\ Len(job.outs) <= 1
      /\ job.from = "tick" => job.task \in Tasks /\ rounds[job.task] # None /\ Unread = {}
  BY <1>1, <1>5, LogLength DEF JobShape, JobType, BaseInv
<1>10. \/ job.src = 0 /\ pc' = "resolve" /\ t = << >> /\ job.from # "input"
       \/ job.src # 0 /\ pc' = "stage" /\ t # << >> /\ job.from = "input"
       \/ job.src # 0 /\ pc' = "followup" /\ job.more /\ t = << >> /\ job.from = "input"
       \/ job.src # 0 /\ pc' = "save" /\ t = << >> /\ job.from = "input"
  <2>1. CASE job.src = 0
    <3>1. Len(job.outs) = 1
      BY <1>7, <1>9, <2>1
    <3>2. QED
      BY <1>4, <1>7, <1>9, <2>1, <3>1
  <2>2. CASE job.src # 0 /\ Len(job.outs) > 1
    BY <1>4, <1>7, <1>9, <2>2
  <2>3. CASE job.src # 0 /\ Len(job.outs) = 1
    BY <1>4, <1>7, <1>9, <2>3
  <2>4. QED
    BY <1>7, <2>1, <2>2, <2>3
<1>11. JobShape'
  <2>1. job'.src \in 0 .. Len(log')
    BY <1>8, <1>9
  <2>2. job'.src <= offset \/ pc' # "resolve"
    BY <1>8, <1>9, <1>10
  <2>3. job'.from # "input" => job'.src = 0 /\ Len(job'.outs) <= 1
    BY <1>7, <1>8, <1>9, <1>10
  <2>4. QED
    BY <1>8, <1>9, <1>10, <2>1, <2>2, <2>3 DEF JobShape
<1>12. \A n, f : ReceiptOf(n, f) => ReceiptOf(n, f)'
  BY <1>9 DEF ReceiptOf
<1>13. \A i \in DOMAIN t : OutOK(t[i])'
  <2>1. SUFFICES ASSUME NEW i \in DOMAIN t PROVE OutOK(t[i])'
    OBVIOUS
  <2>2. PICK e : e = t[i]
    OBVIOUS
  <2>3. OutOK(e) /\ e.key \in Keys
    <3>1. e = job.outs[i + 1] /\ i + 1 \in DOMAIN job.outs
      BY <1>7, <2>2
    <3>2. OutOK(e)
      BY <1>1, <3>1 DEF JobInv
    <3>3. QED
      BY <3>2 DEF OutOK, Output, Named
  <2>4. byKey'[e.key] = 0 \/ outbox[e.key] # None \/ e.type \in TerminalTypes \/ Rebuilt(e)
    <3>1. CASE e.key = c.key
      BY <1>3, <3>1
    <3>2. CASE e.key # c.key
      BY <1>2, <2>3, <3>2 DEF OutOK
    <3>3. QED
      BY <3>1, <3>2
  <2>5. OutOK(e)'
    BY <1>8, <1>12, <2>3, <2>4 DEF OutOK, Rebuilt, Output, Named, Keyed
  <2>6. QED
    BY <2>2, <2>5
<1>14. FiledOK'
  BY <1>10 DEF FiledOK
<1>15. ASSUME NEW k \in job.done PROVE DoneOK(k)'
  <2>1. DoneOK(k) /\ k \in Keys
    BY <1>1, <1>5 DEF JobInv, JobType
  <2>2. Settled(outbox[k].event) => Settled(outbox[k].event)'
    <3>1. Output(outbox[k].event)
      BY <1>1, <2>1 DEF FileInv, FilesShape, FileOK, DoneOK
    <3>2. <<outbox[k].event.task, outbox[k].event.rev>> \in TaskRevs
      BY <3>1, TerminalRev
    <3>3. QED
      BY <3>2 DEF Settled
  <2>3. QED
    BY <1>8, <2>1, <2>2 DEF DoneOK
<1>16. DoneOK(c.key)'
  <2>1. PICK e : e = Staged
    OBVIOUS
  <2>2. e = outbox[c.key].event
    BY <1>2, <2>1 DEF Staged
  <2>3. /\ e.type = "assignment_completed" =>
              /\ e.type = c.type /\ e.task = c.task /\ e.rev = c.rev
              /\ e.epoch = c.epoch /\ e.asg = c.asg
              /\ ReceiptOf(outbox[c.key].src, e)
    BY <1>1, <1>2, <2>1, StagedOK DEF TerminalTypes
  <2>4. ASSUME e.type = "assignment_completed"
        PROVE  outbox[c.key].src <= offset \/ outbox[c.key].src = job.src
    <3>1. CASE job.from = "replay"
      BY <1>3, <3>1 DEF OutOK
    <3>2. CASE job.from # "replay"
      <4>1. ReceiptOf(job.src, c) /\ ReceiptOf(outbox[c.key].src, e)
        BY <1>3, <2>3, <2>4, <3>2 DEF OutOK
      <4>2. QED
        BY <1>1, <2>3, <2>4, <4>1, ReceiptOnce DEF ReceiptOf
    <3>3. QED
      BY <3>1, <3>2
  <2>5. byKey'[c.key] # 0 \/ Settled(e)'
    BY <1>2, <2>1 DEF Settled
  <2>6. QED
    BY <1>3, <1>8, <2>2, <2>4, <2>5 DEF DoneOK, Settled
<1>17. MoreOK'
  <2>1. pc' = "followup" => job'.more
    BY <1>8, <1>10
  <2>2. ASSUME job.more
        PROVE  /\ job.src \in DOMAIN log' /\ log'[job.src].type = "receipt"
               /\ view'[<<log'[job.src].task, log'[job.src].rev>>].plan # None
               /\ \A i \in DOMAIN t : t[i].type = "assignment_completed"
    <3>0. PICK r : r = log[job.src]
      OBVIOUS
    <3>1. /\ job.src \in DOMAIN log /\ r.type = "receipt"
          /\ view[<<r.task, r.rev>>].plan # None
          /\ \A i \in DOMAIN job.outs : job.outs[i].type = "assignment_completed"
      BY <1>1, <2>2, <3>0 DEF JobInv, MoreOK
    <3>2. <<r.task, r.rev>> \in TaskRevs
      <4>1. r \in Event
        BY <1>1, <3>0, <3>1 DEF LogInv, LogShape
      <4>2. QED
        BY <3>1, <4>1, EventShape DEF TaskRevs
    <3>3. view'[<<r.task, r.rev>>].plan # None
      BY <2>2, <3>1, <3>2
    <3>4. job.src \in DOMAIN log' /\ log'[job.src] = r
      BY <1>9, <3>0, <3>1
    <3>5. \A i \in DOMAIN t : t[i].type = "assignment_completed"
      BY <1>7, <3>1
    <3>6. QED
      BY <3>1, <3>3, <3>4, <3>5
  <2>3. QED
    BY <1>8, <2>1, <2>2 DEF MoreOK
<1>18. JobInv'
  <2>1. (\A i \in DOMAIN job.outs : OutOK(job.outs[i]))'
    BY <1>8, <1>13
  <2>2. (\A k \in job.done : DoneOK(k))'
    BY <1>8, <1>15, <1>16
  <2>3. QED
    BY <1>11, <1>14, <1>17, <2>1, <2>2 DEF JobInv
<1>19. \A i \in DOMAIN job'.outs : \E j \in DOMAIN job.outs : job'.outs[i] = job.outs[j]
  BY <1>7, <1>8
<1>20. QED
  BY <1>8, <1>9, <1>10, <1>18, <1>19

\* What append answers for a staged event, told by the indexes.
LEMMA StagedOutcome ==
    ASSUME LogInv, FileInv, JobInv, pc = "append"
    PROVE  /\ Bd!Outcome(Staged) = "KEY_CONFLICT" => Rebuilt(Staged)
           /\ Bd!Outcome(Staged) \in {"DUPLICATE_SAME", "TERMINAL_CONFLICT"} =>
                 byKey[Current.key] # 0 \/ Settled(Staged)
           /\ Bd!Outcome(Staged) = "REJECTED" => byKey[Current.key] = 0
<1>1. PICK e : e = Staged
  OBVIOUS
<1>2. /\ Output(e) /\ Named(e) /\ e \in Event /\ e.key \in Keys /\ e.key = Current.key
      /\ e.key # None /\ outbox[e.key] # None /\ outbox[e.key].event = e
  BY <1>1, StagedOK DEF Staged
<1>3. PICK k : k = byKey[e.key]
  OBVIOUS
<1>4. PICK t : t = Bd!TerminalEntry(e)
  OBVIOUS
<1>5. PICK i : i = byId[e.id]
  OBVIOUS
<1>6. Bd!Outcome(e) =
          CASE k # 0 -> IF log[k] = e THEN "DUPLICATE_SAME"
                        ELSE IF Bd!SameTerminalKey(e, log[k])
                        THEN "TERMINAL_CONFLICT" ELSE "KEY_CONFLICT"
            [] k = 0 /\ t # 0 -> IF log[t] = e THEN "DUPLICATE_SAME" ELSE "TERMINAL_CONFLICT"
            [] k = 0 /\ t = 0 /\ i # 0 ->
                 IF log[i] = e THEN "DUPLICATE_SAME" ELSE "KEY_CONFLICT"
            [] k = 0 /\ t = 0 /\ i = 0 -> IF Bd!GateAccepts(e) THEN "APPENDED" ELSE "REJECTED"
  BY <1>2, <1>3, <1>4, <1>5 DEF Bd!Outcome, Bd!KeyEntry
<1>7. k # 0 => log[k] = e \/ Bd!SameTerminalKey(e, log[k]) \/ Rebuilt(e)
  <2>1. SUFFICES ASSUME k # 0, log[k] # e, ~Rebuilt(e) PROVE Bd!SameTerminalKey(e, log[k])
    OBVIOUS
  <2>2. e.type \in TerminalTypes
    BY <1>2, <1>3, <2>1 DEF FileInv, FilesAgree
  <2>3. PICK f : f = log[k]
    OBVIOUS
  <2>4. Named(f) /\ f.key = e.key
    BY <1>2, <1>3, <2>1, <2>3, Holder
  <2>5. f.type \in TerminalTypes /\ f.task = e.task /\ f.rev = e.rev
    BY <1>2, <2>2, <2>4, SameKey
  <2>6. QED
    BY <2>2, <2>3, <2>5 DEF Bd!SameTerminalKey, Bd!IsTerminal, Bd!TerminalTypes, TerminalTypes
<1>8. k = 0 => i = 0
  <2>1. SUFFICES ASSUME i # 0 PROVE k # 0
    OBVIOUS
  <2>2. e.id \in EventIds
    BY <1>2, EventShape
  <2>3. i \in DOMAIN log /\ log[i].id = e.id /\ Known(log[i]) /\ i \in Nat
    BY <1>5, <2>1, <2>2, LogLength DEF LogInv, LogShape, IndexesOK
  <2>4. PICK f : f = log[i]
    OBVIOUS
  <2>5. Named(f)
    BY <1>2, <2>3, <2>4, OwnName DEF Known
  <2>6. f.key = e.key
    BY <1>2, <2>3, <2>4, <2>5 DEF Named
  <2>7. byKey[f.key] = i
    BY <1>2, <2>3, <2>4, <2>6 DEF LogInv, IndexesOK
  <2>8. QED
    BY <1>3, <2>1, <2>6, <2>7
<1>9. t # 0 => Settled(e)
  BY <1>4 DEF Settled, Bd!TerminalEntry, Bd!IsTerminal, Bd!TerminalTypes, TerminalTypes
<1>10. QED
  BY <1>1, <1>2, <1>3, <1>6, <1>7, <1>8, <1>9

\* The list of rounds after a commit of the Coordinator: without a crash a plan
\* is the last thing published before its round leaves the list.
LEMMA CommitRounds ==
    ASSUME NamesAvailable, Inv, pc = "append", Bd!Outcome(Staged) = "APPENDED", Bd!Commit(Staged),
           offset' = offset, rounds' = rounds, crashes' = crashes,
           job'.src = job.src, job'.from = job.from, job'.task = job.task,
           pc' \in {"resolve", "stage", "followup", "save"},
           pc' = "save" => job.src \in Nat /\ job.src >= offset,
           \A i \in DOMAIN job'.outs : \E j \in DOMAIN job.outs : job'.outs[i] = job.outs[j],
           job.from = "tick" => pc' = "resolve"
    PROVE  RoundInv'
<1>1. LogInv /\ BaseInv /\ FileInv /\ JobInv /\ RoundInv
  BY DEF Inv
<1>2. PICK e : e = Staged
  OBVIOUS
<1>3. PICK c : c = Current
  OBVIOUS
<1>4. /\ Output(e) /\ Named(e) /\ e \in Event /\ OutOK(c) /\ e.key = c.key
      /\ e.task = c.task /\ (e.type \notin TerminalTypes => e.type = c.type)
      /\ c = job.outs[1] /\ 1 \in DOMAIN job.outs
  BY <1>1, <1>2, <1>3, StagedOK, CurrentOK
<1>5. /\ Len(log) \in Nat /\ DOMAIN log = 1 .. Len(log)
      /\ \A n \in DOMAIN log : log'[n] = log[n] /\ n \in DOMAIN log'
      /\ log'[Len(log) + 1] = e
      /\ \A n \in DOMAIN log' : n \in DOMAIN log \/ (n = Len(log) + 1 /\ log'[n] = e)
  BY <1>1, <1>2, <1>4, Grows
<1>6. \A k \in Keys : k # e.key => byKey'[k] = byKey[k]
  BY <1>1, <1>2, <1>4, KeysGrow
<1>7. RoundsShape'
  BY <1>1 DEF RoundInv, RoundsShape
<1>8. SUFFICES ASSUME FirstLife PROVE FirstLife'
  BY <1>1, <1>7 DEF RoundInv
<1>9. offset \in Nat /\ ReadUpTo = offset
  BY <1>1, <1>5 DEF BaseInv, ReadUpTo
<1>10. \A n \in DOMAIN log : n <= ReadUpTo => n <= ReadUpTo'
  BY <1>5, <1>9 DEF ReadUpTo
<1>11. NothingPublished' /\ job'.from # "replay" /\ PlanInHand'
  BY <1>8 DEF FirstLife, NothingPublished, PlanInHand, AssignKey
<1>12. \A t, r, ep : OpeningRead(t, r, ep) => OpeningRead(t, r, ep)'
  BY <1>5, <1>10 DEF OpeningRead
<1>13. ASSUME e.type = "task_assigned"
       PROVE  /\ job.from = "tick" /\ job.task \in Tasks /\ rounds[job.task] # None
              /\ e.key = AssignKey(job.task)
  <2>1. job.from = "tick"
    BY <1>4, <1>8, <1>13 DEF OutOK, FirstLife, TerminalTypes
  <2>2. c.key = AssignKey(job.task)
    BY <1>4, <1>8, <1>13 DEF FirstLife, PlanInHand, TerminalTypes
  <2>3. QED
    BY <1>1, <1>4, <2>1, <2>2 DEF JobInv, JobShape
<1>14. RoundsOpened'
  <2>1. SUFFICES ASSUME NEW t \in Tasks, rounds[t] # None
                 PROVE  OpeningRead(t, rounds[t].rev, rounds[t].epoch)'
    BY DEF RoundsOpened, OpeningRead
  <2>2. OpeningRead(t, rounds[t].rev, rounds[t].epoch)
    BY <1>8, <2>1 DEF FirstLife, RoundsOpened
  <2>3. QED
    BY <1>12, <2>2
<1>15. PlansOpened'
  <2>1. SUFFICES ASSUME NEW n \in DOMAIN log', NEW f, f = log'[n],
                        f.type = "task_assigned"
                 PROVE  OpeningRead(f.task, f.rev, f.epoch)'
    BY DEF PlansOpened, OpeningRead
  <2>2. OpeningRead(f.task, f.rev, f.epoch)
    <3>1. CASE n \in DOMAIN log
      BY <1>5, <1>8, <2>1, <3>1 DEF FirstLife, PlansOpened
    <3>2. CASE n \notin DOMAIN log
      <4>1. f = e /\ e.type = "task_assigned"
        BY <1>5, <2>1, <3>2
      <4>2. /\ job.task \in Tasks /\ rounds[job.task] # None
            /\ e.key = <<"assignment", job.task, rounds[job.task].rev, rounds[job.task].epoch>>
        BY <1>13, <4>1 DEF AssignKey
      <4>3. /\ e.task = job.task /\ e.rev = rounds[job.task].rev
            /\ e.epoch = rounds[job.task].epoch
        BY <1>4, <4>2, AssignmentKind
      <4>4. QED
        BY <1>8, <4>1, <4>2, <4>3 DEF FirstLife, RoundsOpened
    <3>3. QED
      BY <3>1, <3>2
  <2>3. QED
    BY <1>12, <2>2
<1>16. RoundsUnplanned'
  <2>1. SUFFICES ASSUME NEW t \in Tasks, rounds[t] # None, ~Closing(t)'
                 PROVE  byKey'[AssignKey(t)'] = 0
    BY DEF RoundsUnplanned
  <2>2. AssignKey(t)' = AssignKey(t) /\ AssignKey(t) \in Keys /\ ~Closing(t)
    BY <1>1, <2>1, AssignKeyIn DEF AssignKey, Closing
  <2>3. byKey[AssignKey(t)] = 0
    BY <1>8, <2>1, <2>2 DEF FirstLife, RoundsUnplanned
  <2>4. AssignKey(t) # e.key
    <3>1. SUFFICES ASSUME AssignKey(t) = e.key PROVE FALSE
      OBVIOUS
    <3>2. e.type = "task_assigned" /\ e.task = t
      BY <1>4, <3>1, AssignmentKind DEF AssignKey
    <3>3. job.from = "tick" /\ job.task = t
      <4>1. job.from = "tick" /\ e.key = <<"assignment", job.task, rounds[job.task].rev,
                                            rounds[job.task].epoch>>
        BY <1>13, <3>2 DEF AssignKey
      <4>2. e.task = job.task
        BY <1>4, <4>1, AssignmentKind
      <4>3. QED
        BY <3>2, <4>1, <4>2
    <3>4. QED
      BY <2>1, <3>3 DEF Closing
  <2>5. QED
    BY <1>6, <2>2, <2>3, <2>4
<1>17. QED
  BY <1>11, <1>14, <1>15, <1>16 DEF FirstLife

LEMMA AppendCommit ==
    ASSUME NamesAvailable, Inv, AppendOutput, Bd!Outcome(Staged) = "APPENDED"
    PROVE  Inv'
<1>1. LogInv /\ BaseInv /\ FileInv /\ JobInv /\ RoundInv
  BY DEF Inv
<1>2. /\ offset' = offset /\ outbox' = outbox /\ refused' = refused
      /\ rounds' = rounds /\ known' = known /\ upto' = upto
      /\ crashes' = crashes /\ decided' = decided /\ pc = "append"
      /\ Bd!Commit(Staged) /\ Published
  BY DEF AppendOutput, memory, others
<1>3. PICK e : e = Staged
  OBVIOUS
<1>4. /\ Output(e) /\ Named(e) /\ e \in Event /\ Known(e) /\ e.key \in Keys
      /\ e.key = Current.key /\ e.key # None
      /\ outbox[e.key] # None /\ outbox[e.key].event = e
      /\ e.type = "assignment_completed" => ReceiptOf(outbox[e.key].src, e)
  BY <1>1, <1>2, <1>3, StagedOK DEF Staged
<1>5. Bd!Outcome(e) = "APPENDED" /\ Bd!Commit(e)
  BY <1>2, <1>3
<1>6. LogInv'
  <2>1. e.type = "assignment_completed" => \E n \in DOMAIN log : ReceiptOf(n, e)
    BY <1>4 DEF ReceiptOf
  <2>2. QED
    BY <1>1, <1>4, <1>5, <2>1, LogStep
<1>7. /\ Len(log) \in Nat /\ DOMAIN log = 1 .. Len(log) /\ Len(log') = Len(log) + 1
      /\ DOMAIN log' = 1 .. Len(log) + 1
      /\ \A n \in DOMAIN log : log'[n] = log[n]
  BY <1>1, <1>4, <1>5, Grows
<1>8. FileInv'
  <2>1. \A k \in Keys : k = e.key /\ outbox[k] # None => outbox[k].event = e
    BY <1>4
  <2>2. QED
    BY <1>1, <1>2, <1>4, <1>5, <2>1, CommitFiles
<1>9. /\ \A k \in Keys : byKey[k] # 0 => byKey'[k] = byKey[k] /\ byKey[k] \in DOMAIN log
      /\ \A k \in Keys : k # e.key => byKey'[k] = byKey[k]
      /\ byKey'[e.key] = Len(log) + 1
      /\ \A tr \in TaskRevs : byTerminal[tr] # 0 => byTerminal'[tr] # 0
  BY <1>1, <1>4, <1>5, KeysGrow
<1>10. \A tr \in TaskRevs : job.more /\ view[tr].plan # None => view'[tr].plan # None
  <2>1. SUFFICES ASSUME NEW tr \in TaskRevs, job.more, view[tr].plan # None
                 PROVE  view'[tr].plan # None
    OBVIOUS
  <2>2. Current.type = "assignment_completed"
    <3>1. Current = job.outs[1] /\ 1 \in DOMAIN job.outs
      BY <1>1, <1>2, CurrentOK
    <3>2. QED
      BY <1>1, <2>1, <3>1 DEF JobInv, MoreOK
  <2>3. e.type = "assignment_completed"
    BY <1>1, <1>2, <1>3, <2>2, StagedOK DEF TerminalTypes
  <2>4. /\ view[tr] \in View
        /\ tr = Bd!Target(e) => view'[tr] = Apply(view[tr], e)
        /\ tr # Bd!Target(e) => view'[tr] = view[tr]
    BY <1>1, <1>4, <1>5, ViewStep
  <2>5. Apply(view[tr], e).plan = view[tr].plan
    BY <1>4, <2>3, <2>4, CompletedApplies
  <2>6. QED
    BY <2>1, <2>4, <2>5
<1>11. Unread' = Unread
  BY <1>1, <1>2, <1>4, <1>5, UnreadSame
<1>12. /\ JobInv' /\ pc' \in {"resolve", "stage", "followup", "save"}
       /\ job'.src = job.src /\ job'.from = job.from /\ job'.task = job.task
       /\ job.from = "tick" => pc' = "resolve"
       /\ pc' = "save" => job.src \in Nat /\ job.src >= offset
       /\ \A i \in DOMAIN job'.outs : \E j \in DOMAIN job.outs : job'.outs[i] = job.outs[j]
  <2>1. Len(log') \in Nat /\ Len(log) <= Len(log') /\ DOMAIN log' = 1 .. Len(log')
    BY <1>7
  <2>2. \A k \in Keys : byKey[k] # 0 => byKey'[k] # 0
    BY <1>9
  <2>3. \A k \in Keys : k # Current.key => byKey'[k] = byKey[k]
    BY <1>4, <1>9
  <2>4. byKey'[Current.key] # 0 \/ (/\ Staged.type \in TerminalTypes
                                  /\ byTerminal'[<<Staged.task, Staged.rev>>] # 0)
    BY <1>4, <1>7, <1>9
  <2>5. (\A n \in DOMAIN log : log'[n] = log[n])
        /\ (\A tr \in TaskRevs : byTerminal[tr] # 0 => byTerminal'[tr] # 0)
    BY <1>7, <1>9
  <2>6. QED
    BY <1>2, <1>10, <1>11, <2>1, <2>2, <2>3, <2>4, <2>5, PublishedJob
<1>13. BaseInv'
  <2>1. pc' \in Labels
    BY <1>12 DEF Labels
  <2>2. QED
    BY <1>1, <1>2, <1>7, <2>1 DEF BaseInv, ActionShape
<1>14. RoundInv'
  BY <1>2, <1>12, CommitRounds
<1>15. QED
  BY <1>6, <1>8, <1>12, <1>13, <1>14 DEF Inv

LEMMA OutcomeRange ==
    ASSUME NEW e
    PROVE  Bd!Outcome(e) \in {"APPENDED", "DUPLICATE_SAME", "TERMINAL_CONFLICT", "REJECTED",
                              "KEY_CONFLICT"}
<1> DEFINE k == Bd!KeyEntry(e)
           t == Bd!TerminalEntry(e)
           i == byId[e.id]
<1>1. Bd!Outcome(e) =
        CASE k # 0 -> IF log[k] = e THEN "DUPLICATE_SAME"
                      ELSE IF Bd!SameTerminalKey(e, log[k])
                      THEN "TERMINAL_CONFLICT" ELSE "KEY_CONFLICT"
          [] k = 0 /\ t # 0 -> IF log[t] = e THEN "DUPLICATE_SAME" ELSE "TERMINAL_CONFLICT"
          [] k = 0 /\ t = 0 /\ i # 0 ->
               IF log[i] = e THEN "DUPLICATE_SAME" ELSE "KEY_CONFLICT"
          [] k = 0 /\ t = 0 /\ i = 0 -> IF Bd!GateAccepts(e) THEN "APPENDED" ELSE "REJECTED"
  BY DEF Bd!Outcome
<1> HIDE DEF k, t, i
<1>2. QED
  BY <1>1

LEMMA AppendStep ==
    ASSUME NamesAvailable, Inv, AppendOutput
    PROVE  Inv'
<1>1. LogInv /\ BaseInv /\ FileInv /\ JobInv /\ RoundInv
  BY DEF Inv
<1>2. /\ offset' = offset /\ outbox' = outbox
      /\ rounds' = rounds /\ known' = known /\ upto' = upto
      /\ crashes' = crashes /\ decided' = decided /\ pc = "append"
  BY DEF AppendOutput, memory, others
<1>3. PICK o : o = Bd!Outcome(Staged)
  OBVIOUS
<1>4. \/ o = "APPENDED"
      \/ /\ o \in {"DUPLICATE_SAME", "TERMINAL_CONFLICT"}
         /\ Published /\ UNCHANGED <<board, refused>>
      \/ /\ o = "REJECTED" /\ refused' = refused \cup {Current.key} /\ pc' = "unlink"
         /\ UNCHANGED <<board, job>>
      \/ job' = NoJob /\ pc' = "poll" /\ UNCHANGED <<board, refused>>
  <2>1. CASE o = "KEY_CONFLICT"
    BY <1>3, <2>1 DEF AppendOutput, Idle, Goto
  <2>2. CASE o \in {"APPENDED", "DUPLICATE_SAME", "TERMINAL_CONFLICT", "REJECTED"}
    BY <1>3, <2>2 DEF AppendOutput, Quarantine, Goto
  <2>3. o \in {"APPENDED", "DUPLICATE_SAME", "TERMINAL_CONFLICT", "REJECTED", "KEY_CONFLICT"}
    BY <1>3, OutcomeRange
  <2>4. QED
    BY <2>1, <2>2, <2>3
<1>5. CASE o = "APPENDED"
  BY <1>3, <1>5, AppendCommit
<1>6. CASE /\ o \in {"DUPLICATE_SAME", "TERMINAL_CONFLICT"}
           /\ Published /\ UNCHANGED <<board, refused>>
  <2>1. /\ UNCHANGED board /\ refused' = refused
        /\ log' = log /\ byKey' = byKey /\ byTerminal' = byTerminal /\ view' = view
        /\ Len(log) \in Nat /\ DOMAIN log = 1 .. Len(log)
    BY <1>1, <1>6, LogLength DEF board
  <2>2. LogInv' /\ FileInv'
    BY <1>1, <1>2, <2>1, BoardSame, FilesSame
  <2>3. /\ JobInv' /\ pc' \in {"resolve", "stage", "followup", "save"}
        /\ job'.src = job.src /\ job'.from = job.from /\ job'.task = job.task
        /\ pc' = "save" => job.src \in Nat /\ job.src >= offset
        /\ \A i \in DOMAIN job'.outs : \E j \in DOMAIN job.outs : job'.outs[i] = job.outs[j]
    <3>1. byKey'[Current.key] # 0 \/ (/\ Staged.type \in TerminalTypes
                                      /\ byTerminal'[<<Staged.task, Staged.rev>>] # 0)
      BY <1>1, <1>2, <1>3, <1>6, <2>1, StagedOutcome DEF Settled
    <3>2. Unread' = Unread
      BY <1>2, <2>1 DEF Unread, Batch
    <3>3. Len(log') \in Nat /\ Len(log) <= Len(log') /\ DOMAIN log' = 1 .. Len(log')
      BY <2>1
    <3>4. \A n \in DOMAIN log : log'[n] = log[n]
      BY <2>1
    <3>5. \A tr \in TaskRevs : byTerminal[tr] # 0 => byTerminal'[tr] # 0
      BY <2>1
    <3>6. /\ \A k \in Keys : byKey[k] # 0 => byKey'[k] # 0
          /\ \A k \in Keys : k # Current.key => byKey'[k] = byKey[k]
      BY <2>1
    <3>7. \A tr \in TaskRevs : job.more /\ view[tr].plan # None => view'[tr].plan # None
      BY <2>1
    <3>8. QED
      BY <1>2, <1>6, <3>1, <3>2, <3>3, <3>4, <3>5, <3>6, <3>7, PublishedJob
  <2>4. BaseInv'
    BY <1>1, <1>2, <2>1, <2>3 DEF BaseInv, Labels, ActionShape
  <2>5. RoundInv'
    <3>1. /\ rounds' = [x \in Tasks |-> rounds'[x]]
          /\ \A x \in Tasks : rounds'[x] \in {rounds[x], None}
      BY <1>1, <1>2 DEF RoundInv, RoundsShape
    <3>2. offset \in Nat
      BY <1>1, <2>1 DEF BaseInv
    <3>3. \A x \in Tasks : ~Closing(x)
      BY <1>2 DEF Closing
    <3>4. \A m \in Nat : m <= ReadUpTo => m <= ReadUpTo'
      BY <1>2, <2>3, <3>2 DEF ReadUpTo
    <3>5. FirstLife => NothingPublished' /\ job'.from # "replay" /\ PlanInHand'
      BY <1>2, <2>3 DEF FirstLife, NothingPublished, PlanInHand, AssignKey
    <3>6. QED
      BY <1>1, <1>2, <2>1, <3>1, <3>3, <3>4, <3>5, RoundsSame
  <2>6. QED
    BY <2>2, <2>3, <2>4, <2>5 DEF Inv
<1>7. CASE /\ o = "REJECTED" /\ refused' = refused \cup {Current.key} /\ pc' = "unlink"
           /\ UNCHANGED <<board, job>>
  <2>1. /\ UNCHANGED board /\ job' = job
        /\ log' = log /\ byKey' = byKey /\ byTerminal' = byTerminal /\ view' = view
        /\ Len(log) \in Nat /\ DOMAIN log = 1 .. Len(log)
    BY <1>1, <1>7, LogLength DEF board
  <2>2. LogInv' /\ FileInv'
    BY <1>1, <1>2, <2>1, BoardSame, FilesSame
  <2>3. byKey[Current.key] = 0 /\ outbox[Current.key] # None /\ Current.key \in Keys
    BY <1>1, <1>2, <1>3, <1>7, StagedOutcome, StagedOK
  <2>4. BaseInv'
    BY <1>1, <1>2, <1>7, <2>1, <2>3 DEF BaseInv, Labels, ActionShape
  <2>5. JobInv'
    <3>1. JobShape'
      BY <1>1, <1>2, <1>7, <2>1 DEF JobInv, JobShape, Unread, Batch
    <3>2. ASSUME NEW i \in DOMAIN job.outs PROVE OutOK(job.outs[i])'
      <4>1. PICK e : e = job.outs[i]
        OBVIOUS
      <4>2. OutOK(e)
        BY <1>1, <4>1 DEF JobInv
      <4>3. OutOK(e)'
        BY <1>2, <2>1, <4>2 DEF OutOK, Rebuilt, Output, Named, Keyed, ReceiptOf
      <4>4. QED
        BY <2>1, <4>1, <4>3
    <3>3. FiledOK'
      BY <1>2, <1>7, <2>1, <2>3 DEF FiledOK, Current
    <3>4. (\A k \in job.done : DoneOK(k))'
      BY <1>1, <1>2, <2>1 DEF JobInv, DoneOK, Settled
    <3>5. MoreOK'
      BY <1>1, <1>7, <2>1 DEF JobInv, MoreOK
    <3>6. QED
      BY <2>1, <3>1, <3>2, <3>3, <3>4, <3>5 DEF JobInv
  <2>6. RoundInv'
    <3>1. /\ rounds' = [x \in Tasks |-> rounds'[x]]
          /\ \A x \in Tasks : rounds'[x] \in {rounds[x], None}
      BY <1>1, <1>2 DEF RoundInv, RoundsShape
    <3>2. /\ ReadUpTo' = ReadUpTo
          /\ FirstLife => NothingPublished' /\ job'.from # "replay" /\ PlanInHand'
      BY <1>2, <1>7, <2>1 DEF ReadUpTo, FirstLife, NothingPublished, PlanInHand, AssignKey
    <3>3. \A x \in Tasks : ~Closing(x)
      BY <1>2 DEF Closing
    <3>4. QED
      BY <1>1, <1>2, <2>1, <3>1, <3>2, <3>3, RoundsSame
  <2>7. QED
    BY <2>2, <2>4, <2>5, <2>6 DEF Inv
<1>8. CASE job' = NoJob /\ pc' = "poll" /\ UNCHANGED <<board, refused>>
  <2>1. UNCHANGED board /\ refused' = refused /\ log' = log /\ Len(log) \in Nat
    BY <1>1, <1>8, LogLength DEF board
  <2>2. LogInv' /\ FileInv'
    BY <1>1, <1>2, <2>1, BoardSame, FilesSame
  <2>3. BaseInv'
    BY <1>1, <1>2, <1>8, <2>1 DEF BaseInv, Labels, ActionShape
  <2>4. JobInv'
    BY <1>8, <2>1, IdleJob
  <2>5. RoundInv'
    <3>1. /\ rounds' = [x \in Tasks |-> rounds'[x]]
          /\ \A x \in Tasks : rounds'[x] \in {rounds[x], None}
      BY <1>1, <1>2 DEF RoundInv, RoundsShape
    <3>2. ReadUpTo' = ReadUpTo /\ (NothingPublished' /\ job'.from # "replay" /\ PlanInHand')
      BY <1>2, <1>8 DEF ReadUpTo, NothingPublished, PlanInHand, NoJob
    <3>3. \A x \in Tasks : ~Closing(x)
      BY <1>2 DEF Closing
    <3>4. QED
      BY <1>1, <1>2, <2>1, <3>1, <3>2, <3>3, RoundsSame
  <2>6. QED
    BY <2>2, <2>3, <2>4, <2>5 DEF Inv
<1>9. QED
  BY <1>4, <1>5, <1>6, <1>7, <1>8

-----------------------------------------------------------------------------
(* Leaving the outbox.                                                     *)

\* A file may go when its key is free, or its receipt consumed.
LEMMA FileGoes ==
    ASSUME LogInv, FileInv, UNCHANGED board, offset' = offset, crashes' = crashes, offset \in Nat,
           NEW k \in Keys,
           outbox[k] # None, outbox' = [outbox EXCEPT ![k] = None],
           \/ byKey[k] = 0
           \/ outbox[k].event.type = "assignment_completed" => outbox[k].src <= offset
    PROVE  FileInv' /\ \A x \in Keys : x # k => outbox'[x] = outbox[x]
<1>1. log' = log /\ byKey' = byKey
  BY DEF board
<1>2. /\ outbox' = [x \in Keys |-> outbox'[x]]
      /\ \A x \in Keys : x # k => outbox'[x] = outbox[x]
      /\ outbox'[k] = None
  BY DEF FileInv, FilesShape
<1>3. FilesShape'
  <2>1. ASSUME NEW x \in Keys, outbox'[x] # None PROVE FileOK(x, outbox[x])'
    <3>1. outbox'[x] = outbox[x]
      BY <1>2, <2>1
    <3>2. FileOK(x, outbox[x])
      BY <2>1, <3>1 DEF FileInv, FilesShape
    <3>3. QED
      BY <1>1, <3>1, <3>2 DEF FileOK, Output, Named, Keyed, ReceiptOf
  <2>2. QED
    BY <1>2, <2>1 DEF FilesShape
<1>4. FilesAgree'
  BY <1>1, <1>2 DEF FileInv, FilesAgree, Rebuilt
<1>5. CompletionsFiled'
  <2>1. SUFFICES ASSUME NEW n \in DOMAIN log, n > offset, log[n].type = "receipt",
                        CompletionKey(log[n]) \in Keys, byKey[CompletionKey(log[n])] # 0
                 PROVE  outbox'[CompletionKey(log[n])] # None
    BY <1>1 DEF CompletionsFiled, CompletionKey
  <2>2. outbox[CompletionKey(log[n])] # None
    BY <2>1 DEF FileInv, CompletionsFiled
  <2>3. CASE CompletionKey(log[n]) # k
    BY <1>2, <2>1, <2>2, <2>3
  <2>4. CASE CompletionKey(log[n]) = k
    <3>1. PICK e : e = outbox[k].event
      OBVIOUS
    <3>2. FileOK(k, outbox[k])
      BY DEF FileInv, FilesShape
    <3>3. Named(e) /\ e.key = CompletionKey(log[n])
      BY <2>4, <3>1, <3>2 DEF FileOK, Output
    <3>4. /\ e.type = "assignment_completed" /\ e.task = log[n].task /\ e.rev = log[n].rev
          /\ e.epoch = log[n].epoch /\ e.asg = log[n].asg
      BY <3>3, CompletionKind
    <3>5. ReceiptOf(outbox[k].src, e)
      BY <3>1, <3>2, <3>4 DEF FileOK
    <3>6. n = outbox[k].src
      BY <2>1, <3>4, <3>5, ReceiptOnce DEF ReceiptOf
    <3>7. outbox[k].src <= offset
      BY <2>1, <2>4, <3>1, <3>4
    <3>8. FALSE
      <4>1. n \in Nat
        BY <2>1, LogLength
      <4>2. QED
        BY <2>1, <3>6, <3>7, <4>1
    <3>9. QED
      BY <3>8
  <2>5. QED
    BY <2>3, <2>4
<1>6. QED
  BY <1>2, <1>3, <1>4, <1>5 DEF FileInv

LEMMA UnlinkStep ==
    ASSUME NamesAvailable, Inv, Unlink
    PROVE  Inv'
<1>1. LogInv /\ BaseInv /\ FileInv /\ JobInv /\ RoundInv
  BY DEF Inv
<1>2. /\ UNCHANGED board /\ offset' = offset /\ refused' = refused
      /\ rounds' = rounds /\ known' = known /\ upto' = upto
      /\ crashes' = crashes /\ decided' = decided /\ pc = "unlink"
      /\ job' = NoJob /\ pc' = "poll"
      /\ outbox' = [outbox EXCEPT ![Current.key] = None]
  BY DEF Unlink, Idle, Goto, memory, others
<1>3. log' = log /\ Len(log) \in Nat
  BY <1>1, <1>2, LogLength DEF board
<1>4. LogInv'
  BY <1>1, <1>2, BoardSame
<1>5. BaseInv'
  BY <1>1, <1>2, <1>3 DEF BaseInv, Labels, ActionShape
<1>6. FileInv'
  <2>1. byKey[Current.key] = 0 /\ outbox[Current.key] # None /\ Current.key \in Keys
    BY <1>1, <1>2, StagedOK DEF JobInv, FiledOK
  <2>2. offset \in Nat
    BY <1>1, LogLength DEF BaseInv
  <2>3. QED
    BY <1>1, <1>2, <2>1, <2>2, FileGoes
<1>7. JobInv'
  BY <1>2, <1>3, IdleJob
<1>8. RoundInv'
  <2>1. /\ rounds' = [x \in Tasks |-> rounds'[x]]
        /\ \A x \in Tasks : rounds'[x] \in {rounds[x], None}
    BY <1>1, <1>2 DEF RoundInv, RoundsShape
  <2>2. ReadUpTo' = ReadUpTo /\ (NothingPublished' /\ job'.from # "replay" /\ PlanInHand')
    BY <1>2 DEF ReadUpTo, NothingPublished, PlanInHand, NoJob
  <2>3. \A x \in Tasks : ~Closing(x)
    BY <1>2 DEF Closing
  <2>4. QED
    BY <1>1, <1>2, <2>1, <2>2, <2>3, RoundsSame
<1>9. QED
  BY <1>4, <1>5, <1>6, <1>7, <1>8 DEF Inv

LEMMA SaveOffsetStep ==
    ASSUME NamesAvailable, Inv, SaveOffset
    PROVE  Inv'
<1>1. LogInv /\ BaseInv /\ FileInv /\ JobInv /\ RoundInv
  BY DEF Inv
<1>2. pc = "save" /\ job.from = "input" /\ job \in JobType /\ job.src >= offset /\ job.outs = << >>
  BY <1>1 DEF SaveOffset, JobInv, JobShape
<1>3. /\ UNCHANGED board /\ offset' = job.src /\ outbox' = outbox /\ refused' = refused
      /\ rounds' = rounds /\ known' = known /\ upto' = upto
      /\ crashes' = crashes /\ decided' = decided
      /\ \/ job' = NoJob /\ pc' = "take"
         \/ job' = job /\ pc' = "resolve"
  BY <1>2 DEF SaveOffset, Return, Idle, Goto, others
<1>4. /\ log' = log /\ byKey' = byKey /\ byTerminal' = byTerminal /\ view' = view
      /\ Len(log) \in Nat /\ DOMAIN log = 1 .. Len(log)
  BY <1>1, <1>3, LogLength DEF board
<1>5. offset \in 0 .. Len(log) /\ job.src \in 0 .. Len(log) /\ upto \in 0 .. Len(log)
  BY <1>1 DEF BaseInv, JobInv, JobShape
<1>6. LogInv'
  BY <1>1, <1>3, BoardSame
<1>7. BaseInv'
  BY <1>1, <1>3, <1>4, <1>5 DEF BaseInv, Labels, ActionShape
<1>8. FileInv'
  <2>1. FilesShape' /\ FilesAgree'
    BY <1>1, <1>3, <1>4 DEF FileInv, FilesShape, FileOK, Output, Named, Keyed, ReceiptOf, FilesAgree,
                                  Rebuilt
  <2>2. CompletionsFiled'
    <3>1. SUFFICES ASSUME NEW n \in DOMAIN log, n > job.src, log[n].type = "receipt",
                          CompletionKey(log[n]) \in Keys, byKey[CompletionKey(log[n])] # 0
                   PROVE  outbox[CompletionKey(log[n])] # None
      BY <1>3, <1>4 DEF CompletionsFiled, CompletionKey
    <3>2. n > offset
      BY <1>2, <1>4, <1>5, <3>1
    <3>3. QED
      BY <1>1, <3>1, <3>2 DEF FileInv, CompletionsFiled
  <2>3. QED
    BY <2>1, <2>2 DEF FileInv
<1>9. JobInv'
  <2>1. CASE job' = NoJob /\ pc' = "take"
    BY <1>4, <2>1, IdleJob
  <2>2. CASE job' = job /\ pc' = "resolve"
    <3>1. JobShape'
      BY <1>1, <1>2, <1>3, <1>4, <1>5, <2>2 DEF JobInv, JobShape
    <3>2. FiledOK' /\ (\A i \in DOMAIN job.outs : OutOK(job.outs[i]))'
      BY <1>2, <2>2 DEF FiledOK
    <3>3. ASSUME NEW k \in job.done PROVE DoneOK(k)'
      <4>1. DoneOK(k) /\ k \in Keys
        BY <1>1, <1>2 DEF JobInv, JobType
      <4>2. PICK s : s = outbox[k].src
        OBVIOUS
      <4>3. s \in 0 .. Len(log)
        BY <1>1, <4>1, <4>2 DEF FileInv, FilesShape, FileOK, DoneOK
      <4>4. s <= offset \/ s = job.src => s <= job.src
        BY <1>2, <1>4, <1>5, <4>3
      <4>5. QED
        BY <1>3, <1>4, <2>2, <4>1, <4>2, <4>4 DEF DoneOK, Settled
    <3>4. MoreOK'
      BY <1>1, <1>4, <2>2 DEF JobInv, MoreOK
    <3>5. QED
      BY <2>2, <3>1, <3>2, <3>3, <3>4 DEF JobInv
  <2>3. QED
    BY <1>3, <2>1, <2>2
<1>10. RoundInv'
  <2>1. /\ rounds' = [x \in Tasks |-> rounds'[x]]
        /\ \A x \in Tasks : rounds'[x] \in {rounds[x], None}
    BY <1>1, <1>3 DEF RoundInv, RoundsShape
  <2>2. ReadUpTo' = ReadUpTo
    BY <1>2, <1>3 DEF ReadUpTo
  <2>3. NothingPublished' /\ job'.from # "replay" /\ PlanInHand'
    BY <1>2, <1>3 DEF NothingPublished, PlanInHand, NoJob
  <2>4. \A x \in Tasks : ~Closing(x)
    BY <1>2 DEF Closing
  <2>5. QED
    BY <1>1, <1>3, <2>1, <2>2, <2>3, <2>4, RoundsSame
<1>11. QED
  BY <1>6, <1>7, <1>8, <1>9, <1>10 DEF Inv

LEMMA ResolveStep ==
    ASSUME NamesAvailable, Inv, Resolve
    PROVE  Inv'
<1>1. LogInv /\ BaseInv /\ FileInv /\ JobInv /\ RoundInv
  BY DEF Inv
<1>2. PICK k \in job.done :
        /\ outbox' = [outbox EXCEPT ![k] = None]
        /\ IF job.done = {k} THEN Return
           ELSE job' = [job EXCEPT !.done = @ \ {k}] /\ UNCHANGED <<rounds, pc>>
  BY DEF Resolve
<1>3. /\ UNCHANGED board /\ offset' = offset /\ refused' = refused
      /\ known' = known /\ upto' = upto
      /\ crashes' = crashes /\ decided' = decided /\ pc = "resolve"
  BY DEF Resolve, others
<1>4. /\ log' = log /\ byKey' = byKey /\ byTerminal' = byTerminal /\ view' = view
      /\ Len(log) \in Nat /\ DOMAIN log = 1 .. Len(log)
  BY <1>1, <1>3, LogLength DEF board
<1>5. /\ job \in JobType /\ job.from \in Origins /\ job.from # "none" /\ job.outs = << >>
      /\ k \in Keys /\ DoneOK(k) /\ job.src <= offset
  BY <1>1, <1>3 DEF JobInv, JobShape, JobType
<1>6. LogInv'
  BY <1>1, <1>3, BoardSame
<1>7. FileInv' /\ \A x \in Keys : x # k => outbox'[x] = outbox[x]
  <2>1. outbox[k] # None
        /\ (outbox[k].event.type = "assignment_completed" => outbox[k].src <= offset)
    BY <1>5 DEF DoneOK
  <2>2. offset \in Nat
    BY <1>1, LogLength DEF BaseInv
  <2>3. QED
    BY <1>1, <1>2, <1>3, <1>5, <2>1, <2>2, FileGoes
<1>8. rounds = [x \in Tasks |-> rounds[x]]
  BY <1>1 DEF RoundInv, RoundsShape
<1>9. CASE job.done = {k}
  <2>1. /\ job' = NoJob
        /\ pc' = IF job.from = "replay" THEN "replay" ELSE "take"
        /\ IF job.from = "tick" THEN rounds' = [rounds EXCEPT ![job.task] = None]
           ELSE rounds' = rounds
    BY <1>2, <1>9 DEF Return, Idle, Goto, Drop
  <2>2. JobInv'
    BY <1>4, <2>1, IdleJob
  <2>3. BaseInv'
    BY <1>1, <1>3, <1>4, <2>1 DEF BaseInv, Labels, ActionShape
  <2>4. RoundInv'
    <3>1. /\ rounds' = [x \in Tasks |-> rounds'[x]]
          /\ \A x \in Tasks : rounds'[x] \in {rounds[x], None}
          /\ \A x \in Tasks : job.from = "tick" /\ job.task = x => rounds'[x] = None
      BY <1>8, <2>1
    <3>2. /\ ReadUpTo' = ReadUpTo
          /\ FirstLife => NothingPublished' /\ job'.from # "replay" /\ PlanInHand'
      BY <1>3, <2>1 DEF ReadUpTo, FirstLife, NothingPublished, PlanInHand, NoJob
    <3>3. \A x \in Tasks : ~(rounds'[x] # None /\ Closing(x))
      BY <3>1 DEF Closing
    <3>4. QED
      BY <1>1, <1>3, <3>1, <3>2, <3>3, RoundsSame
  <2>5. QED
    BY <1>6, <1>7, <2>2, <2>3, <2>4 DEF Inv
<1>10. CASE job.done # {k}
  <2>1. /\ job' = [job EXCEPT !.done = job.done \ {k}]
        /\ rounds' = rounds /\ pc' = pc
    BY <1>2, <1>10
  <2>2. /\ job' \in JobType /\ job'.done = job.done \ {k} /\ job'.src = job.src
        /\ job'.from = job.from /\ job'.outs = job.outs /\ job'.task = job.task
        /\ job'.more = job.more
    BY <1>5, <2>1 DEF JobType
  <2>3. BaseInv'
    BY <1>1, <1>3, <1>4, <2>1 DEF BaseInv, Labels, ActionShape
  <2>4. JobShape'
    <3>1. Unread' = Unread
      BY <1>3, <1>4 DEF Unread, Batch
    <3>2. QED
      BY <1>1, <1>3, <1>4, <2>1, <2>2, <3>1 DEF JobInv, JobShape
  <2>5. FiledOK' /\ (\A i \in DOMAIN job.outs : OutOK(job.outs[i]))'
    BY <1>3, <1>5, <2>1, <2>2 DEF FiledOK
  <2>6. MoreOK'
    BY <1>1, <1>3, <1>4, <2>1, <2>2 DEF JobInv, MoreOK
  <2>7. ASSUME NEW x \in job.done \ {k} PROVE DoneOK(x)'
    <3>1. DoneOK(x) /\ x \in Keys
      BY <1>1, <1>5 DEF JobInv, JobType
    <3>2. QED
      BY <1>3, <1>4, <1>7, <2>2, <2>7, <3>1 DEF DoneOK, Settled
  <2>8. JobInv'
    BY <2>2, <2>4, <2>5, <2>6, <2>7 DEF JobInv
  <2>9. RoundInv'
    <3>1. /\ rounds' = [x \in Tasks |-> rounds'[x]]
          /\ \A x \in Tasks : rounds'[x] \in {rounds[x], None}
      BY <1>8, <2>1
    <3>2. /\ ReadUpTo' = ReadUpTo
          /\ FirstLife => NothingPublished' /\ job'.from # "replay" /\ PlanInHand'
      BY <1>3, <1>5, <2>1, <2>2 DEF ReadUpTo, FirstLife, NothingPublished, PlanInHand
    <3>3. \A x \in Tasks : Closing(x) => Closing(x)'
      BY <2>1, <2>2 DEF Closing
    <3>4. QED
      BY <1>1, <1>3, <2>2, <3>1, <3>2, <3>3, RoundsSame
  <2>10. QED
    BY <1>6, <1>7, <2>3, <2>8, <2>9 DEF Inv
<1>11. QED
  BY <1>9, <1>10

-----------------------------------------------------------------------------
(* The invariant holds initially and is kept.                              *)

LEMMA InitLog == Init => LogInv
<1>1. SUFFICES ASSUME Init PROVE LogInv
  OBVIOUS
<1>2. /\ log = << >> /\ byId = [i \in EventIds |-> 0] /\ byKey = [k \in Keys |-> 0]
      /\ byTerminal = [tr \in TaskRevs |-> 0]
      /\ view = [tr \in TaskRevs |-> EmptyView]
  BY <1>1 DEF Init, Bd!Init, Bd!TaskRevs, TaskRevs, Bd!EmptyView, EmptyView
<1>3. DOMAIN log = {} /\ log \in Seq(Event)
  BY <1>2
<1>4. EmptyView \in View /\ ViewOK(EmptyView) /\ EmptyView.pending = {}
  BY DEF EmptyView, View, Statuses, ViewOK
<1>5. LogShape /\ IndexesOK /\ ViewsOK
  BY <1>2, <1>3, <1>4 DEF LogShape, IndexesOK, ViewsOK
<1>6. QED
  BY <1>3, <1>5 DEF LogInv, EpochsBehind, RoundsBehind, CausesConsumed, RoundsFirst,
                    CompletionsAnswer

LEMMA InitInv == Init => Inv
<1>1. SUFFICES ASSUME Init PROVE Inv
  OBVIOUS
<1>2. LogInv
  BY <1>1, InitLog
<1>3. /\ offset = 0 /\ outbox = [k \in Keys |-> None] /\ refused = {}
      /\ rounds = [t \in Tasks |-> None] /\ known = {} /\ pc = "down" /\ job = NoJob
      /\ upto = 0 /\ crashes = 0 /\ decided = {}
  BY <1>1 DEF Init
<1>4. log = << >> /\ Len(log) = 0 /\ DOMAIN log = {}
  BY <1>1 DEF Init, Bd!Init
<1>5. BaseInv
  BY <1>3, <1>4, FS_EmptySet, CoordinatorAssumption DEF BaseInv, Labels
<1>6. FileInv
  BY <1>3, <1>4 DEF FileInv, FilesShape, FilesAgree, CompletionsFiled
<1>7. JobInv
  <2>1. /\ job.from = "none" /\ job.src = 0 /\ job.outs = << >> /\ job.done = {}
        /\ job.task = None /\ job.more = FALSE
    BY <1>3 DEF NoJob
  <2>2. job \in JobType
    BY <1>3 DEF NoJob, JobType, Origins
  <2>3. JobShape
    BY <1>3, <1>4, <2>1, <2>2 DEF JobShape
  <2>4. FiledOK /\ MoreOK
    BY <1>3, <2>1 DEF FiledOK, MoreOK
  <2>5. QED
    BY <2>1, <2>3, <2>4 DEF JobInv
<1>8. RoundInv
  BY <1>3, <1>4 DEF RoundInv, RoundsShape, FirstLife, NothingPublished, RoundsOpened, PlansOpened,
                    PlanInHand, RoundsUnplanned, NoJob
<1>9. QED
  BY <1>2, <1>5, <1>6, <1>7, <1>8 DEF Inv

LEMMA NextInv ==
    ASSUME NamesAvailable, Inv, [Next]_vars
    PROVE  Inv'
<1>1. CASE Working
  BY <1>1, RecoverStep, ReplayStep, PollStep, TakeStep, FollowUpStep, ChoosePlanStep,
     StageStep, AppendStep, UnlinkStep, SaveOffsetStep, ResolveStep DEF Working
<1>2. ASSUME NEW t \in Tasks, CloseRound(t) PROVE Inv'
  BY <1>2, CloseRoundStep
<1>3. ASSUME NEW tr \in TaskRevs, AgentExit(tr) PROVE Inv'
  BY <1>3, AgentExitStep
<1>4. CASE Crash
  BY <1>4, CrashStep
<1>5. ASSUME NEW e \in Offered, External(e) PROVE Inv'
  BY <1>5, ExternalStep
<1>6. CASE Decide \/ Submit \/ Report \/ Intercept
  BY <1>6, DecideStep, SubmitStep, ReportStep, InterceptStep
<1>7. CASE UNCHANGED vars
  <2>1. UNCHANGED <<board, durable, memory, pc, job, crashes>> /\ decided' = decided
    BY <1>7 DEF vars, others
  <2>2. QED
    BY <2>1, SameStep DEF Inv, BaseInv
<1>8. QED
  BY <1>1, <1>2, <1>3, <1>4, <1>5, <1>6, <1>7 DEF Next

LEMMA InvariantHolds == ASSUME NamesAvailable PROVE Spec => []Inv
  BY InitInv, NextInv, PTL DEF Spec

-----------------------------------------------------------------------------
(* What follows from it.                                                   *)

LEMMA InvType == Inv => TypeOK
<1>1. SUFFICES ASSUME Inv PROVE TypeOK
  OBVIOUS
<1>2. LogInv /\ BaseInv /\ FileInv /\ JobInv /\ RoundInv
  BY <1>1 DEF Inv
<1>3. Bd!Committed \subseteq Nat
  BY <1>2, LogLength DEF Bd!Committed
<1>4. \A k \in Keys : outbox[k] # None =>
          outbox[k].event.key = k /\ outbox[k].src \in 0 .. Len(log)
  BY <1>2 DEF FileInv, FilesShape, FileOK
<1>5. \A t \in Tasks : rounds[t] # None => rounds[t].rev \in Revs
  BY <1>2 DEF RoundInv, RoundsShape
<1>6. QED
  BY <1>2, <1>3, <1>4, <1>5 DEF BaseInv, TypeOK

\* Every variable of the Coordinator keeps its shape, over crashes and restarts.
THEOREM CoordinatorType == NamesAvailable => (Spec => []TypeOK)
<1>1. SUFFICES ASSUME NamesAvailable PROVE Spec => []TypeOK
  OBVIOUS
<1>2. Spec => []Inv
  BY <1>1, InvariantHolds
<1>3. QED
  BY <1>2, InvType, PTL

\* However the log is cut into batches and wherever the process crashes, an event
\* of the Coordinator meets other content under its key only if it is a plan, and
\* only after a crash.
THEOREM KeysNeverConflict == NamesAvailable => (Spec => []NoKeyConflict)
<1>1. SUFFICES ASSUME NamesAvailable PROVE Spec => []NoKeyConflict
  OBVIOUS
<1>2. Inv => NoKeyConflict
  BY StagedOutcome DEF Inv, NoKeyConflict, Conflicting, Rebuilt
<1>3. Spec => []Inv
  BY <1>1, InvariantHolds
<1>4. QED
  BY <1>2, <1>3, PTL

Kept ==
    \A k \in Keys : outbox[k] # None /\ outbox'[k] = None =>
          \/ byKey[k] # 0
          \/ k \in refused
          \/ /\ outbox[k].event.type \in TerminalTypes
             /\ byTerminal[<<outbox[k].event.task, outbox[k].event.rev>>] # 0

LEMMA OutboxKept ==
    ASSUME Inv, [Next]_vars
    PROVE  Kept
<1>1. LogInv /\ FileInv /\ JobInv
  BY DEF Inv
<1>2. CASE UNCHANGED outbox
  BY <1>2 DEF Kept
<1>3. CASE Stage
  <2>1. \/ UNCHANGED outbox
        \/ /\ pc = "stage" /\ UNCHANGED board /\ offset' = offset /\ crashes' = crashes
           /\ outbox' = [outbox EXCEPT ![Current.key] =
                             Filed([event |-> Current, src |-> job.src])]
    BY <1>3 DEF Stage, others
  <2>2. QED
    BY <1>1, <1>2, <2>1, StageFiles DEF Kept
<1>4. CASE Unlink
  <2>1. /\ outbox' = [outbox EXCEPT ![Current.key] = None]
        /\ Current.key \in refused
    BY <1>1, <1>4 DEF Unlink, JobInv, FiledOK
  <2>2. \A k \in Keys : k # Current.key => outbox'[k] = outbox[k]
    BY <1>1, <2>1 DEF FileInv, FilesShape
  <2>3. QED
    BY <2>1, <2>2 DEF Kept
<1>5. CASE Resolve
  <2>1. PICK d \in job.done : outbox' = [outbox EXCEPT ![d] = None]
    BY <1>5 DEF Resolve
  <2>2. DoneOK(d)
    BY <1>1 DEF JobInv
  <2>3. \A k \in Keys : k # d => outbox'[k] = outbox[k]
    BY <1>1, <2>1 DEF FileInv, FilesShape
  <2>4. QED
    BY <2>2, <2>3 DEF Kept, DoneOK, Settled
<1>6. CASE Working /\ ~(Stage \/ Unlink \/ Resolve)
  <2>1. UNCHANGED outbox
    BY <1>6 DEF Working, Recover, Replay, Poll, Take, FollowUp, ChoosePlan, AppendOutput,
                SaveOffset, durable
  <2>2. QED
    BY <1>2, <2>1
<1>7. ASSUME NEW t \in Tasks, CloseRound(t) PROVE Kept
  BY <1>2, <1>7 DEF CloseRound, durable
<1>8. ASSUME NEW tr \in TaskRevs, AgentExit(tr) PROVE Kept
  BY <1>2, <1>8 DEF AgentExit, durable
<1>9. ASSUME NEW e \in Offered, External(e) PROVE Kept
  BY <1>2, <1>9 DEF External, Arrive, durable
<1>10. CASE Crash \/ Decide
  BY <1>2, <1>10 DEF Crash, Decide, durable
<1>11. CASE Submit \/ Report \/ Intercept
  <2>1. UNCHANGED outbox
    BY <1>11 DEF Submit, Report, Intercept, Arrive, durable
  <2>2. QED
    BY <1>2, <2>1
<1>12. CASE UNCHANGED vars
  BY <1>2, <1>12 DEF vars, durable
<1>13. QED
  BY <1>3, <1>4, <1>5, <1>6, <1>7, <1>8, <1>9, <1>10, <1>11, <1>12 DEF Next

\* No output is lost: a file leaves the outbox only when its key is on the
\* Blackboard, its task has ended, or it is kept among the refused ones.
THEOREM OutputsKept == NamesAvailable => (Spec => NoOutputLost)
<1>1. SUFFICES ASSUME NamesAvailable PROVE Spec => NoOutputLost
  OBVIOUS
<1>2. Inv /\ [Next]_vars => [Kept]_vars
  BY OutboxKept
<1>3. Spec => []Inv
  BY <1>1, InvariantHolds
<1>4. Spec => [][Kept]_vars
  BY <1>2, <1>3, PTL DEF Spec
<1>5. QED
  BY <1>4 DEF NoOutputLost, Kept

-----------------------------------------------------------------------------
(* What an event of the log is to the view of its task revision, for good. *)

\* The id of a plan tells its task revision and epoch.
PlanNamed(e) ==
    e.type \in {"task_assigned", "assignment_completed"} \cup RobotTypes =>
        e.plan = PlanOf(<<e.task, e.rev>>, e.epoch)

PlanOK(v, tr) ==
    v.plan # None =>
        v.plan.epoch = v.epoch /\ v.plan.id = PlanOf(tr, v.epoch) /\ v.round = None

\* e is about an assignment of the current plan, or of one that was replaced.
InPlan(v, e) ==
    \/ e.epoch < v.epoch
    \/ v.plan # None /\ v.epoch = e.epoch /\ e.asg \in v.plan.asgs

Lasting(v, e) ==
    \/ v.terminal # None
    \/ /\ e.type \notin TerminalTypes
       /\ e.type = "bid_round_opened" => e.epoch <= v.epoch
       /\ e.type = "task_assigned" => e.epoch < v.epoch \/ (v.plan # None /\ e.epoch = v.epoch)
       /\ e.type \in {"assignment_completed"} \cup RobotTypes => InPlan(v, e)
       /\ e.type = "assignment_completed" => e.epoch < v.epoch \/ e.asg \in v.completed

LEMMA EpochShape ==
    ASSUME NEW e \in Event,
           e.type \in {"bid_round_opened", "task_assigned", "assignment_completed"} \cup RobotTypes
    PROVE  e.epoch \in Nat
<1>1. CASE e.type = "bid_round_opened"
  BY <1>1, RoundShape
<1>2. CASE e.type = "task_assigned"
  BY <1>2, AssignedShape
<1>3. CASE e.type \in {"action_intent", "assignment_completed"}
  BY <1>3, WorkShape
<1>4. CASE e.type \in {"receipt", "safety_intercept"}
  BY <1>4, ReportShape DEF ActionShape
<1>5. QED
  BY <1>1, <1>2, <1>3, <1>4 DEF RobotTypes

LEMMA CompletedGrows ==
    ASSUME NEW v \in View, NEW e \in Event, e.type = "assignment_completed"
    PROVE  /\ v.completed \subseteq Apply(v, e).completed
           /\ v.terminal = None /\ v.plan # None /\ e.plan = v.plan.id
              /\ e.epoch = v.plan.epoch /\ e.asg \in v.plan.asgs
              => e.asg \in Apply(v, e).completed
  BY DEF Apply, ApplyCompleted, View, TerminalTypes

\* What an event is to a view it stays, whatever is committed.
LEMMA LastingStays ==
    ASSUME NEW v \in View, ViewOK(v), NEW f \in Event, Accepted(v, f),
           NEW e \in Event, Lasting(v, e)
    PROVE  Lasting(Apply(v, f), e)
<1> DEFINE w == Apply(v, f)
<1>1. v.epoch \in Nat /\ (v.round # None => v.round.epoch = v.epoch /\ v.epoch # 0)
  BY DEF View, ViewOK
<1>2. w.epoch \in Nat /\ v.epoch <= w.epoch
  BY <1>1, EpochGrows
<1>3. CASE v.terminal # None
  BY <1>3, Frozen DEF Lasting
<1>4. CASE v.terminal = None /\ f.type \in TerminalTypes
  <2>1. w.terminal = f.id /\ f.id # None
    BY <1>4, AcceptedTerminal, EventShape, NoneAssumption DEF Accepted, GatedTypes, TerminalTypes
  <2>2. QED
    BY <2>1 DEF Lasting
<1>5. CASE v.terminal = None /\ f.type \notin TerminalTypes
  <2>1. w.terminal = None
    BY <1>5, ApplyKeepsTerminal
  <2>2. /\ \/ w.epoch = v.epoch /\ w.plan = v.plan /\ v.completed \subseteq w.completed
           \/ v.plan = None
           \/ v.epoch < w.epoch
        /\ v.plan # None => w.plan # None \/ v.epoch < w.epoch
    <3>1. CASE f.type = "bid_round_opened"
      BY <1>1, <3>1, RoundApplies
    <3>2. CASE f.type = "task_assigned"
      BY <3>2, AssignedApplies
    <3>3. CASE f.type = "task_replan"
      BY <1>1, <3>3, ReplanApplies
    <3>4. CASE f.type = "assignment_completed"
      BY <3>4, CompletedApplies, CompletedGrows
    <3>5. CASE f.type \notin PlanTypes
      BY <3>5, OthersKeepPlan
    <3>6. QED
      BY <3>1, <3>2, <3>3, <3>4, <3>5 DEF PlanTypes
  <2>3. /\ e.type \notin TerminalTypes
        /\ e.type = "bid_round_opened" => e.epoch <= v.epoch
        /\ e.type = "task_assigned" => e.epoch < v.epoch \/ (v.plan # None /\ e.epoch = v.epoch)
        /\ e.type \in {"assignment_completed"} \cup RobotTypes => InPlan(v, e)
        /\ e.type = "assignment_completed" => e.epoch < v.epoch \/ e.asg \in v.completed
    BY <1>5 DEF Lasting
  <2>9. /\ e.type \in {"bid_round_opened", "task_assigned"} => e.epoch \in Nat
        /\ e.type \in {"assignment_completed"} \cup RobotTypes => e.epoch \in Nat
    BY EpochShape
  <2> HIDE DEF w
  <2>4. e.type = "bid_round_opened" => e.epoch <= w.epoch
    BY <1>1, <1>2, <2>3, <2>9
  <2>5. e.type \in {"assignment_completed"} \cup RobotTypes => InPlan(w, e)
    BY <1>1, <1>2, <2>2, <2>3, <2>9 DEF InPlan
  <2>6. e.type = "assignment_completed" => e.epoch < w.epoch \/ e.asg \in w.completed
    <3>1. SUFFICES ASSUME e.type = "assignment_completed", ~(e.epoch < w.epoch)
                   PROVE  e.asg \in w.completed
      OBVIOUS
    <3>2. e.epoch \in Nat /\ InPlan(v, e) /\ (e.epoch < v.epoch \/ e.asg \in v.completed)
      BY <2>3, <2>9, <3>1
    <3>3. ~(e.epoch < v.epoch) /\ v.plan # None /\ v.epoch = e.epoch /\ e.asg \in v.completed
      BY <1>1, <1>2, <3>1, <3>2 DEF InPlan
    <3>4. ~(v.epoch < w.epoch)
      BY <3>1, <3>3
    <3>5. QED
      BY <2>2, <3>3, <3>4
  <2>7. e.type = "task_assigned" =>
          e.epoch < w.epoch \/ (w.plan # None /\ e.epoch = w.epoch)
    BY <1>1, <1>2, <2>2, <2>3, <2>9
  <2>8. QED
    BY <2>3, <2>4, <2>5, <2>6, <2>7 DEF Lasting, w
<1>6. QED
  BY <1>3, <1>4, <1>5

\* What an event is to the view once it is committed.
LEMMA LastingBegins ==
    ASSUME NEW v \in View, ViewOK(v), NEW tr, PlanOK(v, tr),
           NEW f \in Event, Accepted(v, f), PlanNamed(f), <<f.task, f.rev>> = tr,
           f.type \in {"assignment_completed", "receipt", "safety_intercept"} =>
               v.terminal # None \/ InPlan(v, f)
    PROVE  Lasting(Apply(v, f), f)
<1> DEFINE w == Apply(v, f)
<1>1. v.epoch \in Nat /\ (v.round # None => v.round.epoch = v.epoch /\ v.epoch # 0)
  BY DEF View, ViewOK
<1>2. CASE v.terminal # None
  BY <1>2, Frozen DEF Lasting
<1>3. CASE v.terminal = None /\ f.type \in TerminalTypes
  <2>1. w.terminal = f.id /\ f.id # None
    BY <1>3, AcceptedTerminal, EventShape, NoneAssumption DEF Accepted, GatedTypes, TerminalTypes
  <2>2. QED
    BY <2>1 DEF Lasting
<1>4. CASE f.type = "bid_round_opened"
  <2>1. f.epoch = w.epoch /\ f.epoch \in Nat
    BY <1>1, <1>4, RoundApplies, RoundShape
  <2>2. QED
    BY <1>4, <2>1 DEF Lasting, TerminalTypes, RobotTypes
<1>5. CASE f.type = "task_assigned"
  <2>1. w.plan # None
    BY <1>5, AssignedApplies
  <2>3. Apply(v, f).epoch = v.epoch /\ v.epoch = f.epoch
    BY <1>5, AssignedApplies
  <2>2. QED
    BY <1>5, <2>1, <2>3 DEF Lasting, TerminalTypes, RobotTypes
<1>6. CASE v.terminal = None /\ f.type = "assignment_completed"
  <2>1. InPlan(v, f) /\ w.plan = v.plan /\ w.epoch = v.epoch
    BY <1>6, CompletedApplies
  <2>2. f.epoch < v.epoch \/ f.asg \in w.completed
    <3>1. CASE v.plan # None /\ v.epoch = f.epoch /\ f.asg \in v.plan.asgs
      <4>1. f.plan = v.plan.id /\ f.epoch = v.plan.epoch
        BY <1>6, <3>1 DEF PlanOK, PlanNamed
      <4>2. QED
        BY <1>6, <3>1, <4>1, CompletedGrows
    <3>2. QED
      BY <2>1, <3>1 DEF InPlan
  <2> HIDE DEF w
  <2>3. QED
    BY <1>6, <2>1, <2>2 DEF Lasting, TerminalTypes, InPlan, w
<1>7. CASE v.terminal = None /\ f.type \in RobotTypes
  <2>1. w.plan = v.plan /\ w.epoch = v.epoch
    BY <1>7, OthersKeepPlan DEF RobotTypes, PlanTypes
  <2>2. InPlan(v, f)
    <3>1. CASE f.type = "action_intent"
      BY <3>1 DEF Accepted, Accepts, AcceptsIntent, GatedTypes, InPlan
    <3>2. QED
      BY <1>7, <3>1 DEF RobotTypes
  <2> HIDE DEF w
  <2>3. QED
    BY <1>7, <2>1, <2>2 DEF Lasting, TerminalTypes, InPlan, RobotTypes, w
<1>8. CASE f.type \notin TerminalTypes \cup RobotTypes
                 \cup {"bid_round_opened", "task_assigned", "assignment_completed"}
  BY <1>8 DEF Lasting
<1>9. QED
  BY <1>2, <1>3, <1>4, <1>5, <1>6, <1>7, <1>8

LEMMA PlanStep ==
    ASSUME NEW v \in View, ViewOK(v), NEW tr, PlanOK(v, tr),
           NEW f \in Event, Accepted(v, f), PlanNamed(f),
           f.type = "task_assigned" => <<f.task, f.rev>> = tr
    PROVE  PlanOK(Apply(v, f), tr)
<1> DEFINE w == Apply(v, f)
<1>1. v.round # None => v.round.epoch = v.epoch /\ v.epoch # 0
  BY DEF ViewOK
<1>2. CASE f.type = "bid_round_opened"
  BY <1>1, <1>2, RoundApplies DEF PlanOK
<1>3. CASE f.type = "task_assigned"
  <2>1. /\ w.plan = [id |-> f.plan, epoch |-> f.epoch, asgs |-> f.asgs]
        /\ w.epoch = f.epoch /\ w.round = None
    BY <1>3, AssignedApplies
  <2>2. f.plan = PlanOf(tr, f.epoch)
    BY <1>3 DEF PlanNamed
  <2> HIDE DEF w
  <2>3. QED
    BY <2>1, <2>2 DEF PlanOK, w
<1>4. CASE f.type = "task_replan"
  BY <1>4, ReplanApplies DEF PlanOK
<1>5. CASE f.type = "assignment_completed"
  BY <1>5, CompletedApplies DEF PlanOK
<1>6. CASE f.type \notin PlanTypes
  <2>1. w.round \in {v.round, None} /\ w.plan = v.plan /\ w.epoch = v.epoch
    BY <1>6, OthersKeepPlan
  <2> HIDE DEF w
  <2>2. QED
    BY <2>1 DEF PlanOK, w
<1>7. QED
  BY <1>2, <1>3, <1>4, <1>5, <1>6 DEF PlanTypes

\* What the log is to the views: everything committed had its effect, and lasts.
LogTold ==
    /\ \A n \in DOMAIN log : PlanNamed(log[n])
    /\ \A tr \in TaskRevs : PlanOK(view[tr], tr)
    /\ \A n \in DOMAIN log : log[n].type \notin {"clue", "estop"} =>
          Lasting(view[<<log[n].task, log[n].rev>>], log[n])
    /\ \A tr \in TaskRevs : byTerminal[tr] # 0 => view[tr].terminal # None

LEMMA OwnTask ==
    ASSUME NEW e \in Event, e.type \notin {"clue", "estop"}
    PROVE  <<e.task, e.rev>> \in TaskRevs
  BY EventShape DEF TaskRevs

LEMMA ToldCommit ==
    ASSUME LogInv, LogTold, NEW e, Known(e), Bd!Outcome(e) = "APPENDED", Bd!Commit(e),
           PlanNamed(e),
           e.type \in {"assignment_completed", "receipt", "safety_intercept"} =>
               \/ view[<<e.task, e.rev>>].terminal # None
               \/ InPlan(view[<<e.task, e.rev>>], e)
    PROVE  /\ LogTold'
           /\ e.type \notin {"clue", "estop"} => Lasting(view'[<<e.task, e.rev>>], e)
<1>0. e \in Event
  BY DEF Known
<1>1. /\ DOMAIN log = 1 .. Len(log)
      /\ \A n \in DOMAIN log : log'[n] = log[n] /\ log[n] \in Event
      /\ \A n \in DOMAIN log' : n \in DOMAIN log \/ log'[n] = e
  BY <1>0, Grows DEF LogInv, LogShape
<1>2. ASSUME NEW tr \in TaskRevs, NEW f \in Event, Lasting(view[tr], f)
      PROVE  Lasting(view'[tr], f)
  <2>1. view'[tr] = view[tr] \/ (view'[tr] = Apply(view[tr], e) /\ Accepted(view[tr], e))
    BY <1>0, ViewStep
  <2>2. view[tr] \in View /\ ViewOK(view[tr])
    BY DEF LogInv, ViewsOK
  <2>3. QED
    BY <1>0, <1>2, <2>1, <2>2, LastingStays
<1>3. e.type \notin {"clue", "estop"} => Lasting(view'[<<e.task, e.rev>>], e)
  <2>1. SUFFICES ASSUME e.type \notin {"clue", "estop"}
                 PROVE  Lasting(view'[<<e.task, e.rev>>], e)
    OBVIOUS
  <2>2. PICK tr \in TaskRevs : tr = <<e.task, e.rev>>
    BY <1>0, <2>1, OwnTask
  <2>3. Bd!Target(e) = tr
    BY <1>0, <2>1, <2>2, Committed
  <2>4. view'[tr] = Apply(view[tr], e) /\ Accepted(view[tr], e)
    BY <1>0, <2>3, ViewStep
  <2>5. view[tr] \in View /\ ViewOK(view[tr]) /\ PlanOK(view[tr], tr)
    BY DEF LogInv, ViewsOK, LogTold
  <2>6. e.type \in {"assignment_completed", "receipt", "safety_intercept"} =>
            view[tr].terminal # None \/ InPlan(view[tr], e)
    BY <2>2
  <2>7. Lasting(Apply(view[tr], e), e)
    BY <1>0, <2>2, <2>4, <2>5, <2>6, LastingBegins
  <2>8. QED
    BY <2>2, <2>4, <2>7
<1>4. ASSUME NEW tr \in TaskRevs PROVE PlanOK(view'[tr], tr)
  <2>1. /\ view'[tr] = view[tr] \/ (view'[tr] = Apply(view[tr], e) /\ Accepted(view[tr], e))
        /\ e.type = "task_assigned" /\ view'[tr] # view[tr] => Bd!Target(e) = tr
    BY <1>0, ViewStep
  <2>2. view[tr] \in View /\ ViewOK(view[tr]) /\ PlanOK(view[tr], tr)
    BY DEF LogInv, ViewsOK, LogTold
  <2>3. e.type = "task_assigned" => Bd!Target(e) = <<e.task, e.rev>>
    BY <1>0, Committed
  <2>4. CASE view'[tr] = view[tr]
    BY <2>2, <2>4
  <2>5. CASE view'[tr] # view[tr]
    <3>1. view'[tr] = Apply(view[tr], e) /\ Accepted(view[tr], e)
          /\ (e.type = "task_assigned" => <<e.task, e.rev>> = tr)
      BY <2>1, <2>3, <2>5
    <3>2. PlanOK(Apply(view[tr], e), tr)
      BY <1>0, <2>2, <3>1, PlanStep
    <3>3. QED
      BY <3>1, <3>2
  <2>6. QED
    BY <2>4, <2>5
<1>5. ASSUME NEW tr \in TaskRevs, byTerminal'[tr] # 0 PROVE view'[tr].terminal # None
  <2>1. byTerminal' = IF e.type \in TerminalTypes
                      THEN [byTerminal EXCEPT ![<<e.task, e.rev>>] = Len(log) + 1]
                      ELSE byTerminal
    BY <1>0, Committed
  <2>2. byTerminal \in [TaskRevs -> Nat]
    BY DEF LogInv, IndexesOK
  <2>3. CASE byTerminal[tr] # 0
    <3>1. view[tr].terminal # None
      BY <2>3 DEF LogTold
    <3>2. view'[tr] = view[tr] \/ view'[tr] = Apply(view[tr], e)
      BY <1>0, ViewStep
    <3>3. QED
      BY <3>1, <3>2, Frozen
  <2>4. CASE byTerminal[tr] = 0
    <3>1. e.type \in TerminalTypes /\ tr = <<e.task, e.rev>>
      BY <1>5, <2>1, <2>2, <2>4
    <3>2. Lasting(view'[tr], e)
      BY <1>3, <3>1 DEF TerminalTypes
    <3>3. QED
      BY <3>1, <3>2 DEF Lasting
  <2>5. QED
    BY <2>3, <2>4
<1>6. ASSUME NEW n \in DOMAIN log', log'[n].type \notin {"clue", "estop"}
      PROVE  Lasting(view'[<<log'[n].task, log'[n].rev>>], log'[n])
  <2>1. CASE n \in DOMAIN log
    <3>1. PICK f : f = log[n]
      OBVIOUS
    <3>2. f = log'[n] /\ f \in Event /\ f.type \notin {"clue", "estop"}
      BY <1>1, <1>6, <2>1, <3>1
    <3>3. PICK tr \in TaskRevs : tr = <<f.task, f.rev>>
      BY <3>2, OwnTask
    <3>4. Lasting(view[tr], f)
      BY <2>1, <3>1, <3>2, <3>3 DEF LogTold
    <3>5. QED
      BY <1>2, <3>2, <3>3, <3>4
  <2>2. CASE log'[n] = e
    BY <1>3, <1>6, <2>2
  <2>3. QED
    BY <1>1, <2>1, <2>2
<1>7. ASSUME NEW n \in DOMAIN log' PROVE PlanNamed(log'[n])
  BY <1>1 DEF LogTold
<1>8. LogTold'
  BY <1>4, <1>5, <1>6, <1>7 DEF LogTold
<1>9. QED
  BY <1>3, <1>8

LEMMA ToldSame == ASSUME LogTold, UNCHANGED board PROVE LogTold'
  BY DEF board, LogTold

\* Two events of one name are the same to a view.
LEMMA LastingAlike ==
    ASSUME NEW v, NEW e, NEW f, Named(e), Named(f), e.key = f.key, Lasting(v, e)
    PROVE  Lasting(v, f)
<1>1. /\ e.type \in TerminalTypes <=> f.type \in TerminalTypes
      /\ e.type \notin TerminalTypes => e.type = f.type
      /\ e.type \in {"bid_round_opened", "task_assigned", "assignment_completed"}
            \cup RobotTypes => e.epoch = f.epoch
      /\ e.type \in {"assignment_completed"} \cup RobotTypes => e.asg = f.asg
  BY SameKey
<1>2. QED
  BY <1>1 DEF Lasting, InPlan

-----------------------------------------------------------------------------
(* An input that has had its effect, or will when F is on the Blackboard.  *)

EndsBy(x, F) ==
    \/ view[x].terminal # None
    \/ \E f \in F : f.type \in TerminalTypes /\ <<f.task, f.rev>> = x

OpensBy(tr, F) ==
    \/ view[tr].epoch >= 1
    \/ \E f \in F : f.type = "bid_round_opened" /\ <<f.task, f.rev>> = tr

CompletesBy(e, F) ==
    \/ e.asg \in view[<<e.task, e.rev>>].completed
    \/ \E f \in F : /\ f.type = "assignment_completed" /\ <<f.task, f.rev>> = <<e.task, e.rev>>
                    /\ f.epoch = e.epoch /\ f.asg = e.asg

TookBy(n, F) ==
    LET e == log[n]
        tr == <<e.task, e.rev>>
        gone == EndsBy(tr, F) \/ view[tr].epoch > e.epoch
    IN  /\ e.type = "task_posted" => EndsBy(tr, F) \/ (tr \notin Slotless /\ OpensBy(tr, F))
        /\ e.type = "receipt" => gone \/ (e.good /\ CompletesBy(e, F))
        /\ e.type = "safety_intercept" => EndsBy(tr, F)
        /\ e.type = "estop" => \A x \in Stopped(n) : EndsBy(x, F)

LEMMA TookAll == ASSUME NEW n PROVE TookBy(n, {}) <=> Took(n)
<1>1. CASE log[n].type = "task_posted"
  BY <1>1 DEF TookBy, Took, EndsBy, OpensBy
<1>2. CASE log[n].type = "receipt"
  BY <1>2 DEF TookBy, Took, EndsBy, CompletesBy
<1>3. CASE log[n].type = "safety_intercept"
  BY <1>3 DEF TookBy, Took, EndsBy
<1>4. CASE log[n].type = "estop"
  BY <1>4 DEF TookBy, Took, EndsBy
<1>5. CASE log[n].type \notin {"task_posted", "receipt", "safety_intercept", "estop"}
  BY <1>5 DEF TookBy, Took
<1>6. QED
  BY <1>1, <1>2, <1>3, <1>4, <1>5

LEMMA StoppedPosted ==
    ASSUME LogInv, NEW n \in DOMAIN log, NEW x \in Stopped(n)
    PROVE  /\ x \in TaskRevs
           /\ \E m \in DOMAIN log : m <= n /\ log[m].type = "task_posted" /\ x = <<log[m].task, log[m].rev>>
           /\ log[n].rev # None => x = <<log[n].task, log[n].rev>>
<1>1. PICK m \in 1 .. n : /\ log[m].type = "task_posted" /\ x = <<log[m].task, log[m].rev>>
                          /\ log[n].rev # None => x = <<log[n].task, log[n].rev>>
  BY DEF Stopped
<1>2. m \in DOMAIN log /\ m <= n
  BY LogLength
<1>3. log[m] \in Event
  BY <1>2 DEF LogInv, LogShape
<1>4. x \in TaskRevs
  BY <1>1, <1>3, OwnTask
<1>5. QED
  BY <1>1, <1>2, <1>4

LEMMA StoppedSame ==
    ASSUME LogInv, NEW n \in DOMAIN log, \A m \in DOMAIN log : log'[m] = log[m]
    PROVE  Stopped(n)' = Stopped(n)
<1>1. \A m \in 1 .. n : m \in DOMAIN log
  BY LogLength
<1>2. QED
  BY <1>1 DEF Stopped

\* What has been published is as good as done.
LEMMA TookLess ==
    ASSUME LogInv, NEW n \in DOMAIN log, NEW F, NEW G, TookBy(n, F),
           \A f \in F : f \in G \/ (f \in Event /\ Lasting(view[<<f.task, f.rev>>], f))
    PROVE  TookBy(n, G)
<1>1. ASSUME NEW x, EndsBy(x, F) PROVE EndsBy(x, G)
  BY <1>1 DEF EndsBy, Lasting
<1>2. ASSUME NEW tr \in TaskRevs, OpensBy(tr, F) PROVE OpensBy(tr, G) \/ EndsBy(tr, G)
  <2>1. CASE view[tr].epoch >= 1
    BY <2>1 DEF OpensBy
  <2>2. ASSUME NEW f \in F, f.type = "bid_round_opened", <<f.task, f.rev>> = tr
        PROVE  OpensBy(tr, G) \/ EndsBy(tr, G)
    <3>1. CASE f \in G
      BY <2>2, <3>1 DEF OpensBy
    <3>2. CASE f \in Event /\ Lasting(view[tr], f)
      <4>1. f.epoch \in Nat \ {0} /\ view[tr].epoch \in Nat
        BY <2>2, <3>2, RoundShape DEF LogInv, ViewsOK, View
      <4>2. view[tr].terminal # None \/ f.epoch <= view[tr].epoch
        BY <2>2, <3>2 DEF Lasting
      <4>3. view[tr].terminal # None \/ view[tr].epoch >= 1
        BY <4>1, <4>2
      <4>4. QED
        BY <4>3 DEF OpensBy, EndsBy
    <3>3. QED
      BY <2>2, <3>1, <3>2
  <2>3. QED
    BY <1>2, <2>1, <2>2 DEF OpensBy
<1>3. ASSUME NEW e, CompletesBy(e, F)
      PROVE  \/ CompletesBy(e, G) \/ EndsBy(<<e.task, e.rev>>, G)
             \/ view[<<e.task, e.rev>>].epoch > e.epoch
  <2>1. CASE e.asg \in view[<<e.task, e.rev>>].completed
    BY <2>1 DEF CompletesBy
  <2>2. ASSUME NEW f \in F, f.type = "assignment_completed",
               <<f.task, f.rev>> = <<e.task, e.rev>>, f.epoch = e.epoch, f.asg = e.asg
        PROVE  \/ CompletesBy(e, G) \/ EndsBy(<<e.task, e.rev>>, G)
               \/ view[<<e.task, e.rev>>].epoch > e.epoch
    <3>1. CASE f \in G
      BY <2>2, <3>1 DEF CompletesBy
    <3>2. CASE f \in Event /\ Lasting(view[<<f.task, f.rev>>], f)
      <4>1. f.epoch \in Nat /\ <<f.task, f.rev>> \in TaskRevs
        BY <2>2, <3>2, WorkShape, OwnTask
      <4>2. view[<<f.task, f.rev>>].epoch \in Nat
        BY <4>1 DEF LogInv, ViewsOK, View
      <4>3. \/ view[<<f.task, f.rev>>].terminal # None
            \/ f.epoch < view[<<f.task, f.rev>>].epoch
            \/ f.asg \in view[<<f.task, f.rev>>].completed
        BY <2>2, <3>2 DEF Lasting
      <4>4. \/ view[<<e.task, e.rev>>].terminal # None
            \/ e.epoch < view[<<e.task, e.rev>>].epoch
            \/ e.asg \in view[<<e.task, e.rev>>].completed
        BY <2>2, <4>3
      <4>5. e.epoch \in Nat /\ view[<<e.task, e.rev>>].epoch \in Nat
        BY <2>2, <4>1, <4>2
      <4>6. QED
        BY <4>4, <4>5 DEF CompletesBy, EndsBy
    <3>3. QED
      BY <2>2, <3>1, <3>2
  <2>3. QED
    BY <1>3, <2>1, <2>2 DEF CompletesBy
<1>4. PICK e \in Event : e = log[n]
  BY DEF LogInv, LogShape
<1>5. e.type = "task_posted" => <<e.task, e.rev>> \in TaskRevs
  BY OwnTask
<1>6. QED
  BY <1>1, <1>2, <1>3, <1>4, <1>5 DEF TookBy

\* An effect is not undone.
LEMMA TookStays ==
    ASSUME LogInv, LogTold, NEW e, Known(e), Bd!Outcome(e) = "APPENDED", Bd!Commit(e),
           NEW n \in DOMAIN log, NEW F, TookBy(n, F)
    PROVE  TookBy(n, F)'
<1>0. e \in Event
  BY DEF Known
<1>1. \A m \in DOMAIN log : log'[m] = log[m]
  BY <1>0, Grows
<1>2. ASSUME NEW tr \in TaskRevs
      PROVE  /\ view[tr].terminal # None => view'[tr].terminal # None
             /\ view[tr].epoch \in Nat /\ view'[tr].epoch \in Nat
             /\ view[tr].epoch <= view'[tr].epoch
  <2>1. view'[tr] = view[tr] \/ (view'[tr] = Apply(view[tr], e) /\ Accepted(view[tr], e))
    BY <1>0, ViewStep
  <2>2. view[tr] \in View
        /\ (view[tr].round # None => view[tr].round.epoch = view[tr].epoch /\ view[tr].epoch # 0)
    BY DEF LogInv, ViewsOK, ViewOK
  <2>3. view[tr].epoch \in Nat
    BY <2>2 DEF View
  <2>4. CASE view'[tr] = view[tr]
    BY <2>3, <2>4
  <2>5. CASE view'[tr] = Apply(view[tr], e) /\ Accepted(view[tr], e)
    BY <1>0, <2>2, <2>3, <2>5, Frozen, EpochGrows
  <2>6. QED
    BY <2>1, <2>4, <2>5
<1>3. ASSUME NEW x \in TaskRevs, EndsBy(x, F) PROVE EndsBy(x, F)'
  BY <1>2, <1>3 DEF EndsBy
<1>4. ASSUME NEW x \in TaskRevs, OpensBy(x, F) PROVE OpensBy(x, F)'
  BY <1>2, <1>4 DEF OpensBy
<1>5. PICK f \in Event : f = log[n] /\ f = log'[n]
  BY <1>1 DEF LogInv, LogShape
<1>6. CASE f.type = "task_posted"
  <2>1. <<f.task, f.rev>> \in TaskRevs
    BY <1>6, OwnTask
  <2>2. QED
    BY <1>3, <1>4, <1>5, <1>6, <2>1 DEF TookBy, Slotless
<1>7. CASE f.type = "safety_intercept"
  <2>1. <<f.task, f.rev>> \in TaskRevs
    BY <1>7, OwnTask
  <2>2. QED
    BY <1>3, <1>5, <1>7, <2>1 DEF TookBy
<1>8. CASE f.type = "estop"
  <2>1. Stopped(n)' = Stopped(n) /\ \A x \in Stopped(n) : x \in TaskRevs
    BY <1>1, StoppedSame, StoppedPosted
  <2>2. QED
    BY <1>3, <1>5, <1>8, <2>1 DEF TookBy
<1>9. CASE f.type = "receipt"
  <2>1. PICK tr \in TaskRevs : tr = <<f.task, f.rev>>
    BY <1>9, OwnTask
  <2>2. f.epoch \in Nat
    BY <1>9, EpochShape DEF RobotTypes
  <2>3. CASE EndsBy(tr, F) \/ view[tr].epoch > f.epoch
    <3>1. EndsBy(tr, F)' \/ view'[tr].epoch > f.epoch
      BY <1>2, <1>3, <2>2, <2>3
    <3>2. QED
      BY <1>5, <1>9, <2>1, <3>1 DEF TookBy
  <2>4. CASE f.good /\ CompletesBy(f, F)
    <3>1. CASE \E g \in F : /\ g.type = "assignment_completed"
                            /\ <<g.task, g.rev>> = <<f.task, f.rev>>
                            /\ g.epoch = f.epoch /\ g.asg = f.asg
      BY <1>5, <1>9, <2>4, <3>1 DEF TookBy, CompletesBy
    <3>2. CASE f.asg \in view[tr].completed
      <4>1. Lasting(view[tr], f)
        BY <1>5, <1>9, <2>1 DEF LogTold
      <4>2. view'[tr] = view[tr] \/ (view'[tr] = Apply(view[tr], e) /\ Accepted(view[tr], e))
        BY <1>0, ViewStep
      <4>3. view[tr] \in View /\ ViewOK(view[tr])
        BY DEF LogInv, ViewsOK
      <4>4. \/ view[tr].terminal # None \/ view[tr].epoch > f.epoch
            \/ view[tr].plan # None
        BY <1>9, <2>2, <1>2, <4>1 DEF Lasting, InPlan, RobotTypes
      <4>5. CASE view[tr].terminal # None \/ view[tr].epoch > f.epoch
        <5>1. EndsBy(tr, F) \/ view[tr].epoch > f.epoch
          BY <4>5 DEF EndsBy
        <5>2. QED
          BY <2>3, <5>1
      <4>6. CASE view[tr].plan # None /\ view[tr].terminal = None /\ ~(view[tr].epoch > f.epoch)
        <5>1. view[tr].completed \subseteq view'[tr].completed \/ view[tr].epoch < view'[tr].epoch
          <6>1. CASE view'[tr] = view[tr]
            BY <6>1
          <6>2. CASE view'[tr] = Apply(view[tr], e) /\ Accepted(view[tr], e)
            <7>1. CASE e.type \in {"bid_round_opened", "task_assigned"}
              BY <1>0, <4>3, <4>6, <6>2, <7>1, RoundApplies, AssignedApplies DEF ViewOK
            <7>2. CASE e.type = "task_replan"
              BY <1>0, <1>2, <4>3, <6>2, <7>2, ReplanApplies
            <7>3. CASE e.type = "assignment_completed"
              BY <1>0, <4>3, <6>2, <7>3, CompletedGrows
            <7>4. CASE e.type \notin PlanTypes
              BY <1>0, <4>3, <6>2, <7>4, OthersKeepPlan
            <7>5. QED
              BY <7>1, <7>2, <7>3, <7>4 DEF PlanTypes
          <6>3. QED
            BY <4>2, <6>1, <6>2
        <5>2. CASE view[tr].completed \subseteq view'[tr].completed
          <6>1. CompletesBy(f, F)'
            BY <2>1, <3>2, <5>2 DEF CompletesBy
          <6>2. QED
            BY <1>5, <1>9, <2>4, <6>1 DEF TookBy
        <5>3. CASE view[tr].epoch < view'[tr].epoch
          <6>1. view[tr].epoch >= f.epoch
            BY <1>9, <2>2, <1>2, <4>1, <4>6 DEF Lasting, InPlan, RobotTypes
          <6>2. view'[tr].epoch > f.epoch
            BY <1>2, <2>2, <5>3, <6>1
          <6>3. QED
            BY <1>5, <1>9, <2>1, <6>2 DEF TookBy
        <5>4. QED
          BY <5>1, <5>2, <5>3
      <4>7. QED
        BY <4>4, <4>5, <4>6
    <3>3. QED
      BY <2>1, <2>4, <3>1, <3>2 DEF CompletesBy
  <2>5. QED
    BY <1>5, <1>9, <2>1, <2>3, <2>4 DEF TookBy
<1>10. CASE f.type \notin {"task_posted", "safety_intercept", "estop", "receipt"}
  BY <1>5, <1>10 DEF TookBy
<1>11. QED
  BY <1>6, <1>7, <1>8, <1>9, <1>10

-----------------------------------------------------------------------------
(* What the process still owes to the inputs it read.                      *)

PlansNamed ==
    /\ \A w \in decided : w.plan = PlanOf(<<w.task, w.rev>>, w.epoch)
    /\ \A k \in Keys : outbox[k] # None => PlanNamed(outbox[k].event)
    /\ \A f \in Range(job.outs) : PlanNamed(f)

Handled == \A n \in 1 .. offset : TookBy(n, {})

\* The input in hand has its effect when its outputs are published, and none of
\* those before it was missed.
InHand ==
    job.from = "input" =>
        /\ \A n \in {job.src}, F \in {Range(job.outs)} : TookBy(n, F)
        /\ \A m \in offset + 1 .. job.src - 1 : log[m].type \notin CoordinatorTypes
        /\ pc = "followup" => job.outs = << >>

PostedKnown ==
    pc # "down" => \A m \in DOMAIN log :
        log[m].type = "task_posted" /\ (m <= offset \/ m <= job.src) =>
            \/ <<log[m].task, log[m].rev>> \in known
            \/ view[<<log[m].task, log[m].rev>>].terminal # None

EffectInv == LogTold /\ PlansNamed /\ Handled /\ InHand /\ PostedKnown

LEMMA TookSame ==
    ASSUME UNCHANGED board, NEW n, NEW F
    PROVE  TookBy(n, F)' <=> TookBy(n, F)
  BY DEF board, TookBy, EndsBy, OpensBy, CompletesBy, Stopped

LEMMA TookMore ==
    ASSUME NEW n, NEW F, NEW G, F \subseteq G, TookBy(n, F)
    PROVE  TookBy(n, G)
<1>1. /\ \A x : EndsBy(x, F) => EndsBy(x, G)
      /\ \A x : OpensBy(x, F) => OpensBy(x, G)
      /\ \A x : CompletesBy(x, F) => CompletesBy(x, G)
  BY DEF EndsBy, OpensBy, CompletesBy
<1>2. QED
  BY <1>1 DEF TookBy

LEMMA RangeOfFew ==
    /\ Range(<< >>) = {}
    /\ \A f : Range(<<f>>) = {f}
    /\ \A f, g : Range(<<f, g>>) = {f, g}
<1>1. ASSUME NEW f PROVE Range(<<f>>) = {f}
  BY DEF Range
<1>2. ASSUME NEW f, NEW g PROVE Range(<<f, g>>) = {f, g}
  <2>1. DOMAIN <<f, g>> = 1 .. 2 /\ <<f, g>>[1] = f /\ <<f, g>>[2] = g
    OBVIOUS
  <2>2. QED
    BY <2>1 DEF Range
<1>3. Range(<< >>) = {}
  BY DEF Range
<1>4. QED
  BY <1>1, <1>2, <1>3

LEMMA RangeOfSet ==
    ASSUME NEW S, IsFiniteSet(S)
    PROVE  Range(SetToSeq(S)) = S
<1>1. Cardinality(S) \in Nat /\ ExistsBijection(1 .. Cardinality(S), S)
  BY FS_CardinalityType
<1>2. \E f \in [1 .. Cardinality(S) -> S] : IsInjective(f)
  BY <1>1 DEF ExistsBijection, Bijection, Injection, IsInjective
<1>3. PICK f \in [1 .. Cardinality(S) -> S] : f = SetToSeq(S) /\ IsInjective(f)
  BY <1>2 DEF SetToSeq
<1>4. f \in Injection(1 .. Cardinality(S), S)
  BY <1>3 DEF Injection
<1>5. PICK g : g \in Bijection(1 .. Cardinality(S), S)
  BY <1>1 DEF ExistsBijection
<1>6. IsFiniteSet(1 .. Cardinality(S)) /\ Cardinality(1 .. Cardinality(S)) = Cardinality(S)
  BY <1>1, FS_Interval
<1>7. f \in Surjection(1 .. Cardinality(S), S)
  BY <1>4, <1>6, FS_Injection
<1>8. QED
  BY <1>3, <1>7 DEF Surjection, Range

LEMMA EffectSame ==
    ASSUME Inv, EffectInv, UNCHANGED board, offset' = offset, outbox' = outbox,
           known' = known, pc # "down", decided' = decided,
           job'.src \in {0, job.src}, InHand',
           \A f \in Range(job'.outs) : PlanNamed(f)
    PROVE  EffectInv'
<1>1. log' = log /\ view' = view
  BY DEF board
<1>2. LogTold'
  BY ToldSame DEF EffectInv
<1>3. PlansNamed'
  BY DEF EffectInv, PlansNamed
<1>4. Handled'
  BY TookSame DEF EffectInv, Handled
<1>5. PostedKnown'
  <2>1. \A m \in DOMAIN log : ~(m <= 0)
    BY LogLength DEF Inv
  <2>2. QED
    BY <1>1, <2>1 DEF EffectInv, PostedKnown
<1>6. QED
  BY <1>2, <1>3, <1>4, <1>5 DEF EffectInv

LEMMA EffectIdle ==
    ASSUME Inv, EffectInv, UNCHANGED board, offset' = offset, outbox' = outbox,
           known' = known, pc # "down", decided' = decided, job' = NoJob
    PROVE  EffectInv'
<1>1. job'.src = 0 /\ job'.from = "none" /\ job'.outs = << >>
  BY DEF NoJob
<1>2. InHand'
  BY <1>1 DEF InHand
<1>3. \A f \in Range(job'.outs) : PlanNamed(f)
  BY <1>1, RangeOfFew
<1>4. QED
  BY <1>1, <1>2, <1>3, EffectSame

\* Somebody else appends an event.
LEMMA EffectOthers ==
    ASSUME Inv, EffectInv, NEW e, Known(e), Bd!Outcome(e) = "APPENDED", Bd!Commit(e),
           UNCHANGED <<durable, memory, pc, job>>,
           PlanNamed(e), e.type # "assignment_completed",
           e.type \in {"receipt", "safety_intercept"} =>
               \/ view[<<e.task, e.rev>>].terminal # None
               \/ InPlan(view[<<e.task, e.rev>>], e),
           \A w \in decided' : w.plan = PlanOf(<<w.task, w.rev>>, w.epoch)
    PROVE  EffectInv'
<1>0. e \in Event /\ LogInv /\ LogTold
  BY DEF Known, Inv, EffectInv
<1>1. /\ offset' = offset /\ outbox' = outbox /\ known' = known /\ pc' = pc /\ job' = job
  BY DEF durable, memory
<1>2. LogTold'
  BY <1>0, ToldCommit
<1>3. PlansNamed'
  BY <1>1 DEF EffectInv, PlansNamed
<1>4. /\ Len(log) \in Nat /\ DOMAIN log = 1 .. Len(log)
      /\ \A n \in DOMAIN log : log'[n] = log[n]
      /\ \A n \in DOMAIN log' : n \in DOMAIN log \/ n = Len(log) + 1
  BY <1>0, Grows
<1>5. offset \in 0 .. Len(log) /\ job.src \in 0 .. Len(log)
  BY DEF Inv, BaseInv, JobInv, JobShape
<1>6. Handled'
  <2>1. SUFFICES ASSUME NEW n \in 1 .. offset PROVE TookBy(n, {})'
    BY <1>1 DEF Handled
  <2>2. n \in DOMAIN log
    BY <1>4, <1>5
  <2>3. TookBy(n, {})
    BY DEF EffectInv, Handled
  <2>4. QED
    BY <1>0, <2>2, <2>3, TookStays
<1>7. InHand'
  <2>1. SUFFICES ASSUME job.from = "input" PROVE InHand'
    BY <1>1 DEF InHand
  <2>2. job.src \in DOMAIN log
    BY <1>4, <1>5, <2>1 DEF Inv, JobInv, JobShape
  <2>3. ASSUME NEW n \in {job.src}, NEW F \in {Range(job.outs)} PROVE TookBy(n, F)'
    <3>1. TookBy(n, F)
      BY <2>1 DEF EffectInv, InHand
    <3>2. n \in DOMAIN log
      BY <2>2
    <3>3. QED
      BY <1>0, <3>1, <3>2, TookStays
  <2>4. \A m \in offset + 1 .. job.src - 1 : m \in DOMAIN log
    BY <1>4, <1>5
  <2>5. \A m \in offset + 1 .. job.src - 1 : log'[m].type \notin CoordinatorTypes
    BY <1>4, <2>1, <2>4 DEF EffectInv, InHand
  <2>6. pc = "followup" => job.outs = << >>
    BY <2>1 DEF EffectInv, InHand
  <2>7. QED
    BY <1>1, <2>3, <2>5, <2>6 DEF InHand
<1>8. PostedKnown'
  <2>1. SUFFICES ASSUME pc # "down", NEW m \in DOMAIN log', log'[m].type = "task_posted",
                        m <= offset \/ m <= job.src
                 PROVE  \/ <<log'[m].task, log'[m].rev>> \in known
                        \/ view'[<<log'[m].task, log'[m].rev>>].terminal # None
    BY <1>1 DEF PostedKnown
  <2>2. m \in DOMAIN log /\ log'[m] = log[m]
    BY <1>4, <1>5, <2>1
  <2>7. log[m] \in Event /\ log[m].type = "task_posted"
    BY <1>0, <2>1, <2>2 DEF LogInv, LogShape
  <2>3. PICK tr \in TaskRevs : tr = <<log[m].task, log[m].rev>>
    BY <2>7, OwnTask
  <2>4. tr \in known \/ view[tr].terminal # None
    BY <2>1, <2>2, <2>3 DEF EffectInv, PostedKnown
  <2>5. view'[tr] = view[tr] \/ view'[tr] = Apply(view[tr], e)
    BY <1>0, ViewStep
  <2>6. QED
    BY <2>2, <2>3, <2>4, <2>5, Frozen
<1>9. QED
  BY <1>2, <1>3, <1>6, <1>7, <1>8 DEF EffectInv

LEMMA ExternalEffect ==
    ASSUME Inv, EffectInv, NEW e \in Offered, External(e)
    PROVE  EffectInv'
<1>1. Known(e) /\ e.type \in {"task_posted", "clue", "estop"}
  BY OfferedAssumption DEF Known
<1>2. Bd!Outcome(e) = "APPENDED" /\ Bd!Commit(e)
      /\ UNCHANGED <<durable, memory, pc, job>> /\ decided' = decided
  BY DEF External, Arrive
<1>3. PlanNamed(e)
  BY <1>1 DEF PlanNamed, RobotTypes
<1>4. \A w \in decided' : w.plan = PlanOf(<<w.task, w.rev>>, w.epoch)
  BY <1>2 DEF EffectInv, PlansNamed
<1>5. QED
  BY <1>1, <1>2, <1>3, <1>4, EffectOthers

LEMMA SubmitEffect ==
    ASSUME NamesAvailable, Inv, EffectInv, Submit
    PROVE  EffectInv'
<1>1. PICK w \in decided : Arrive(AgentEvent("action_intent", w)) /\ decided' = decided
  BY DEF Submit
<1> DEFINE e == AgentEvent("action_intent", w)
<1>2. ActionShape(w) /\ w.plan = PlanOf(<<w.task, w.rev>>, w.epoch)
      /\ \A x \in decided' : x.plan = PlanOf(<<x.task, x.rev>>, x.epoch)
  BY <1>1 DEF Inv, BaseInv, EffectInv, PlansNamed
<1>3. Named(e) /\ e.type = "action_intent"
  BY <1>2, AgentNamed
<1>4. Known(e)
  BY <1>3 DEF Known, Named
<1>5. PlanNamed(e)
  BY <1>2 DEF PlanNamed, AgentEvent
<1>6. Bd!Outcome(e) = "APPENDED" /\ Bd!Commit(e)
      /\ UNCHANGED <<durable, memory, pc, job>>
  BY <1>1 DEF Arrive
<1> HIDE DEF e
<1>7. QED
  BY <1>2, <1>3, <1>4, <1>5, <1>6, EffectOthers

\* An announced action is one of the current plan, or of a replaced one.
LEMMA IntentInPlan ==
    ASSUME EffectInv, NEW n \in DOMAIN log, log[n].type = "action_intent", NEW e,
           e.task = log[n].task, e.rev = log[n].rev, e.epoch = log[n].epoch,
           e.asg = log[n].asg
    PROVE  \/ view[<<e.task, e.rev>>].terminal # None
           \/ InPlan(view[<<e.task, e.rev>>], e)
<1>1. Lasting(view[<<log[n].task, log[n].rev>>], log[n])
  BY DEF EffectInv, LogTold
<1>2. QED
  BY <1>1 DEF Lasting, InPlan, RobotTypes

LEMMA ReportEffect ==
    ASSUME NamesAvailable, Inv, EffectInv, Report
    PROVE  EffectInv'
<1>1. PICK n \in DOMAIN log : log[n].type = "action_intent" /\ \E good \in BOOLEAN :
          Arrive(Receipt(log[n], good)) /\ decided' = decided
  BY DEF Report
<1>2. PICK good \in BOOLEAN : Arrive(Receipt(log[n], good)) /\ decided' = decided
  BY <1>1
<1> DEFINE e == Receipt(log[n], good)
<1>3. ActionShape(log[n])
  BY <1>1, IntentShape
<1>4. Named(e) /\ e.type = "receipt"
  BY <1>3, ReceiptNamed
<1>5. Known(e)
  BY <1>4 DEF Known, Named
<1>6. /\ e.task = log[n].task /\ e.rev = log[n].rev /\ e.epoch = log[n].epoch
      /\ e.asg = log[n].asg /\ e.plan = log[n].plan
  BY DEF Receipt
<1>7. PlanNamed(log[n])
  BY <1>1 DEF EffectInv, LogTold
<1>8. Bd!Outcome(e) = "APPENDED" /\ Bd!Commit(e)
      /\ UNCHANGED <<durable, memory, pc, job>>
  BY <1>2 DEF Arrive
<1> HIDE DEF e
<1>9. PlanNamed(e)
  BY <1>1, <1>6, <1>7 DEF PlanNamed, RobotTypes
<1>10. \/ view[<<e.task, e.rev>>].terminal # None
       \/ InPlan(view[<<e.task, e.rev>>], e)
  BY <1>1, <1>6, IntentInPlan
<1>11. \A w \in decided' : w.plan = PlanOf(<<w.task, w.rev>>, w.epoch)
  BY <1>2 DEF EffectInv, PlansNamed
<1>12. QED
  BY <1>4, <1>5, <1>8, <1>9, <1>10, <1>11, EffectOthers

LEMMA InterceptEffect ==
    ASSUME NamesAvailable, Inv, EffectInv, Intercept
    PROVE  EffectInv'
<1>1. PICK n \in DOMAIN log : log[n].type = "action_intent"
          /\ Arrive(AgentEvent("safety_intercept", log[n])) /\ decided' = decided
  BY DEF Intercept
<1> DEFINE e == AgentEvent("safety_intercept", log[n])
<1>3. ActionShape(log[n])
  BY <1>1, IntentShape
<1>4. Named(e) /\ e.type = "safety_intercept"
  BY <1>3, AgentNamed
<1>5. Known(e)
  BY <1>4 DEF Known, Named
<1>6. /\ e.task = log[n].task /\ e.rev = log[n].rev /\ e.epoch = log[n].epoch
      /\ e.asg = log[n].asg /\ e.plan = log[n].plan
  BY DEF AgentEvent
<1>7. PlanNamed(log[n])
  BY <1>1 DEF EffectInv, LogTold
<1>8. Bd!Outcome(e) = "APPENDED" /\ Bd!Commit(e)
      /\ UNCHANGED <<durable, memory, pc, job>>
  BY <1>1 DEF Arrive
<1> HIDE DEF e
<1>9. PlanNamed(e)
  BY <1>1, <1>6, <1>7 DEF PlanNamed, RobotTypes
<1>10. \/ view[<<e.task, e.rev>>].terminal # None
       \/ InPlan(view[<<e.task, e.rev>>], e)
  BY <1>1, <1>6, IntentInPlan
<1>11. \A w \in decided' : w.plan = PlanOf(<<w.task, w.rev>>, w.epoch)
  BY <1>1 DEF EffectInv, PlansNamed
<1>12. QED
  BY <1>4, <1>5, <1>8, <1>9, <1>10, <1>11, EffectOthers

LEMMA InHandSame ==
    ASSUME InHand, UNCHANGED board, offset' = offset, job'.from = job.from, job'.src = job.src,
           job'.outs = job.outs, pc' = "followup" => pc = "followup"
    PROVE  InHand'
<1>1. SUFFICES ASSUME job.from = "input" PROVE InHand'
  BY DEF InHand
<1>2. \A n \in {job.src}, F \in {Range(job.outs)} : TookBy(n, F)'
  BY <1>1, TookSame DEF InHand
<1>3. log' = log
  BY DEF board
<1>4. QED
  BY <1>1, <1>2, <1>3 DEF InHand

LEMMA DecideEffect ==
    ASSUME Inv, EffectInv, Decide
    PROVE  EffectInv'
<1> DEFINE W(n, a) == [task |-> log[n].task, rev |-> log[n].rev, epoch |-> log[n].epoch,
                       plan |-> log[n].plan, asg |-> a]
<1>0. PICK n \in DOMAIN log : log[n].type = "task_assigned" /\ \E a \in log[n].asgs :
         /\ decided' = decided \cup {W(n, a)}
         /\ UNCHANGED <<board, durable, memory, pc, job, crashes>>
  BY DEF Decide
<1>1. PICK a \in log[n].asgs :
         /\ decided' = decided \cup {W(n, a)}
         /\ UNCHANGED <<board, durable, memory, pc, job, crashes>>
  BY <1>0
<1>2. PlanNamed(log[n])
  BY DEF EffectInv, LogTold
<1>3. \A w \in decided' : w.plan = PlanOf(<<w.task, w.rev>>, w.epoch)
  <2>1. log[n].plan = PlanOf(<<log[n].task, log[n].rev>>, log[n].epoch)
    BY <1>0, <1>2 DEF PlanNamed
  <2>2. \A w \in decided : w.plan = PlanOf(<<w.task, w.rev>>, w.epoch)
    BY DEF EffectInv, PlansNamed
  <2>3. PICK w0 : w0 = W(n, a)
    OBVIOUS
  <2>4. w0.plan = PlanOf(<<w0.task, w0.rev>>, w0.epoch)
    BY <2>1, <2>3
  <2>5. decided' = decided \cup {w0}
    BY <1>1, <2>3
  <2>6. QED
    BY <2>2, <2>4, <2>5
<1>4. /\ UNCHANGED board /\ log' = log /\ view' = view /\ offset' = offset /\ outbox' = outbox
      /\ known' = known /\ pc' = pc /\ job' = job
  BY <1>1 DEF board, durable, memory
<1>5. LogTold'
  BY <1>4, ToldSame DEF EffectInv
<1>6. PlansNamed'
  BY <1>3, <1>4 DEF EffectInv, PlansNamed
<1>7. Handled'
  BY <1>4, TookSame DEF EffectInv, Handled
<1>8. InHand'
  BY <1>4, InHandSame DEF EffectInv
<1>9. PostedKnown'
  BY <1>4 DEF EffectInv, PostedKnown
<1>10. QED
  BY <1>5, <1>6, <1>7, <1>8, <1>9 DEF EffectInv

-----------------------------------------------------------------------------
(* The steps of the Coordinator that publish nothing.                      *)

LEMMA RecoverEffect ==
    ASSUME Inv, EffectInv, Recover
    PROVE  EffectInv'
<1>1. /\ UNCHANGED board /\ log' = log /\ view' = view /\ offset' = offset /\ outbox' = outbox
      /\ known' = RecoveredKnown /\ pc = "down" /\ pc' = "replay" /\ job' = job
      /\ decided' = decided
  BY DEF Recover, Goto, board, durable, others
<1>2. LogTold' /\ PlansNamed'
  BY <1>1, ToldSame DEF EffectInv, PlansNamed
<1>3. Handled'
  BY <1>1, TookSame DEF EffectInv, Handled
<1>4. InHand'
  BY <1>1, InHandSame DEF EffectInv
<1>5. PostedKnown'
  <2>1. SUFFICES ASSUME NEW m \in DOMAIN log, log[m].type = "task_posted"
                 PROVE  \/ <<log[m].task, log[m].rev>> \in RecoveredKnown
                        \/ view[<<log[m].task, log[m].rev>>].terminal # None
    BY <1>1 DEF PostedKnown
  <2>2. LogInv /\ Len(log) \in Nat /\ DOMAIN log = 1 .. Len(log)
    BY LogLength DEF Inv
  <2>3. log[m] \in Event
    BY <2>2 DEF LogInv, LogShape
  <2>4. PICK tr \in TaskRevs : tr = <<log[m].task, log[m].rev>>
    BY <2>1, <2>3, OwnTask
  <2> DEFINE S == {n \in DOMAIN log : log[n].type \in RecoveryTypes
                                       /\ <<log[n].task, log[n].rev>> = tr}
  <2>5. m \in S
    BY <2>1, <2>4 DEF RecoveryTypes
  <2>6. Max(S) \in S
    <3>1. S \subseteq 1 .. Len(log) /\ S \subseteq Nat /\ S # {}
      BY <2>2, <2>5
    <3>2. IsFiniteSet(1 .. Len(log))
      BY <2>2, FS_Interval
    <3> HIDE DEF S
    <3>3. IsFiniteSet(S)
      BY <3>1, <3>2, FS_Subset
    <3>4. QED
      BY <3>1, <3>3, MaxOf
  <2>7. PICK n \in DOMAIN log : n = Max(S) /\ <<log[n].task, log[n].rev>> = tr
    BY <2>6
  <2>8. CASE log[n].type \in TerminalTypes
    <3>1. Lasting(view[tr], log[n])
      BY <2>7, <2>8 DEF EffectInv, LogTold, TerminalTypes
    <3>2. view[tr].terminal # None
      BY <2>8, <3>1 DEF Lasting
    <3>3. QED
      BY <2>4, <3>2
  <2>9. CASE log[n].type \notin TerminalTypes
    <3>1. tr \in RecoveredKnown
      BY <2>5, <2>7, <2>9 DEF RecoveredKnown
    <3>2. QED
      BY <2>4, <3>1
  <2>10. QED
    BY <2>8, <2>9
<1>6. QED
  BY <1>2, <1>3, <1>4, <1>5 DEF EffectInv

LEMMA ReplayEffect ==
    ASSUME Inv, EffectInv, Replay
    PROVE  EffectInv'
<1>1. /\ UNCHANGED board /\ offset' = offset /\ outbox' = outbox /\ known' = known
      /\ pc = "replay" /\ decided' = decided
  BY DEF Replay, durable, memory, others
<1>2. CASE job' = NoJob
  BY <1>1, <1>2, EffectIdle
<1>3. CASE \E k \in Keys : outbox[k] # None /\ job' = [NoJob EXCEPT !.from = "replay", !.outs = <<outbox[k].event>>]
  <2>1. PICK k \in Keys : /\ outbox[k] # None
                          /\ job' = [NoJob EXCEPT !.from = "replay", !.outs = <<outbox[k].event>>]
    BY <1>3
  <2>2. job'.from = "replay" /\ job'.src = 0 /\ job'.outs = <<outbox[k].event>>
    BY <2>1 DEF NoJob
  <2>3. InHand'
    BY <2>2 DEF InHand
  <2>4. \A f \in Range(job'.outs) : PlanNamed(f)
    BY <2>1, <2>2, RangeOfFew DEF EffectInv, PlansNamed
  <2>5. QED
    BY <1>1, <2>2, <2>3, <2>4, EffectSame
<1>4. QED
  BY <1>2, <1>3 DEF Replay, Replayable, Idle

LEMMA PollEffect ==
    ASSUME Inv, EffectInv, Poll
    PROVE  EffectInv'
<1>1. /\ UNCHANGED board /\ offset' = offset /\ outbox' = outbox /\ known' = known
      /\ pc \in {"poll", "take"} /\ decided' = decided /\ job' = job
  BY DEF Poll, Ticking, durable, others
<1>2. job = NoJob
  BY <1>1 DEF Inv, JobInv, JobShape
<1>3. QED
  BY <1>1, <1>2, EffectIdle

LEMMA CloseRoundEffect ==
    ASSUME Inv, EffectInv, NEW t \in Tasks, CloseRound(t)
    PROVE  EffectInv'
<1>1. /\ UNCHANGED board /\ offset' = offset /\ outbox' = outbox /\ known' = known
      /\ pc = "take" /\ decided' = decided
      /\ job' \in {job, [NoJob EXCEPT !.from = "tick", !.task = t]}
  BY DEF CloseRound, Ticking, durable, others
<1>2. job = NoJob
  BY <1>1 DEF Inv, JobInv, JobShape
<1>3. job'.src = 0 /\ job'.from # "input" /\ job'.outs = << >>
  <2>1. CASE job' = NoJob
    BY <2>1 DEF NoJob
  <2>2. CASE job' = [NoJob EXCEPT !.from = "tick", !.task = t]
    BY <2>2 DEF NoJob
  <2>3. QED
    BY <1>1, <1>2, <2>1, <2>2
<1>4. InHand' /\ \A f \in Range(job'.outs) : PlanNamed(f)
  BY <1>3, RangeOfFew DEF InHand
<1>5. QED
  BY <1>1, <1>3, <1>4, EffectSame

LEMMA ChoosePlanEffect ==
    ASSUME Inv, EffectInv, ChoosePlan
    PROVE  EffectInv'
<1> DEFINE tr == RoundOf(job.task)
           ep == rounds[job.task].epoch
<1>1. /\ UNCHANGED board /\ offset' = offset /\ outbox' = outbox /\ known' = known
      /\ pc = "plan" /\ decided' = decided
  BY DEF ChoosePlan, durable, memory, others
<1>2. PICK out : /\ job' = [job EXCEPT !.outs = <<out>>]
                 /\ (\E refs : out = Assigned(tr, ep, refs)) \/ out = Failed(tr, ep, 0)
  BY DEF ChoosePlan
<1>3. job \in JobType /\ job.from = "tick"
  BY <1>1 DEF Inv, JobInv, JobShape
<1>4. job'.from = "tick" /\ job'.src = job.src /\ job'.outs = <<out>>
  BY <1>2, <1>3 DEF JobType
<1>5. PlanNamed(out)
  <2> HIDE DEF tr, ep
  <2>0. PICK x : x = tr
    OBVIOUS
  <2>4. x = <<x[1], x[2]>>
    BY <2>0 DEF tr, RoundOf
  <2>1. CASE out = Failed(tr, ep, 0)
    BY <2>1 DEF Failed, PlanNamed, RobotTypes
  <2>2. ASSUME NEW refs, out = Assigned(tr, ep, refs) PROVE PlanNamed(out)
    BY <2>0, <2>2, <2>4 DEF Assigned, PlanNamed
  <2>3. QED
    BY <1>2, <2>1, <2>2
<1>6. InHand' /\ \A f \in Range(job'.outs) : PlanNamed(f)
  BY <1>4, <1>5, RangeOfFew DEF InHand
<1>7. QED
  BY <1>1, <1>4, <1>6, EffectSame

LEMMA AgentExitEffect ==
    ASSUME Inv, EffectInv, NEW tr \in TaskRevs, AgentExit(tr)
    PROVE  EffectInv'
<1> DEFINE f == Failed(tr, view[tr].epoch, 0)
<1>1. /\ UNCHANGED board /\ offset' = offset /\ outbox' = outbox /\ known' = known
      /\ pc = "take" /\ decided' = decided
      /\ job' = [NoJob EXCEPT !.from = "exit", !.outs = <<f>>]
  BY DEF AgentExit, Ticking, durable, memory, others
<1>2. job'.src = 0 /\ job'.from = "exit" /\ job'.outs = <<f>>
  BY <1>1 DEF NoJob
<1>3. PlanNamed(f)
  BY DEF Failed, PlanNamed, RobotTypes
<1> HIDE DEF f
<1>4. InHand' /\ \A g \in Range(job'.outs) : PlanNamed(g)
  BY <1>2, <1>3, RangeOfFew DEF InHand
<1>5. QED
  BY <1>1, <1>2, <1>4, EffectSame

LEMMA FollowUpEffect ==
    ASSUME Inv, EffectInv, FollowUp
    PROVE  EffectInv'
<1>a. PICK tr : tr = <<log[job.src].task, log[job.src].rev>>
  OBVIOUS
<1>b. PICK outs : outs = IF ReplanPending(view[tr]) THEN ReplanOutputs(tr)
                         ELSE IF view[tr].plan.asgs \subseteq view[tr].completed
                         THEN <<Done(tr, job.src)>> ELSE << >>
  OBVIOUS
<1>1. /\ job' = [job EXCEPT !.outs = outs, !.more = FALSE]
      /\ pc' = (IF outs = << >> THEN "save" ELSE "stage")
      /\ UNCHANGED board /\ offset' = offset /\ outbox' = outbox /\ known' = known
      /\ pc = "followup" /\ decided' = decided
  BY <1>a, <1>b DEF FollowUp, Goto, durable, memory, others
<1>2. job \in JobType /\ job.from = "input"
  BY <1>1 DEF Inv, JobInv, JobShape
<1>3. job'.from = "input" /\ job'.src = job.src /\ job'.outs = outs
  <2>1. DOMAIN job = {"from", "src", "outs", "done", "task", "more"}
    BY <1>2 DEF JobType
  <2>2. QED
    BY <1>1, <1>2, <2>1
<1>4. \A f \in Range(outs) : PlanNamed(f)
  <2>1. /\ PlanNamed(Done(tr, job.src)) /\ PlanNamed(Replan(tr))
        /\ PlanNamed(RoundOpened(tr, view[tr].epoch + 1))
    BY DEF PlanNamed, Done, Replan, RoundOpened, RobotTypes
  <2>2. outs \in {<< >>, <<Done(tr, job.src)>>,
                  <<Replan(tr), RoundOpened(tr, view[tr].epoch + 1)>>}
    BY <1>b DEF ReplanOutputs
  <2>3. CASE outs = << >>
    BY <2>3, RangeOfFew
  <2>4. CASE outs = <<Done(tr, job.src)>>
    BY <2>1, <2>4, RangeOfFew
  <2>5. CASE outs = <<Replan(tr), RoundOpened(tr, view[tr].epoch + 1)>>
    BY <2>1, <2>5, RangeOfFew
  <2>6. QED
    BY <2>2, <2>3, <2>4, <2>5
<1>5. InHand'
  <2>1. \A n \in {job.src} : TookBy(n, {})
    BY <1>1, <1>2, RangeOfFew DEF EffectInv, InHand
  <2>2. ASSUME NEW n \in {job.src}, NEW F \in {Range(outs)} PROVE TookBy(n, F)'
    BY <1>1, <2>1, TookMore, TookSame
  <2>3. log' = log /\ pc' # "followup"
    BY <1>1 DEF board
  <2>4. \A m \in offset + 1 .. job.src - 1 : log[m].type \notin CoordinatorTypes
    BY <1>2 DEF EffectInv, InHand
  <2>5. QED
    BY <1>1, <1>3, <2>2, <2>3, <2>4 DEF InHand
<1>6. QED
  BY <1>1, <1>3, <1>4, <1>5, EffectSame

\* Steps that change the outbox alone, or that and the job.
LEMMA EffectFiles ==
    ASSUME Inv, EffectInv, UNCHANGED board, offset' = offset, known' = known,
           pc # "down", decided' = decided, pc' # "followup",
           \A k \in Keys : outbox'[k] # None => PlanNamed(outbox'[k].event),
           \/ job' = NoJob
           \/ job'.from = job.from /\ job'.src = job.src /\ job'.outs = job.outs
    PROVE  EffectInv'
<1>1. log' = log /\ view' = view
  BY DEF board
<1>2. LogTold' /\ Handled'
  BY ToldSame, TookSame DEF EffectInv, Handled
<1>3. CASE job' = NoJob
  <2>1. job'.src = 0 /\ job'.from = "none" /\ job'.outs = << >>
    BY <1>3 DEF NoJob
  <2>2. InHand' /\ (\A f \in Range(job'.outs) : PlanNamed(f))
    BY <2>1, RangeOfFew DEF InHand
  <2>3. PlansNamed'
    BY <2>2 DEF EffectInv, PlansNamed
  <2>4. PostedKnown'
    <3>1. \A m \in DOMAIN log : ~(m <= 0)
      BY LogLength DEF Inv
    <3>2. QED
      BY <1>1, <2>1, <3>1 DEF EffectInv, PostedKnown
  <2>5. QED
    BY <1>2, <2>2, <2>3, <2>4 DEF EffectInv
<1>4. CASE job'.from = job.from /\ job'.src = job.src /\ job'.outs = job.outs
  <2>1. InHand'
    BY <1>4, InHandSame DEF EffectInv
  <2>2. PlansNamed' /\ PostedKnown'
    BY <1>1, <1>4 DEF EffectInv, PlansNamed, PostedKnown
  <2>3. QED
    BY <1>2, <2>1, <2>2 DEF EffectInv
<1>5. QED
  BY <1>3, <1>4

LEMMA StageEffect ==
    ASSUME Inv, EffectInv, Stage
    PROVE  EffectInv'
<1>1. /\ UNCHANGED board /\ offset' = offset /\ known' = known
      /\ pc = "stage" /\ decided' = decided
  BY DEF Stage, memory, others
<1>2. CASE Current.key \in refused
  BY <1>1, <1>2, EffectIdle DEF Stage, Idle
<1>3. CASE Current.key \notin refused
  <2>1. PICK c, src : c = Current /\ src = job.src
    OBVIOUS
  <2>2. /\ outbox' = [outbox EXCEPT ![c.key] = Filed([event |-> c, src |-> src])]
        /\ job' = job /\ pc' = "append"
    BY <1>3, <2>1 DEF Stage, Goto
  <2>3. PlanNamed(c)
    <3>1. c = job.outs[1] /\ 1 \in DOMAIN job.outs
      BY <1>1, <2>1, CurrentOK DEF Inv
    <3>2. c \in Range(job.outs)
      BY <3>1 DEF Range
    <3>3. QED
      BY <3>2 DEF EffectInv, PlansNamed
  <2>4. outbox = [k \in Keys |-> outbox[k]]
    BY DEF Inv, FileInv, FilesShape
  <2>5. \A k \in Keys : outbox'[k] # None => PlanNamed(outbox'[k].event)
    <3>1. SUFFICES ASSUME NEW k \in Keys, outbox'[k] # None PROVE PlanNamed(outbox'[k].event)
      OBVIOUS
    <3>2. CASE k # c.key \/ outbox[k] # None
      <4>1. outbox'[k] = outbox[k]
        BY <2>2, <2>4, <3>2 DEF Filed
      <4>2. QED
        BY <3>1, <4>1 DEF EffectInv, PlansNamed
    <3>3. CASE k = c.key /\ outbox[k] = None
      <4>1. outbox'[k] = [event |-> c, src |-> src]
        BY <2>2, <2>4, <3>3 DEF Filed
      <4>2. QED
        BY <2>3, <4>1
    <3>4. QED
      BY <3>2, <3>3
  <2>6. QED
    BY <1>1, <2>2, <2>5, EffectFiles
<1>4. QED
  BY <1>2, <1>3

LEMMA FileGone ==
    ASSUME Inv, EffectInv, NEW k, outbox' = [outbox EXCEPT ![k] = None]
    PROVE  \A x \in Keys : outbox'[x] # None => PlanNamed(outbox'[x].event)
<1>1. outbox = [x \in Keys |-> outbox[x]]
  BY DEF Inv, FileInv, FilesShape
<1>2. \A x \in Keys : outbox'[x] = None \/ outbox'[x] = outbox[x]
  BY <1>1
<1>3. QED
  BY <1>2 DEF EffectInv, PlansNamed

LEMMA UnlinkEffect ==
    ASSUME Inv, EffectInv, Unlink
    PROVE  EffectInv'
<1>1. PICK k : outbox' = [outbox EXCEPT ![k] = None]
  BY DEF Unlink
<1>2. /\ UNCHANGED board /\ offset' = offset /\ known' = known
      /\ pc = "unlink" /\ decided' = decided /\ job' = NoJob /\ pc' = "poll"
  BY DEF Unlink, Idle, Goto, memory, others
<1>3. \A x \in Keys : outbox'[x] # None => PlanNamed(outbox'[x].event)
  BY <1>1, FileGone
<1>4. QED
  BY <1>2, <1>3, EffectFiles

LEMMA ResolveEffect ==
    ASSUME Inv, EffectInv, Resolve
    PROVE  EffectInv'
<1>1. PICK k \in job.done :
        /\ outbox' = [outbox EXCEPT ![k] = None]
        /\ IF job.done = {k} THEN Return
           ELSE job' = [job EXCEPT !.done = @ \ {k}] /\ UNCHANGED <<rounds, pc>>
  BY DEF Resolve
<1>2. /\ UNCHANGED board /\ offset' = offset /\ known' = known
      /\ pc = "resolve" /\ decided' = decided
  BY DEF Resolve, others
<1>3. \A x \in Keys : outbox'[x] # None => PlanNamed(outbox'[x].event)
  BY <1>1, FileGone
<1>4. CASE Return
  <2>1. job' = NoJob /\ pc' # "followup"
    BY <1>4 DEF Return, Idle, Goto
  <2>2. QED
    BY <1>2, <1>3, <2>1, EffectFiles
<1>5. CASE job' = [job EXCEPT !.done = @ \ {k}] /\ pc' = pc
  <2>1. job \in JobType
    BY DEF Inv, JobInv, JobShape
  <2>2. job'.from = job.from /\ job'.src = job.src /\ job'.outs = job.outs
    BY <1>5, <2>1 DEF JobType
  <2>3. QED
    BY <1>2, <1>3, <1>5, <2>2, EffectFiles
<1>6. QED
  BY <1>1, <1>4, <1>5

LEMMA CrashEffect ==
    ASSUME Inv, EffectInv, Crash
    PROVE  EffectInv'
<1>1. /\ UNCHANGED board /\ offset' = offset /\ outbox' = outbox /\ pc' = "down"
      /\ decided' = decided /\ job' = NoJob
  BY DEF Crash, Idle, Goto, durable
<1>2. job'.src = 0 /\ job'.from = "none" /\ job'.outs = << >>
  BY <1>1 DEF NoJob
<1>3. InHand' /\ PostedKnown' /\ (\A f \in Range(job'.outs) : PlanNamed(f))
  BY <1>1, <1>2, RangeOfFew DEF InHand, PostedKnown
<1>4. LogTold' /\ Handled' /\ PlansNamed'
  BY <1>1, <1>3, ToldSame, TookSame DEF EffectInv, Handled, PlansNamed
<1>5. QED
  BY <1>3, <1>4 DEF EffectInv

\* The input is consumed: it had its effect, and what lay before it asked for none.
LEMMA SaveOffsetEffect ==
    ASSUME Inv, EffectInv, SaveOffset
    PROVE  EffectInv'
<1>1. /\ UNCHANGED board /\ offset' = job.src /\ outbox' = outbox /\ known' = known
      /\ pc = "save" /\ decided' = decided /\ pc' # "followup"
      /\ job' = NoJob \/ job' = job
  BY DEF SaveOffset, Return, Idle, Goto, others
<1>2. log' = log /\ view' = view
  BY <1>1 DEF board
<1>3. /\ job.from = "input" /\ job.outs = << >> /\ job.src >= offset
      /\ job.src \in 0 .. Len(log) /\ offset \in 0 .. Len(log)
      /\ Len(log) \in Nat /\ DOMAIN log = 1 .. Len(log)
  BY <1>1, LogLength DEF Inv, JobInv, JobShape, BaseInv
<1>4. PICK src \in Nat : src = job.src
  BY <1>3
<1>5. \A n \in {src} : TookBy(n, {})
  BY <1>3, <1>4, RangeOfFew DEF EffectInv, InHand
<1>6. ASSUME NEW n \in 1 .. src PROVE TookBy(n, {})
  <2>1. CASE n \in 1 .. offset
    BY <2>1 DEF EffectInv, Handled
  <2>2. CASE n = src
    BY <1>5, <2>2
  <2>3. CASE n \in offset + 1 .. src - 1
    <3>1. log[n].type \notin CoordinatorTypes
      BY <1>3, <1>4, <2>3 DEF EffectInv, InHand
    <3>2. QED
      BY <3>1 DEF TookBy, CoordinatorTypes, GatedTypes
  <2>4. QED
    BY <1>3, <1>4, <2>1, <2>2, <2>3
<1>7. Handled'
  BY <1>1, <1>4, <1>6, TookSame DEF Handled
<1>8. LogTold'
  BY <1>1, ToldSame DEF EffectInv
<1>9. job'.src \in {0, src} /\ job'.outs = << >> /\ job'.from \in {"none", "input"}
  BY <1>1, <1>3, <1>4 DEF NoJob
<1>10. PlansNamed'
  BY <1>1, <1>9, RangeOfFew DEF EffectInv, PlansNamed
<1>11. InHand'
  <2>1. SUFFICES ASSUME job'.from = "input" PROVE InHand'
    BY DEF InHand
  <2>0. NoJob.from = "none"
    BY DEF NoJob
  <2>2. job' = job
    BY <1>1, <2>0, <2>1
  <2>3. offset' + 1 .. job'.src - 1 = {}
    <3>1. offset' = src /\ job'.src = src
      BY <1>1, <1>4, <2>2
    <3>2. src + 1 .. src - 1 = {}
      BY <1>4
    <3>3. QED
      BY <3>1, <3>2
  <2>4. \A n \in {job'.src}, F \in {Range(job'.outs)} : TookBy(n, F)'
    <3>1. job'.src = src /\ Range(job'.outs) = {}
      BY <1>4, <1>9, <2>2, RangeOfFew
    <3>2. TookBy(src, {})'
      BY <1>1, <1>5, TookSame
    <3>3. \A n \in {src}, F \in {{}} : TookBy(n, F)'
      BY <3>2
    <3>4. QED
      BY <3>1, <3>3
  <2>5. QED
    BY <1>1, <2>3, <2>4 DEF InHand
<1>12. PostedKnown'
  <2>1. SUFFICES ASSUME NEW m \in DOMAIN log, log[m].type = "task_posted",
                        m <= offset' \/ m <= job'.src
                 PROVE  \/ <<log[m].task, log[m].rev>> \in known
                        \/ view[<<log[m].task, log[m].rev>>].terminal # None
    BY <1>1, <1>2 DEF PostedKnown
  <2>2. m <= job.src
    BY <1>1, <1>3, <1>4, <1>9, <2>1
  <2>3. QED
    BY <1>1, <2>1, <2>2 DEF EffectInv, PostedKnown
<1>13. QED
  BY <1>7, <1>8, <1>10, <1>11, <1>12 DEF EffectInv

-----------------------------------------------------------------------------
(* Handling an input.                                                      *)

LEMMA StopsFinite ==
    ASSUME Inv, NEW e \in Event, NEW n
    PROVE  IsFiniteSet({Failed(x, view[x].epoch, n) : x \in EstopTargets(e)})
<1> DEFINE X == EstopTargets(e)
           f == [x \in X |-> Failed(x, view[x].epoch, n)]
           S == {f[x] : x \in X}
<1>1. IsFiniteSet(X)
  <2>1. IsFiniteSet(known) /\ IsFiniteSet({<<e.task, e.rev>>})
    BY FS_Singleton DEF Inv, BaseInv
  <2>2. X \subseteq known \/ X \subseteq {<<e.task, e.rev>>}
    BY DEF EstopTargets
  <2> HIDE DEF X
  <2>3. QED
    BY <2>1, <2>2, FS_Subset
<1>2. f = [x \in X |-> f[x]] /\ S = {Failed(x, view[x].epoch, n) : x \in EstopTargets(e)}
  OBVIOUS
<1> HIDE DEF f, X
<1>3. QED
  BY <1>1, <1>2, FiniteImage

\* The terminal that a failure makes.
LEMMA FailedEnds ==
    ASSUME NEW x \in TaskRevs, NEW ep, NEW n
    PROVE  /\ Failed(x, ep, n).type \in TerminalTypes
           /\ <<Failed(x, ep, n).task, Failed(x, ep, n).rev>> = x
           /\ PlanNamed(Failed(x, ep, n))
<1>1. x = <<x[1], x[2]>>
  BY DEF TaskRevs
<1>2. QED
  BY <1>1 DEF Failed, TerminalTypes, PlanNamed, RobotTypes

\* What the handler publishes is what the input asks for.
LEMMA HandlerTakes ==
    ASSUME Inv, EffectInv, NEW n \in DOMAIN log, pc # "down",
           \A m \in offset + 1 .. n - 1 : log[m].type \notin CoordinatorTypes
    PROVE  /\ TookBy(n, Range(Outputs(log[n], n)))
           /\ \A f \in Range(Outputs(log[n], n)) : PlanNamed(f)
<1>0. PICK e : e = log[n]
  OBVIOUS
<1>1. /\ LogInv /\ e \in Event /\ LogTold /\ PlanNamed(e)
      /\ Len(log) \in Nat /\ DOMAIN log = 1 .. Len(log) /\ offset \in 0 .. Len(log)
  BY <1>0, LogLength DEF Inv, LogInv, LogShape, EffectInv, LogTold, BaseInv
<1>2. PICK tr : tr = <<e.task, e.rev>>
  OBVIOUS
<1>3. e.type \notin {"clue", "estop"} => tr \in TaskRevs /\ Lasting(view[tr], e)
  BY <1>0, <1>1, <1>2, OwnTask DEF LogTold
<1>4. PICK outs : outs = Outputs(e, n)
  OBVIOUS
<1>5. SUFFICES TookBy(n, Range(outs)) /\ \A f \in Range(outs) : PlanNamed(f)
  BY <1>0, <1>4
<1>6. CASE e.type = "task_posted"
  <2>1. outs = PostedOutputs(tr, n) /\ tr \in TaskRevs
    BY <1>2, <1>3, <1>4, <1>6 DEF Outputs
  <2>2. PICK g : g = RoundOpened(tr, view[tr].epoch + 1)
    OBVIOUS
  <2>3. g.type = "bid_round_opened" /\ <<g.task, g.rev>> = tr /\ PlanNamed(g)
    <3>1. tr = <<tr[1], tr[2]>>
      BY <2>1 DEF TaskRevs
    <3>2. QED
      BY <2>2, <3>1 DEF RoundOpened, PlanNamed, RobotTypes
  <2>4. CASE tr \in Slotless
    <3>1. outs = <<Failed(tr, 0, n)>>
      BY <2>1, <2>4 DEF PostedOutputs
    <3>2. Range(outs) = {Failed(tr, 0, n)}
      BY <3>1, RangeOfFew
    <3>3. EndsBy(tr, Range(outs)) /\ PlanNamed(Failed(tr, 0, n))
      BY <2>1, <3>2, FailedEnds DEF EndsBy
    <3>4. QED
      BY <1>0, <1>2, <1>6, <3>2, <3>3 DEF TookBy
  <2>5. CASE tr \notin Slotless /\ view[tr].terminal # None
    <3>1. Range(outs) = {}
      BY <2>1, <2>5, RangeOfFew DEF PostedOutputs
    <3>2. EndsBy(tr, Range(outs))
      BY <2>5 DEF EndsBy
    <3>3. QED
      BY <1>0, <1>2, <1>6, <3>1, <3>2 DEF TookBy
  <2>6. CASE tr \notin Slotless /\ view[tr].terminal = None
    <3>1. Range(outs) = {g}
      BY <2>1, <2>2, <2>6, RangeOfFew DEF PostedOutputs
    <3>2. OpensBy(tr, Range(outs))
      BY <2>3, <3>1 DEF OpensBy
    <3>3. QED
      BY <1>0, <1>2, <1>6, <2>3, <2>6, <3>1, <3>2 DEF TookBy
  <2>7. QED
    BY <2>4, <2>5, <2>6
<1>7. CASE e.type = "receipt"
  <2>1. outs = ReceiptOutputs(e, n) /\ tr \in TaskRevs /\ Lasting(view[tr], e)
    BY <1>3, <1>4, <1>7 DEF Outputs
  <2>2. PICK g : g = Completed(e)
    OBVIOUS
  <2>3. /\ g.type = "assignment_completed" /\ <<g.task, g.rev>> = tr
        /\ g.epoch = e.epoch /\ g.asg = e.asg /\ PlanNamed(g)
    BY <1>1, <1>2, <1>7, <2>2 DEF Completed, PlanNamed, RobotTypes
  <2>4. PICK h : h = Failed(tr, e.epoch, n)
    OBVIOUS
  <2>5. h.type \in TerminalTypes /\ <<h.task, h.rev>> = tr /\ PlanNamed(h)
    BY <2>1, <2>4, FailedEnds
  <2>6. outs = IF Relevant(e) /\ ~e.good THEN <<h>>
               ELSE IF AcceptedReceipt(e) THEN <<g>> ELSE << >>
    BY <1>2, <2>1, <2>2, <2>4 DEF ReceiptOutputs
  <2>7. \A f \in Range(outs) : PlanNamed(f)
    BY <2>3, <2>5, <2>6, RangeOfFew
  <2>8. e.epoch \in Nat /\ view[tr].epoch \in Nat /\ PlanOK(view[tr], tr)
    BY <1>1, <1>7, <2>1, EpochShape DEF RobotTypes, LogInv, ViewsOK, View, LogTold
  <2>9. CASE view[tr].terminal # None \/ view[tr].epoch > e.epoch
    <3>1. EndsBy(tr, Range(outs)) \/ view[tr].epoch > e.epoch
      BY <2>9 DEF EndsBy
    <3>2. QED
      BY <1>0, <1>2, <1>7, <2>7, <3>1 DEF TookBy
  <2>10. CASE view[tr].terminal = None /\ ~(view[tr].epoch > e.epoch)
    <3>1. view[tr].plan # None /\ view[tr].epoch = e.epoch /\ e.asg \in view[tr].plan.asgs
      BY <1>7, <2>1, <2>8, <2>10 DEF Lasting, InPlan, RobotTypes
    <3>2. Relevant(e) /\ (e.good => AcceptedReceipt(e))
      BY <1>2, <2>8, <3>1 DEF Relevant, AcceptedReceipt, PlanOK
    <3>3. CASE e.good
      <4>1. Range(outs) = {g}
        BY <2>6, <3>2, <3>3, RangeOfFew
      <4>2. CompletesBy(e, Range(outs))
        BY <1>2, <2>3, <4>1 DEF CompletesBy
      <4>3. QED
        BY <1>0, <1>7, <2>7, <3>3, <4>2 DEF TookBy
    <3>4. CASE ~e.good
      <4>1. Range(outs) = {h}
        BY <2>6, <3>2, <3>4, RangeOfFew
      <4>2. EndsBy(tr, Range(outs))
        BY <2>5, <4>1 DEF EndsBy
      <4>3. QED
        BY <1>0, <1>2, <1>7, <2>7, <4>2 DEF TookBy
    <3>5. QED
      BY <3>3, <3>4
  <2>11. QED
    BY <2>9, <2>10
<1>8. CASE e.type = "safety_intercept"
  <2>1. outs = <<Failed(tr, e.epoch, n)>> /\ tr \in TaskRevs
    BY <1>2, <1>3, <1>4, <1>8 DEF Outputs
  <2>2. Range(outs) = {Failed(tr, e.epoch, n)}
    BY <2>1, RangeOfFew
  <2>3. EndsBy(tr, Range(outs)) /\ PlanNamed(Failed(tr, e.epoch, n))
    BY <2>1, <2>2, FailedEnds DEF EndsBy
  <2>4. QED
    BY <1>0, <1>2, <1>8, <2>2, <2>3 DEF TookBy
<1>9. CASE e.type = "estop"
  <2> DEFINE S == {Failed(x, view[x].epoch, n) : x \in EstopTargets(e)}
  <2>1. outs = SetToSeq(S)
    BY <1>4, <1>9 DEF Outputs
  <2>2. IsFiniteSet(S)
    BY <1>1, StopsFinite
  <2>3. \A x \in EstopTargets(e) : Failed(x, view[x].epoch, n) \in S
    OBVIOUS
  <2>4. EstopTargets(e) \subseteq TaskRevs
    BY <1>1, EventShape DEF EstopTargets, TaskRevs, Inv, BaseInv
  <2>5. \A f \in S : PlanNamed(f)
    BY <2>4, FailedEnds
  <2> HIDE DEF S
  <2>6. Range(outs) = S
    BY <2>1, <2>2, RangeOfSet
  <2>7. ASSUME NEW x \in Stopped(n) PROVE EndsBy(x, S)
    <3>1. CASE view[x].terminal # None
      BY <3>1 DEF EndsBy
    <3>2. CASE view[x].terminal = None
      <4>1. PICK m \in DOMAIN log : /\ m <= n /\ log[m].type = "task_posted"
                                    /\ x = <<log[m].task, log[m].rev>>
        BY <1>1, StoppedPosted
      <4>2. m # n /\ "task_posted" \in CoordinatorTypes
        BY <1>0, <1>9, <4>1 DEF CoordinatorTypes, GatedTypes
      <4>3. m \notin offset + 1 .. n - 1
        BY <4>1, <4>2
      <4>4. m <= offset
        BY <1>1, <4>1, <4>2, <4>3
      <4>5. x \in known
        BY <3>2, <4>1, <4>4 DEF EffectInv, PostedKnown
      <4>6. e.rev # None => x = <<e.task, e.rev>>
        BY <1>0, <1>1, StoppedPosted
      <4>7. x \in EstopTargets(e)
        BY <3>2, <4>5, <4>6 DEF EstopTargets
      <4>8. QED
        BY <2>3, <2>4, <4>7, FailedEnds DEF EndsBy
    <3>3. QED
      BY <3>1, <3>2
  <2>8. QED
    BY <1>0, <1>9, <2>5, <2>6, <2>7 DEF TookBy
<1>10. CASE e.type \notin {"task_posted", "receipt", "safety_intercept", "estop"}
  <2>1. PICK x : x = <<e.task, ClueRev(e)>>
    OBVIOUS
  <2>2. outs \in {<< >>, <<Replan(x), RoundOpened(x, view[x].epoch + 1)>>}
    BY <1>4, <1>10, <2>1 DEF Outputs, ReplanOutputs
  <2>3. PlanNamed(Replan(x)) /\ PlanNamed(RoundOpened(x, view[x].epoch + 1))
    BY DEF PlanNamed, Replan, RoundOpened, RobotTypes
  <2>4. \A f \in Range(outs) : PlanNamed(f)
    BY <2>2, <2>3, RangeOfFew
  <2>5. TookBy(n, Range(outs))
    BY <1>0, <1>10 DEF TookBy
  <2>6. QED
    BY <2>4, <2>5
<1>11. QED
  BY <1>6, <1>7, <1>8, <1>9, <1>10

LEMMA TakeEffect ==
    ASSUME NamesAvailable, Inv, EffectInv, Take
    PROVE  EffectInv'
<1>1. LogInv /\ BaseInv
  BY DEF Inv
<1>2. PICK n : n = Min(Unread)
  OBVIOUS
<1>3. PICK e : e = log[n]
  OBVIOUS
<1>4. PICK outs : outs = Outputs(e, n)
  OBVIOUS
<1>5. /\ UNCHANGED board /\ offset' = offset /\ outbox' = outbox /\ decided' = decided
      /\ pc = "take" /\ Unread # {} /\ upto' = upto
      /\ known' = (IF e.type \in TerminalTypes
                   THEN known \ {<<e.task, e.rev>>} ELSE known \cup Mentioned(e))
      /\ job' = [NoJob EXCEPT !.from = "input", !.src = n, !.outs = outs,
                              !.more = e.type = "receipt" /\ AcceptedReceipt(e)]
      /\ pc' \in {"save", "stage"}
  BY <1>2, <1>3, <1>4 DEF Take, Goto, durable, others
<1>6. /\ log' = log /\ view' = view /\ Len(log) \in Nat /\ DOMAIN log = 1 .. Len(log)
      /\ offset \in 0 .. Len(log) /\ upto \in 0 .. Len(log)
  BY <1>1, <1>5, LogLength DEF board, BaseInv
<1>7. /\ n \in Unread /\ (\A m \in Unread : n <= m)
      /\ n \in DOMAIN log /\ n > offset /\ n \in Nat /\ n <= upto
  <2>1. Unread \subseteq 0 .. Len(log) /\ Unread \subseteq offset + 1 .. upto
    BY <1>6 DEF Unread, Batch
  <2>2. n \in Unread /\ \A m \in Unread : n <= m
    BY <1>2, <1>5, <1>6, <2>1, MinOf
  <2>3. QED
    BY <1>6, <2>1, <2>2
<1>8. e \in Event
  BY <1>1, <1>3, <1>7 DEF LogInv, LogShape
<1>9. ASSUME NEW m \in offset + 1 .. n - 1 PROVE log[m].type \notin CoordinatorTypes
  <2>1. m \in offset + 1 .. upto /\ ~(n <= m)
    BY <1>6, <1>7
  <2>2. m \notin Unread
    BY <1>7, <2>1
  <2>3. QED
    BY <2>1, <2>2 DEF Unread, Batch
<1>10. TookBy(n, Range(outs)) /\ \A f \in Range(outs) : PlanNamed(f)
  <2>1. pc # "down"
    BY <1>5
  <2>2. QED
    BY <1>3, <1>4, <1>7, <1>9, <2>1, HandlerTakes
<1>11. job'.from = "input" /\ job'.src = n /\ job'.outs = outs
  BY <1>5 DEF NoJob
<1>12. LogTold'
  BY <1>5, ToldSame DEF EffectInv
<1>13. PlansNamed'
  BY <1>5, <1>10, <1>11 DEF EffectInv, PlansNamed
<1>14. Handled'
  BY <1>5, TookSame DEF EffectInv, Handled
<1>15. InHand'
  <2>1. TookBy(n, Range(outs))'
    BY <1>5, <1>10, TookSame
  <2>2. \A m \in {n}, F \in {Range(outs)} : TookBy(m, F)'
    BY <2>1
  <2>3. \A m \in {job'.src}, F \in {Range(job'.outs)} : TookBy(m, F)'
    BY <1>11, <2>2
  <2>4. \A m \in offset' + 1 .. job'.src - 1 : log'[m].type \notin CoordinatorTypes
    BY <1>5, <1>6, <1>9, <1>11
  <2>5. QED
    BY <1>5, <2>3, <2>4 DEF InHand
<1>16. PostedKnown'
  <2>1. SUFFICES ASSUME NEW m \in DOMAIN log, log[m].type = "task_posted",
                        m <= offset \/ m <= n
                 PROVE  \/ <<log[m].task, log[m].rev>> \in known'
                        \/ view[<<log[m].task, log[m].rev>>].terminal # None
    BY <1>5, <1>6, <1>11 DEF PostedKnown
  <2>2. log[m] \in Event
    BY <1>1 DEF LogInv, LogShape
  <2>3. PICK tr \in TaskRevs : tr = <<log[m].task, log[m].rev>>
    BY <2>1, <2>2, OwnTask
  <2>4. CASE m = n
    <3>1. e.type = "task_posted" /\ tr = <<e.task, e.rev>> /\ e.rev # None
      BY <1>3, <1>8, <2>1, <2>3, <2>4, EventShape, NoneAssumption
    <3>2. tr \in known'
      BY <1>5, <3>1 DEF Mentioned, TerminalTypes
    <3>3. QED
      BY <2>3, <3>2
  <2>5. CASE m # n
    <3>1. m <= offset
      <4>1. m \notin offset + 1 .. n - 1
        BY <1>9, <2>1 DEF CoordinatorTypes, GatedTypes
      <4>2. QED
        BY <1>6, <1>7, <2>1, <2>5, <4>1
    <3>2. tr \in known \/ view[tr].terminal # None
      BY <1>5, <2>1, <2>3, <3>1 DEF EffectInv, PostedKnown
    <3>3. CASE e.type \in TerminalTypes /\ tr = <<e.task, e.rev>>
      <4>1. Lasting(view[tr], e)
        BY <1>3, <1>7, <3>3 DEF EffectInv, LogTold, TerminalTypes
      <4>2. view[tr].terminal # None
        BY <3>3, <4>1 DEF Lasting
      <4>3. QED
        BY <2>3, <4>2
    <3>4. CASE ~(e.type \in TerminalTypes /\ tr = <<e.task, e.rev>>)
      BY <1>5, <2>3, <3>2, <3>4
    <3>5. QED
      BY <3>3, <3>4
  <2>6. QED
    BY <2>4, <2>5
<1>17. QED
  BY <1>12, <1>13, <1>14, <1>15, <1>16 DEF EffectInv

-----------------------------------------------------------------------------
(* Publishing an output.                                                   *)

Lessens ==
    LogInv => \A n \in DOMAIN log : \A F, G :
        /\ TookBy(n, F)
        /\ \A f \in F : f \in G \/ (f \in Event /\ Lasting(view[<<f.task, f.rev>>], f))
        => TookBy(n, G)

LEMMA LessensHolds == Lessens
  BY TookLess DEF Lessens

\* The output in hand is settled: the rest is what the input still asks for.
LEMMA PublishedEffect ==
    ASSUME Inv, EffectInv, Inv', LogTold', pc = "append", Published,
           offset' = offset, outbox' = outbox, known' = known, decided' = decided,
           \A m \in DOMAIN log : m \in DOMAIN log' /\ log'[m] = log[m],
           \A m \in DOMAIN log : \A F : TookBy(m, F) => TookBy(m, F)',
           \A tr \in TaskRevs : view[tr].terminal # None => view'[tr].terminal # None,
           \A c \in {Current} : Lasting(view'[<<c.task, c.rev>>], c)
    PROVE  EffectInv'
<1>1. PICK c : c = Current
  OBVIOUS
<1>2. /\ c \in Event /\ job.outs \in Seq(Event) /\ job.outs # << >> /\ c = job.outs[1]
      /\ Lasting(view'[<<c.task, c.rev>>], c)
  BY <1>1, CurrentOK DEF Inv, Output, Named
<1>3. PICK t \in Seq(Event) : t = Tail(job.outs)
  BY <1>2, HeadTailProperties
<1>4. /\ DOMAIN t = 1 .. Len(t) /\ Len(t) \in Nat
      /\ DOMAIN job.outs = 1 .. Len(t) + 1 /\ Len(job.outs) = Len(t) + 1
      /\ \A i \in DOMAIN t : t[i] = job.outs[i + 1]
  BY <1>2, <1>3, HeadTailProperties
<1>5. /\ Range(t) \subseteq Range(job.outs)
      /\ \A f \in Range(job.outs) : f \in Range(t) \/ f = c
  <2>1. ASSUME NEW i \in DOMAIN t PROVE t[i] \in Range(job.outs)
    <3>1. i + 1 \in DOMAIN job.outs
      BY <1>4
    <3>2. QED
      BY <1>4, <3>1 DEF Range
  <2>2. ASSUME NEW i \in DOMAIN job.outs PROVE job.outs[i] \in Range(t) \/ job.outs[i] = c
    <3>1. CASE i = 1
      BY <1>2, <3>1
    <3>2. CASE i # 1
      <4>1. PICK j \in DOMAIN t : i = j + 1
        <5>1. i - 1 \in DOMAIN t /\ i = (i - 1) + 1
          BY <1>4, <3>2
        <5>2. QED
          BY <5>1
      <4>2. QED
        BY <1>4, <4>1 DEF Range
    <3>3. QED
      BY <3>1, <3>2
  <2>3. QED
    BY <2>1, <2>2 DEF Range
<1>6. job \in JobType /\ JobShape
  BY DEF Inv, JobInv, JobShape
<1>7. /\ job'.from = job.from /\ job'.src = job.src /\ job'.outs = t
      /\ pc' = (CASE job.src = 0           -> "resolve"
                  [] Len(job.outs) > 1     -> "stage"
                  [] Len(job.outs) = 1 /\ job.src # 0 ->
                        IF job.more THEN "followup" ELSE "save")
  BY <1>3, <1>6 DEF Published, Goto, JobType
<1>8. /\ Len(log) \in Nat /\ DOMAIN log = 1 .. Len(log)
      /\ offset \in 0 .. Len(log) /\ job.src \in 0 .. Len(log)
  BY <1>6, LogLength DEF Inv, BaseInv, JobShape
<1>9. PlansNamed'
  BY <1>5, <1>7 DEF EffectInv, PlansNamed
<1>10. Handled'
  <2>1. SUFFICES ASSUME NEW m \in 1 .. offset PROVE TookBy(m, {})'
    BY DEF Handled
  <2>2. m \in DOMAIN log /\ TookBy(m, {})
    BY <1>8 DEF EffectInv, Handled
  <2>3. QED
    BY <2>2
<1>11. InHand'
  <2>1. SUFFICES ASSUME job.from = "input" PROVE InHand'
    BY <1>7 DEF InHand
  <2>2. job.src # 0 /\ job.src \in DOMAIN log
    BY <1>6, <1>8, <2>1 DEF JobShape
  <2>3. \A m \in {job.src}, F \in {Range(job.outs)} : TookBy(m, F)'
    BY <2>1, <2>2 DEF EffectInv, InHand
  <2>4. Lessens' /\ LogInv'
    BY LessensHolds, PTL DEF Inv
  <2>5. \A f \in Range(job.outs) :
           f \in Range(t) \/ (f \in Event /\ Lasting(view'[<<f.task, f.rev>>], f))
    BY <1>2, <1>5
  <2>6. job.src \in DOMAIN log'
    BY <2>2
  <2>7. \A m \in {job.src}, G \in {Range(t)} : TookBy(m, G)'
    <3>1. PICK F : F = Range(job.outs)
      OBVIOUS
    <3>2. PICK G : G = Range(t)
      OBVIOUS
    <3>3. PICK m : m = job.src
      OBVIOUS
    <3>4. TookBy(m, F)' /\ m \in DOMAIN log'
      BY <2>3, <2>6, <3>1, <3>3
    <3>5. \A f \in F : f \in G \/ (f \in Event /\ Lasting(view'[<<f.task, f.rev>>], f))
      BY <2>5, <3>1, <3>2
    <3>6. TookBy(m, G)'
      BY <2>4, <3>4, <3>5 DEF Lessens
    <3>7. QED
      BY <3>2, <3>3, <3>6
  <2>8. \A m \in offset + 1 .. job.src - 1 : log'[m].type \notin CoordinatorTypes
    BY <1>8, <2>1 DEF EffectInv, InHand
  <2>9. pc' = "followup" => t = << >>
    <3>1. SUFFICES ASSUME pc' = "followup" PROVE t = << >>
      OBVIOUS
    <3>2. Len(t) = 0
      BY <1>4, <1>7, <2>2, <3>1
    <3>3. QED
      BY <1>3, <3>2, EmptySeq
  <2>10. QED
    BY <1>7, <2>7, <2>8, <2>9 DEF InHand
<1>12. PostedKnown'
  <2>1. SUFFICES ASSUME NEW m \in DOMAIN log', log'[m].type = "task_posted",
                        m <= offset \/ m <= job.src
                 PROVE  \/ <<log'[m].task, log'[m].rev>> \in known
                        \/ view'[<<log'[m].task, log'[m].rev>>].terminal # None
    BY <1>7 DEF PostedKnown
  <2>2. m \in DOMAIN log /\ log'[m] = log[m]
    <3>1. m \in Nat \ {0}
      <4>1. log' \in Seq(Event)
        BY DEF Inv, LogInv, LogShape
      <4>2. QED
        BY <4>1
    <3>2. QED
      BY <1>8, <2>1, <3>1
  <2>3. log[m] \in Event
    BY <2>2 DEF Inv, LogInv, LogShape
  <2>4. PICK tr \in TaskRevs : tr = <<log[m].task, log[m].rev>>
    BY <2>1, <2>2, <2>3, OwnTask
  <2>5. tr \in known \/ view[tr].terminal # None
    BY <2>1, <2>2, <2>4 DEF EffectInv, PostedKnown
  <2>6. QED
    BY <2>2, <2>4, <2>5
<1>13. QED
  BY <1>9, <1>10, <1>11, <1>12 DEF EffectInv

LEMMA AppendEffect ==
    ASSUME NamesAvailable, Inv, EffectInv, Inv', AppendOutput
    PROVE  EffectInv'
<1>1. LogInv /\ FileInv /\ JobInv /\ LogTold
  BY DEF Inv, EffectInv
<1>2. /\ offset' = offset /\ outbox' = outbox /\ known' = known
      /\ decided' = decided /\ pc = "append"
  BY DEF AppendOutput, memory, others
<1>3. PICK c : c = Current
  OBVIOUS
<1>4. PICK e : e = Staged
  OBVIOUS
<1>5. /\ Named(c) /\ Named(e) /\ e.key = c.key /\ e \in Event /\ Known(e)
      /\ outbox[c.key] # None /\ c.key \in Keys /\ e = outbox[c.key].event
      /\ e.task = c.task /\ e.rev = c.rev
      /\ e.type \notin {"clue", "estop"} /\ c \in Event /\ c.type \notin {"clue", "estop"}
      /\ e.type \notin {"receipt", "safety_intercept"}
      /\ e.type = "assignment_completed" => ReceiptOf(outbox[c.key].src, e)
  <2>1. Output(c) /\ Output(e)
    BY <1>1, <1>2, <1>3, <1>4, StagedOK, CurrentOK
  <2>2. /\ Known(e) /\ e.key = c.key /\ outbox[c.key] # None /\ c.key \in Keys
        /\ e = outbox[c.key].event /\ e.task = c.task /\ e.rev = c.rev
        /\ e.type = "assignment_completed" => ReceiptOf(outbox[c.key].src, e)
    BY <1>1, <1>2, <1>3, <1>4, StagedOK DEF Staged
  <2>3. QED
    BY <2>1, <2>2 DEF Output, Named, OutputTypes, TerminalTypes
<1>6. PICK tr \in TaskRevs : tr = <<e.task, e.rev>> /\ tr = <<c.task, c.rev>>
  BY <1>5, OwnTask
<1>7. PICK o : o = Bd!Outcome(Staged)
  OBVIOUS
<1>8. \/ o = "APPENDED" /\ Bd!Commit(e) /\ Published
      \/ /\ o \in {"DUPLICATE_SAME", "TERMINAL_CONFLICT"}
         /\ Published /\ UNCHANGED board
      \/ pc' = "unlink" /\ UNCHANGED <<board, job>>
      \/ job' = NoJob /\ UNCHANGED board
  <2>1. o \in {"APPENDED", "DUPLICATE_SAME", "TERMINAL_CONFLICT", "REJECTED", "KEY_CONFLICT"}
    BY <1>7, OutcomeRange
  <2>2. QED
    BY <1>4, <1>7, <2>1 DEF AppendOutput, Goto, Idle
<1>9. CASE o = "APPENDED" /\ Bd!Commit(e) /\ Published
  <2>1. Bd!Outcome(e) = "APPENDED" /\ Bd!Commit(e)
    BY <1>4, <1>7, <1>9
  <2>2. PlanNamed(e)
    BY <1>5 DEF EffectInv, PlansNamed
  <2>3. e.type = "assignment_completed" => view[tr].terminal # None \/ InPlan(view[tr], e)
    <3>1. SUFFICES ASSUME e.type = "assignment_completed"
                   PROVE  view[tr].terminal # None \/ InPlan(view[tr], e)
      OBVIOUS
    <3>2. PICK n : ReceiptOf(n, e)
      BY <1>5, <3>1
    <3>3. PICK r : r = log[n] /\ n \in DOMAIN log
      BY <3>2 DEF ReceiptOf
    <3>4. /\ r.type = "receipt" /\ <<r.task, r.rev>> = tr
          /\ r.epoch = e.epoch /\ r.asg = e.asg
      BY <1>6, <3>2, <3>3 DEF ReceiptOf
    <3>5. Lasting(view[tr], r)
      BY <1>1, <3>3, <3>4 DEF LogTold
    <3>6. QED
      BY <3>4, <3>5 DEF Lasting, InPlan, RobotTypes
  <2>4. LogTold' /\ Lasting(view'[tr], e)
    BY <1>1, <1>5, <1>6, <2>1, <2>2, <2>3, ToldCommit
  <2>5. Lasting(view'[tr], c)
    <3>1. PICK v : v = view'[tr]
      OBVIOUS
    <3>2. Lasting(v, c)
      BY <1>5, <2>4, <3>1, LastingAlike
    <3>3. QED
      BY <3>1, <3>2
  <2>6. \A m \in DOMAIN log : m \in DOMAIN log' /\ log'[m] = log[m]
    BY <1>1, <1>5, <2>1, Grows
  <2>7. \A m \in DOMAIN log : \A F : TookBy(m, F) => TookBy(m, F)'
    BY <1>1, <1>5, <2>1, TookStays
  <2>8. ASSUME NEW x \in TaskRevs, view[x].terminal # None PROVE view'[x].terminal # None
    <3>1. view'[x] = view[x] \/ view'[x] = Apply(view[x], e)
      BY <1>1, <1>5, <2>1, ViewStep
    <3>2. QED
      BY <2>8, <3>1, Frozen
  <2>9. \A x \in {Current} : Lasting(view'[<<x.task, x.rev>>], x)
    BY <1>3, <1>6, <2>5
  <2>10. QED
    BY <1>2, <1>9, <2>4, <2>6, <2>7, <2>8, <2>9, PublishedEffect
<1>10. CASE /\ o \in {"DUPLICATE_SAME", "TERMINAL_CONFLICT"}
            /\ Published /\ UNCHANGED board
  <2>1. log' = log /\ view' = view
    BY <1>10 DEF board
  <2>2. byKey[c.key] # 0 \/ Settled(e)
    BY <1>1, <1>2, <1>3, <1>4, <1>7, <1>10, StagedOutcome
  <2>3. Lasting(view[tr], c)
    <3>1. CASE byKey[c.key] # 0
      <4>1. PICK h : h = log[byKey[c.key]]
        OBVIOUS
      <4>2. byKey[c.key] \in DOMAIN log /\ Named(h) /\ h.key = c.key
        BY <1>1, <1>5, <3>1, <4>1, Holder
      <4>3. h.task = c.task /\ h.rev = c.rev /\ h.type \notin {"clue", "estop"}
        BY <1>5, <4>2, SameKey DEF Named, OutputTypes, RobotTypes, TerminalTypes
      <4>4. Lasting(view[tr], h)
        BY <1>1, <1>6, <4>1, <4>2, <4>3 DEF LogTold
      <4>5. QED
        BY <1>5, <4>2, <4>4, LastingAlike
    <3>2. CASE Settled(e)
      BY <1>1, <1>6, <3>2 DEF Settled, LogTold, Lasting
    <3>3. QED
      BY <2>2, <3>1, <3>2
  <2>4. LogTold' /\ \A m \in DOMAIN log : \A F : TookBy(m, F) => TookBy(m, F)'
    BY <1>1, <1>10, ToldSame, TookSame
  <2>5. \A x \in {Current} : Lasting(view'[<<x.task, x.rev>>], x)
    BY <1>3, <1>6, <2>1, <2>3
  <2>6. QED
    BY <1>2, <1>10, <2>1, <2>4, <2>5, PublishedEffect
<1>11. CASE pc' = "unlink" /\ UNCHANGED <<board, job>>
  BY <1>2, <1>11, EffectFiles DEF EffectInv, PlansNamed
<1>12. CASE job' = NoJob /\ UNCHANGED board
  BY <1>2, <1>12, EffectIdle
<1>13. QED
  BY <1>8, <1>9, <1>10, <1>11, <1>12

-----------------------------------------------------------------------------
(* The whole.                                                              *)

LEMMA InitEffect == Init => EffectInv
<1>1. SUFFICES ASSUME Init PROVE EffectInv
  OBVIOUS
<1>2. /\ offset = 0 /\ outbox = [k \in Keys |-> None] /\ pc = "down" /\ job = NoJob
      /\ decided = {} /\ log = << >> /\ byTerminal = [tr \in TaskRevs |-> 0]
      /\ view = [tr \in TaskRevs |-> EmptyView]
  BY <1>1 DEF Init, Bd!Init, Bd!TaskRevs, TaskRevs, Bd!EmptyView, EmptyView
<1>3. job.from = "none" /\ job.outs = << >> /\ DOMAIN log = {} /\ EmptyView.plan = None
  BY <1>2 DEF NoJob, EmptyView
<1>4. LogTold
  BY <1>2, <1>3 DEF LogTold, PlanOK
<1>5. PlansNamed /\ Handled /\ InHand /\ PostedKnown
  BY <1>2, <1>3, RangeOfFew DEF PlansNamed, Handled, InHand, PostedKnown
<1>6. QED
  BY <1>4, <1>5 DEF EffectInv

LEMMA NextEffect ==
    ASSUME NamesAvailable, Inv, EffectInv, [Next]_vars
    PROVE  EffectInv'
<1>0. Inv'
  BY NextInv
<1>1. CASE Working
  BY <1>0, <1>1, RecoverEffect, ReplayEffect, PollEffect, TakeEffect, FollowUpEffect,
     ChoosePlanEffect, StageEffect, AppendEffect, UnlinkEffect, SaveOffsetEffect,
     ResolveEffect DEF Working
<1>2. ASSUME NEW t \in Tasks, CloseRound(t) PROVE EffectInv'
  BY <1>2, CloseRoundEffect
<1>3. ASSUME NEW tr \in TaskRevs, AgentExit(tr) PROVE EffectInv'
  BY <1>3, AgentExitEffect
<1>4. CASE Crash
  BY <1>4, CrashEffect
<1>5. ASSUME NEW e \in Offered, External(e) PROVE EffectInv'
  BY <1>5, ExternalEffect
<1>6. CASE Decide \/ Submit \/ Report \/ Intercept
  BY <1>6, DecideEffect, SubmitEffect, ReportEffect, InterceptEffect
<1>7. CASE UNCHANGED vars
  <2>1. /\ UNCHANGED board /\ log' = log /\ view' = view /\ offset' = offset
        /\ outbox' = outbox /\ known' = known /\ pc' = pc /\ job' = job /\ decided' = decided
    BY <1>7 DEF vars, board, durable, memory, others
  <2>2. LogTold' /\ Handled' /\ InHand'
    BY <2>1, ToldSame, TookSame, InHandSame DEF EffectInv, Handled
  <2>3. PlansNamed' /\ PostedKnown'
    BY <2>1 DEF EffectInv, PlansNamed, PostedKnown
  <2>4. QED
    BY <2>2, <2>3 DEF EffectInv
<1>8. QED
  BY <1>1, <1>2, <1>3, <1>4, <1>5, <1>6, <1>7 DEF Next

\* Every input that counts as consumed had its effect on the Blackboard: a task
\* was opened or ended, a receipt completed its assignment or failed the task,
\* a stop ended everything it is about, whatever crashed in between.
THEOREM InputsTookEffect == NamesAvailable => (Spec => []ConsumedTookEffect)
<1>1. SUFFICES ASSUME NamesAvailable PROVE Spec => []ConsumedTookEffect
  OBVIOUS
<1>2. Init => Inv /\ EffectInv
  BY InitInv, InitEffect
<1>3. Inv /\ EffectInv /\ [Next]_vars => (Inv /\ EffectInv)'
  BY <1>1, NextInv, NextEffect
<1>4. EffectInv => ConsumedTookEffect
  BY TookAll DEF EffectInv, Handled, ConsumedTookEffect
<1>5. QED
  BY <1>2, <1>3, <1>4, PTL DEF Spec

-----------------------------------------------------------------------------
(* The rounds that are open are on the list of rounds to close.            *)

\* The list is filed under the task alone.
OneRevision == Revs = {1}

\* The events of a task revision come in the order of their epochs.
RoundsInTurn ==
    \A m, n \in DOMAIN log, tr \in TaskRevs :
        m < n /\ OfType(log[m], "bid_round_opened", tr) =>
            /\ OfType(log[n], "bid_round_opened", tr) => log[m].epoch <= log[n].epoch
            /\ OfType(log[n], "task_assigned", tr) => log[m].epoch <= log[n].epoch
            /\ OfType(log[n], "task_replan", tr) => log[m].epoch <= log[n].from

Open(v) == v.round # None /\ v.terminal = None /\ ~ReplanPending(v)

OpenedAt(n, tr) ==
    OfType(log[n], "bid_round_opened", tr) /\ log[n].epoch = view[tr].epoch

\* How far the log was read.
Seen == IF job.from = "input" THEN job.src ELSE offset

Tracked ==
    pc # "down" => \A tr \in TaskRevs, n \in 1 .. Seen :
        Open(view[tr]) /\ OpenedAt(n, tr) =>
            rounds[tr[1]] = [rev |-> tr[2], epoch |-> view[tr].epoch]

\* What closes the round of a task: its assignment, or the end of the task.
Closes(f, t) ==
    /\ <<f.task, f.rev>> = RoundOf(t)
    /\ f.type \in TerminalTypes \/ (f.type = "task_assigned" /\ f.epoch = rounds[t].epoch)

TickInv ==
    job.from = "tick" =>
        /\ \A f \in Range(job.outs) : Closes(f, job.task)
        /\ pc = "resolve" =>
              \E f \in Event : Closes(f, job.task) /\ Lasting(view[<<f.task, f.rev>>], f)

TrackInv == RoundsInTurn /\ Tracked /\ TickInv

LEMMA PendingKept ==
    ASSUME NEW v \in View, NEW e \in Event, v.terminal = None,
           e.type \notin {"task_replan", "task_assigned"} \cup TerminalTypes
    PROVE  v.pending \subseteq Apply(v, e).pending
<1>1. CASE e.type = "task_posted"
  BY <1>1 DEF Apply, ApplyPosted, View
<1>2. CASE e.type = "bid_round_opened"
  BY <1>2 DEF Apply, ApplyRound, View
<1>3. CASE e.type = "action_intent"
  BY <1>3 DEF Apply, ApplyIntent, View
<1>4. CASE e.type = "assignment_completed"
  BY <1>4 DEF Apply, ApplyCompleted, View
<1>5. CASE e.type = "clue"
  BY <1>5 DEF Apply, View
<1>6. CASE e.type \notin {"task_posted", "bid_round_opened", "action_intent",
                          "assignment_completed", "clue"}
  BY <1>6 DEF Apply
<1>7. QED
  BY <1>1, <1>2, <1>3, <1>4, <1>5, <1>6

\* A step that leaves a round open, other than its opening, found it open.
LEMMA OpenBefore ==
    ASSUME NEW v \in View, ViewOK(v), NEW e \in Event, Accepted(v, e),
           e.type # "bid_round_opened", Open(Apply(v, e))
    PROVE  Open(v) /\ Apply(v, e).epoch = v.epoch
<1> DEFINE w == Apply(v, e)
<1>1. v.terminal = None
  BY Frozen DEF Open
<1>2. e.type \notin TerminalTypes
  <2>1. SUFFICES ASSUME e.type \in TerminalTypes PROVE FALSE
    OBVIOUS
  <2>2. w.terminal = e.id /\ e.id # None
    BY <1>1, <2>1, AcceptedTerminal, EventShape, NoneAssumption
       DEF Accepted, GatedTypes, TerminalTypes
  <2>3. QED
    BY <2>2 DEF Open
<1>3. e.type \notin {"task_assigned", "task_replan"}
  BY AssignedApplies, ReplanApplies DEF Open
<1>4. w.round \in {v.round, None} /\ w.epoch = v.epoch
  <2>1. CASE e.type = "assignment_completed"
    BY <2>1, CompletedApplies
  <2>2. CASE e.type # "assignment_completed"
    BY <1>3, <2>2, OthersKeepPlan DEF PlanTypes
  <2>3. QED
    BY <2>1, <2>2
<1>5. v.pending \subseteq w.pending
  BY <1>1, <1>2, <1>3, PendingKept
<1> HIDE DEF w
<1>6. Open(w)
  BY DEF w
<1>7. v.pending = {} /\ v.round # None
  BY <1>4, <1>5, <1>6 DEF Open, ReplanPending
<1>8. QED
  BY <1>1, <1>4, <1>7 DEF Open, ReplanPending, w

LEMMA TurnCommit ==
    ASSUME LogInv, RoundsInTurn, NEW e, Known(e), Bd!Outcome(e) = "APPENDED", Bd!Commit(e)
    PROVE  RoundsInTurn'
<1>0. e \in Event
  BY DEF Known
<1>1. /\ Len(log) \in Nat /\ DOMAIN log = 1 .. Len(log)
      /\ \A n \in DOMAIN log : log'[n] = log[n]
      /\ \A n \in DOMAIN log' : n \in DOMAIN log \/ (n = Len(log) + 1 /\ log'[n] = e)
  BY <1>0, Grows
<1>a. \A i \in DOMAIN log : log[i] \in Event
  BY DEF LogInv, LogShape
<1>2. SUFFICES ASSUME NEW m \in DOMAIN log', NEW n \in DOMAIN log', NEW tr \in TaskRevs,
                      m < n, OfType(log'[m], "bid_round_opened", tr)
               PROVE  /\ OfType(log'[n], "bid_round_opened", tr) => log'[m].epoch <= log'[n].epoch
                      /\ OfType(log'[n], "task_assigned", tr) => log'[m].epoch <= log'[n].epoch
                      /\ OfType(log'[n], "task_replan", tr) => log'[m].epoch <= log'[n].from
  BY DEF RoundsInTurn
<1>3. m \in DOMAIN log
  BY <1>1, <1>2
<1>4. CASE n \in DOMAIN log
  BY <1>1, <1>2, <1>3, <1>4 DEF RoundsInTurn
<1>5. CASE n = Len(log) + 1 /\ log'[n] = e
  <2>1. PICK f : f = log[m] /\ f = log'[m]
    BY <1>1, <1>3
  <2>2. f \in Event /\ f.type = "bid_round_opened" /\ f.epoch <= view[tr].epoch
    <3>0. f \in Event
      BY <1>a, <1>3, <2>1
    <3>1. f \in Event /\ OfType(f, "bid_round_opened", tr)
      BY <1>2, <2>1, <3>0 DEF OfType
    <3>2. f.epoch <= view[tr].epoch
      BY <1>3, <2>1, <3>1 DEF LogInv, RoundsBehind
    <3>3. QED
      BY <3>1, <3>2 DEF OfType
  <2>3. f.epoch \in Nat /\ view[tr].epoch \in Nat
    BY <2>2, RoundShape DEF LogInv, ViewsOK, View
  <2>4. CASE e.type \in {"bid_round_opened", "task_assigned", "task_replan"} /\ <<e.task, e.rev>> = tr
    <3>1. Bd!Target(e) = tr
      BY <1>0, <2>4, Committed
    <3>2. Accepted(view[tr], e) /\ view[tr] \in View
          /\ (view[tr].round # None => view[tr].round.epoch = view[tr].epoch /\ view[tr].epoch # 0)
      BY <1>0, <3>1, ViewStep
    <3>3. CASE e.type = "bid_round_opened"
      <4>0. PICK v : v = view[tr]
        OBVIOUS
      <4>1. e.epoch = v.epoch \/ (v.epoch = 0 /\ e.epoch = 1)
        <5>1. /\ v \in View /\ Accepted(v, e)
              /\ v.round # None => v.round.epoch = v.epoch /\ v.epoch # 0
          BY <3>2, <4>0
        <5>2. /\ v.epoch # 0 => Apply(v, e).epoch = v.epoch
              /\ v.epoch = 0 => Apply(v, e).epoch = 1
              /\ e.epoch = Apply(v, e).epoch
          BY <1>0, <3>3, <5>1, RoundApplies
        <5>3. QED
          BY <5>2
      <4>2. QED
        BY <1>5, <2>1, <2>2, <2>3, <3>3, <4>0, <4>1 DEF OfType
    <3>4. CASE e.type = "task_assigned"
      <4>1. e.epoch = view[tr].epoch
        BY <1>0, <3>2, <3>4, AssignedApplies
      <4>2. QED
        BY <1>5, <2>1, <2>2, <3>4, <4>1 DEF OfType
    <3>5. CASE e.type = "task_replan"
      <4>1. e.from = view[tr].epoch
        BY <1>0, <3>2, <3>5, ReplanApplies
      <4>2. QED
        BY <1>5, <2>1, <2>2, <3>5, <4>1 DEF OfType
    <3>6. QED
      BY <2>4, <3>3, <3>4, <3>5
  <2>5. CASE ~(e.type \in {"bid_round_opened", "task_assigned", "task_replan"} /\ <<e.task, e.rev>> = tr)
    BY <1>5, <2>5 DEF OfType
  <2>6. QED
    BY <2>4, <2>5
<1>6. QED
  BY <1>1, <1>4, <1>5

\* While a round is open nothing after its opening sets or clears it.
LEMMA LastSets ==
    ASSUME OneRevision, LogInv, LogTold, RoundsInTurn, NEW tr \in TaskRevs, Open(view[tr]),
           NEW n \in DOMAIN log, NEW m \in DOMAIN log, n <= m, OpenedAt(n, tr),
           log[m].task = tr[1], log[m].type \in RecoveryTypes \ {"task_posted"}
    PROVE  /\ log[m].type = "bid_round_opened" /\ log[m].rev = tr[2]
           /\ log[m].epoch = view[tr].epoch
<1>1. PICK v : v = view[tr]
  OBVIOUS
<1>2. PICK e \in Event : e = log[m]
  BY DEF LogInv, LogShape
<1>3. /\ v \in View /\ v.epoch \in Nat /\ v.round # None /\ v.terminal = None
      /\ log[n].epoch = v.epoch /\ OfType(log[n], "bid_round_opened", tr)
  BY <1>1 DEF Open, OpenedAt, LogInv, ViewsOK, View
<1>4. <<e.task, e.rev>> = tr
  <2>1. e.type \notin {"clue", "estop"}
    BY <1>2 DEF RecoveryTypes, TerminalTypes
  <2>2. <<e.task, e.rev>> \in TaskRevs
    BY <2>1, OwnTask
  <2>3. e.rev = 1 /\ tr[2] = 1 /\ tr = <<tr[1], tr[2]>>
    BY <2>2 DEF TaskRevs, OneRevision
  <2>4. QED
    BY <1>2, <2>3
<1>5. Lasting(v, e)
  BY <1>1, <1>2, <1>4 DEF LogTold, RecoveryTypes, TerminalTypes
<1>6. CASE e.type \in TerminalTypes
  BY <1>3, <1>5, <1>6 DEF Lasting
<1>7. CASE e.type = "task_assigned"
  <2>1. e.epoch \in Nat /\ n # m
    BY <1>2, <1>3, <1>7, EpochShape DEF OfType
  <2>2. v.epoch <= e.epoch
    <3>1. n < m
      BY <2>1, LogLength
    <3>2. OfType(e, "task_assigned", tr)
      BY <1>4, <1>7 DEF OfType
    <3>3. QED
      BY <1>2, <1>3, <3>1, <3>2 DEF RoundsInTurn
  <2>3. v.plan # None
    BY <1>3, <1>5, <1>7, <2>1, <2>2 DEF Lasting
  <2>4. QED
    BY <1>1, <1>3, <2>3 DEF LogTold, PlanOK
<1>8. CASE e.type = "task_replan"
  <2>1. e.from \in Nat /\ n # m
    BY <1>2, <1>3, <1>8, ReplanShape DEF OfType
  <2>0. OfType(e, "task_replan", tr)
    BY <1>4, <1>8 DEF OfType
  <2>2. v.epoch <= e.from
    <3>1. n < m
      BY <2>1, LogLength
    <3>3. QED
      BY <1>2, <1>3, <2>0, <3>1 DEF RoundsInTurn
  <2>3. e.from < v.epoch
    BY <1>1, <1>2, <2>0 DEF LogInv, EpochsBehind, EpochBehind
  <2>4. QED
    BY <1>3, <2>1, <2>2, <2>3
<1>9. CASE e.type = "bid_round_opened"
  <2>1. e.epoch \in Nat /\ OfType(e, "bid_round_opened", tr)
    BY <1>4, <1>9, RoundShape DEF OfType
  <2>2. v.epoch <= e.epoch
    <3>1. CASE n = m
      BY <1>2, <1>3, <2>1, <3>1
    <3>2. CASE n # m
      <4>1. n < m
        BY <3>2, LogLength
      <4>2. QED
        BY <1>2, <1>3, <2>1, <4>1 DEF RoundsInTurn
    <3>3. QED
      BY <3>1, <3>2
  <2>3. e.epoch <= v.epoch
    BY <1>1, <1>2, <2>1 DEF LogInv, RoundsBehind
  <2>4. e.rev = tr[2]
    BY <1>4
  <2>5. QED
    BY <1>1, <1>2, <1>3, <1>9, <2>1, <2>2, <2>3, <2>4
<1>10. QED
  BY <1>2, <1>6, <1>7, <1>8, <1>9 DEF RecoveryTypes

-----------------------------------------------------------------------------
(* What a commit by anybody does to it.                                    *)

LEMMA SeenType ==
    ASSUME Inv
    PROVE  Seen \in 0 .. Len(log) /\ offset <= Seen /\ Len(log) \in Nat /\ DOMAIN log = 1 .. Len(log)
<1>1. /\ Len(log) \in Nat /\ DOMAIN log = 1 .. Len(log)
      /\ offset \in 0 .. Len(log) /\ job.src \in 0 .. Len(log)
      /\ job.from = "input" => job.src >= offset
  BY LogLength DEF Inv, BaseInv, JobInv, JobShape
<1>2. QED
  BY <1>1 DEF Seen

\* No other event opens the same round again.
LEMMA RoundOpenedOnce ==
    ASSUME LogInv, NEW e, Known(e), Bd!Outcome(e) = "APPENDED", Bd!Commit(e), NEW tr \in TaskRevs,
           OfType(e, "bid_round_opened", tr), NEW n \in DOMAIN log,
           OfType(log[n], "bid_round_opened", tr), log[n].epoch = e.epoch
    PROVE  FALSE
<1>1. PICK f : f = log[n]
  OBVIOUS
<1>2. Known(f) /\ OfType(f, "bid_round_opened", tr) /\ f.epoch = e.epoch
  BY <1>1 DEF LogInv, LogShape
<1>3. Named(e) /\ Named(f)
  BY <1>2, OfferedAssumption DEF Known, OfType
<1>4. e.key = f.key /\ f.key \in Keys
  BY <1>2, <1>3 DEF Named, Keyed, OfType
<1>5. f.key # None
  BY <1>4, NoneAssumption
<1>6. byKey[f.key] = n /\ n # 0
  BY <1>1, <1>5, LogLength DEF LogInv, IndexesOK
<1>7. e \in Event
  BY DEF Known
<1>8. byKey[e.key] = 0
  BY <1>4, <1>5, <1>7, Committed
<1>9. QED
  BY <1>4, <1>6, <1>8

LEMMA TrackedCommit ==
    ASSUME Inv, RoundsInTurn, Tracked, NEW e, Known(e), Bd!Outcome(e) = "APPENDED", Bd!Commit(e),
           rounds' = rounds, Seen' \in 0 .. Seen, pc # "down"
    PROVE  Tracked'
<1>0. e \in Event /\ LogInv
  BY DEF Known, Inv
<1>1. SUFFICES ASSUME NEW tr \in TaskRevs, NEW n \in 1 .. Seen', Open(view'[tr]), OpenedAt(n, tr)'
               PROVE  rounds[tr[1]] = [rev |-> tr[2], epoch |-> view'[tr].epoch]
  BY DEF Tracked
<1>2. n \in 1 .. Seen /\ n \in DOMAIN log
  BY SeenType
<1>3. PICK f : f = log[n] /\ f = log'[n]
  BY <1>0, <1>2, Grows
<1>4. OfType(f, "bid_round_opened", tr) /\ f.epoch = view'[tr].epoch
  BY <1>1, <1>3 DEF OpenedAt
<1>5. PICK v : v = view[tr]
  OBVIOUS
<1>6. v \in View /\ ViewOK(v)
  BY <1>0, <1>5, ViewStep
<1>7. Open(v) /\ view'[tr].epoch = v.epoch
  <2>1. CASE tr # Bd!Target(e)
    BY <1>0, <1>1, <1>5, <2>1, ViewStep
  <2>2. CASE tr = Bd!Target(e)
    <3>1. view'[tr] = Apply(v, e) /\ Accepted(v, e)
      BY <1>0, <1>5, <2>2, ViewStep
    <3>2. e.type # "bid_round_opened"
      <4>1. SUFFICES ASSUME e.type = "bid_round_opened" PROVE FALSE
        OBVIOUS
      <4>2. OfType(e, "bid_round_opened", tr)
        BY <1>0, <2>2, <4>1, Committed DEF OfType
      <4>3. v.round # None => v.round.epoch = v.epoch /\ v.epoch # 0
        BY <1>6 DEF ViewOK
      <4>4. e.epoch = view'[tr].epoch
        <5>1. e.epoch = Apply(v, e).epoch
          BY <1>0, <1>6, <3>1, <4>1, <4>3, RoundApplies
        <5>2. QED
          BY <3>1, <5>1
      <4>5. OfType(log[n], "bid_round_opened", tr) /\ log[n].epoch = e.epoch
        BY <1>3, <1>4, <4>4
      <4>6. QED
        BY <1>0, <1>2, <4>2, <4>5, RoundOpenedOnce
    <3>3. QED
      BY <1>0, <1>1, <1>6, <3>1, <3>2, OpenBefore
  <2>3. QED
    BY <2>1, <2>2
<1>8. OpenedAt(n, tr)
  BY <1>3, <1>4, <1>5, <1>7 DEF OpenedAt
<1>9. QED
  BY <1>2, <1>5, <1>7, <1>8 DEF Tracked

\* A step that reads nothing more and leaves the list alone.
LEMMA TrackedSame ==
    ASSUME Inv, Tracked, UNCHANGED board, rounds' = rounds, Seen' \in 0 .. Seen, pc # "down"
    PROVE  Tracked'
<1>1. log' = log /\ view' = view
  BY DEF board
<1>2. SUFFICES ASSUME NEW tr \in TaskRevs, NEW n \in 1 .. Seen', Open(view[tr]), OpenedAt(n, tr)
               PROVE  rounds[tr[1]] = [rev |-> tr[2], epoch |-> view[tr].epoch]
  BY <1>1 DEF Tracked, OpenedAt
<1>3. n \in 1 .. Seen
  BY SeenType
<1>4. QED
  BY <1>2, <1>3 DEF Tracked

LEMMA TurnSame == ASSUME RoundsInTurn, UNCHANGED board PROVE RoundsInTurn'
  BY DEF RoundsInTurn, board

\* Somebody else appends an event.
LEMMA TrackOthers ==
    ASSUME Inv, EffectInv, TrackInv, NEW e, Known(e), Bd!Outcome(e) = "APPENDED", Bd!Commit(e),
           UNCHANGED <<durable, memory, pc, job>>
    PROVE  TrackInv'
<1>1. offset' = offset /\ rounds' = rounds /\ pc' = pc /\ job' = job /\ LogInv /\ e \in Event
  BY DEF durable, memory, Known, Inv
<1>2. RoundsInTurn'
  BY <1>1, TurnCommit DEF TrackInv
<1>3. Tracked'
  <2>1. CASE pc = "down"
    BY <1>1, <2>1 DEF Tracked
  <2>2. CASE pc # "down"
    <3>1. Seen' = Seen
      BY <1>1 DEF Seen
    <3>2. Seen' \in 0 .. Seen
      BY <3>1, SeenType
    <3>3. QED
      BY <1>1, <2>2, <3>2, TrackedCommit DEF TrackInv
  <2>3. QED
    BY <2>1, <2>2
<1>4. TickInv'
  <2>1. SUFFICES ASSUME job.from = "tick" PROVE TickInv'
    BY <1>1 DEF TickInv
  <2>a. PICK t : t = job.task
    OBVIOUS
  <2>2. \A f \in Range(job.outs) : Closes(f, t)'
    BY <1>1, <2>a, <2>1 DEF TrackInv, TickInv, Closes, RoundOf
  <2>3. ASSUME pc = "resolve"
        PROVE  \E f \in Event : Closes(f, t)' /\ Lasting(view'[<<f.task, f.rev>>], f)
    <3>1. PICK f \in Event : Closes(f, job.task) /\ Lasting(view[<<f.task, f.rev>>], f)
      BY <2>1, <2>3 DEF TrackInv, TickInv
    <3>2. Closes(f, t)'
      BY <1>1, <2>a, <3>1 DEF Closes, RoundOf
    <3>3. f.type \notin {"clue", "estop"}
      BY <3>1 DEF Closes, TerminalTypes
    <3>4. PICK tr \in TaskRevs : tr = <<f.task, f.rev>>
      BY <3>3, OwnTask
    <3>5. PICK v : v = view[tr]
      OBVIOUS
    <3>6. v \in View /\ ViewOK(v) /\ Lasting(v, f)
      BY <1>1, <3>1, <3>4, <3>5, ViewStep
    <3>7. view'[tr] = v \/ (view'[tr] = Apply(v, e) /\ Accepted(v, e))
      BY <1>1, <3>5, ViewStep
    <3>8. Lasting(view'[tr], f)
      BY <1>1, <3>6, <3>7, LastingStays
    <3>9. QED
      BY <3>2, <3>4, <3>8
  <2>4. QED
    BY <1>1, <2>a, <2>2, <2>3 DEF TickInv
<1>5. QED
  BY <1>2, <1>3, <1>4 DEF TrackInv

-----------------------------------------------------------------------------
(* The steps of the Coordinator.                                           *)

\* A step that publishes nothing and reads nothing more.
LEMMA TrackSame ==
    ASSUME Inv, TrackInv, UNCHANGED board, rounds' = rounds, Seen' \in 0 .. Seen, pc # "down",
           TickInv'
    PROVE  TrackInv'
  BY TurnSame, TrackedSame DEF TrackInv

LEMMA TrackIdle ==
    ASSUME Inv, TrackInv, UNCHANGED board, rounds' = rounds, pc # "down",
           job' = NoJob, offset' = offset
    PROVE  TrackInv'
<1>1. job'.from = "none"
  BY DEF NoJob
<1>2. TickInv' /\ Seen' = offset
  BY <1>1 DEF TickInv, Seen
<1>3. Seen' \in 0 .. Seen
  BY <1>2, SeenType DEF Inv, BaseInv
<1>4. QED
  BY <1>2, <1>3, TrackSame

\* The list a restart finds: the last event of a task decides.
LEMMA RecoverTrack ==
    ASSUME OneRevision, Inv, EffectInv, TrackInv, Recover
    PROVE  TrackInv'
<1>1. /\ UNCHANGED board /\ log' = log /\ view' = view /\ offset' = offset
      /\ rounds' = [t \in Tasks |-> RecoveredRound(t)] /\ job' = job /\ pc = "down"
  BY DEF Recover, board, durable
<1>2. job = NoJob
  BY <1>1 DEF Inv, JobInv, JobShape
<1>3. job.from = "none"
  BY <1>2 DEF NoJob
<1>4. RoundsInTurn' /\ TickInv'
  BY <1>1, <1>3, TurnSame DEF TrackInv, TickInv
<1>5. Tracked'
  <2>1. SUFFICES ASSUME NEW tr \in TaskRevs, NEW n \in 1 .. Seen, Open(view[tr]), OpenedAt(n, tr)
                 PROVE  rounds'[tr[1]] = [rev |-> tr[2], epoch |-> view[tr].epoch]
    BY <1>1 DEF Tracked, Seen, OpenedAt
  <2>2. /\ LogInv /\ LogTold /\ RoundsInTurn /\ Len(log) \in Nat /\ DOMAIN log = 1 .. Len(log)
        /\ n \in DOMAIN log
    BY SeenType DEF Inv, EffectInv, TrackInv
  <2> DEFINE t == tr[1]
             S == {m \in DOMAIN log : log[m].task = t /\ log[m].type \in
                                         RecoveryTypes \ {"task_posted"}}
  <2>3. n \in S
    BY <2>1, <2>2 DEF OpenedAt, OfType, RecoveryTypes, TaskRevs
  <2>4. Max(S) \in S /\ \A m \in S : m <= Max(S)
    <3>1. S \subseteq 1 .. Len(log) /\ S \subseteq Nat /\ S # {}
      BY <2>2, <2>3
    <3>2. IsFiniteSet(1 .. Len(log))
      BY <2>2, FS_Interval
    <3> HIDE DEF S
    <3>3. IsFiniteSet(S)
      BY <3>1, <3>2, FS_Subset
    <3>4. QED
      BY <3>1, <3>3, MaxOf
  <2>5. PICK m \in DOMAIN log : m = Max(S) /\ log[m].task = t
                                /\ log[m].type \in RecoveryTypes \ {"task_posted"}
    BY <2>4
  <2>6. n <= m
    BY <2>3, <2>4, <2>5
  <2>7. log[m].type = "bid_round_opened" /\ log[m].rev = tr[2] /\ log[m].epoch = view[tr].epoch
    BY <2>1, <2>2, <2>5, <2>6, LastSets
  <2>8. RecoveredRound(t) = [rev |-> log[m].rev, epoch |-> log[m].epoch]
    BY <2>3, <2>5, <2>7 DEF RecoveredRound
  <2>9. t \in Tasks
    BY DEF TaskRevs
  <2>10. QED
    BY <1>1, <2>7, <2>8, <2>9
<1>6. QED
  BY <1>4, <1>5 DEF TrackInv

LEMMA ReplayTrack ==
    ASSUME Inv, TrackInv, Replay
    PROVE  TrackInv'
<1>1. /\ UNCHANGED board /\ offset' = offset /\ rounds' = rounds /\ pc = "replay"
  BY DEF Replay, durable, memory
<1>2. CASE job' = NoJob
  BY <1>1, <1>2, TrackIdle
<1>3. CASE \E k \in Keys : job' = [NoJob EXCEPT !.from = "replay", !.outs = <<outbox[k].event>>]
  <2>1. job'.from = "replay"
    BY <1>3 DEF NoJob
  <2>2. TickInv' /\ Seen' = offset
    BY <1>1, <2>1 DEF TickInv, Seen
  <2>3. Seen' \in 0 .. Seen
    BY <2>2, SeenType DEF Inv, BaseInv
  <2>4. QED
    BY <1>1, <2>2, <2>3, TrackSame
<1>4. QED
  BY <1>2, <1>3 DEF Replay, Replayable, Idle

LEMMA PollTrack ==
    ASSUME Inv, TrackInv, Poll
    PROVE  TrackInv'
<1>1. /\ UNCHANGED board /\ offset' = offset /\ rounds' = rounds
      /\ pc \in {"poll", "take"} /\ job' = job
  BY DEF Poll, Ticking, durable
<1>2. job = NoJob
  BY <1>1 DEF Inv, JobInv, JobShape
<1>3. QED
  BY <1>1, <1>2, TrackIdle

LEMMA TakeTrack ==
    ASSUME OneRevision, Inv, EffectInv, TrackInv, Take
    PROVE  TrackInv'
<1>1. LogInv /\ BaseInv /\ LogTold /\ RoundsInTurn
  BY DEF Inv, EffectInv, TrackInv
<1>2. PICK n : n = Min(Unread)
  OBVIOUS
<1>3. PICK e : e = log[n]
  OBVIOUS
<1>4. /\ UNCHANGED board /\ offset' = offset /\ pc = "take" /\ Unread # {}
      /\ rounds' = RoundsAfter(e)
      /\ job' = [NoJob EXCEPT !.from = "input", !.src = n, !.outs = Outputs(e, n),
                              !.more = e.type = "receipt" /\ AcceptedReceipt(e)]
  BY <1>2, <1>3 DEF Take, durable
<1>5. /\ log' = log /\ view' = view /\ Len(log) \in Nat /\ DOMAIN log = 1 .. Len(log)
      /\ offset \in 0 .. Len(log) /\ upto \in 0 .. Len(log)
  BY <1>1, <1>4, LogLength DEF board, BaseInv
<1>6. /\ n \in Unread /\ (\A m \in Unread : n <= m)
      /\ n \in DOMAIN log /\ n > offset /\ n \in Nat /\ n <= upto
  <2>1. Unread \subseteq 0 .. Len(log) /\ Unread \subseteq offset + 1 .. upto
    BY <1>5 DEF Unread, Batch
  <2>2. n \in Unread /\ \A m \in Unread : n <= m
    BY <1>2, <1>4, <1>5, <2>1, MinOf
  <2>3. QED
    BY <1>5, <2>1, <2>2
<1>7. e \in Event
  BY <1>1, <1>3, <1>6 DEF LogInv, LogShape
<1>8. job'.from = "input" /\ job'.src = n
  BY <1>4 DEF NoJob
<1>9. job = NoJob
  BY <1>4 DEF Inv, JobInv, JobShape
<1>10. Seen = offset /\ Seen' = n
  BY <1>8, <1>9 DEF Seen, NoJob
<1>11. Tracked'
  <2>1. SUFFICES ASSUME NEW tr \in TaskRevs, NEW m \in 1 .. n, Open(view[tr]), OpenedAt(m, tr)
                 PROVE  rounds'[tr[1]] = [rev |-> tr[2], epoch |-> view[tr].epoch]
    BY <1>5, <1>10 DEF Tracked, OpenedAt
  <2>2. m \in DOMAIN log /\ m <= n
    BY <1>5, <1>6
  <2>3. rounds = [t \in Tasks |-> rounds[t]] /\ tr[1] \in Tasks
    BY DEF Inv, RoundInv, RoundsShape, TaskRevs
  <2>4. CASE e.task = tr[1] /\ e.type \in RecoveryTypes \ {"task_posted", "task_replan"}
    <3>1. log[n].task = tr[1] /\ log[n].type \in RecoveryTypes \ {"task_posted"}
      BY <1>3, <2>4
    <3>2. /\ log[n].type = "bid_round_opened" /\ log[n].rev = tr[2]
          /\ log[n].epoch = view[tr].epoch
      BY <1>1, <1>6, <2>1, <2>2, <3>1, LastSets
    <3>3. rounds' = [rounds EXCEPT ![e.task] = [rev |-> e.rev, epoch |-> e.epoch]]
      BY <1>3, <1>4, <3>2 DEF RoundsAfter, TerminalTypes
    <3>4. QED
      BY <1>3, <2>3, <2>4, <3>2, <3>3
  <2>5. CASE ~(e.task = tr[1] /\ e.type \in RecoveryTypes \ {"task_posted", "task_replan"})
    <3>1. rounds'[tr[1]] = rounds[tr[1]]
      <4>1. CASE e.type = "bid_round_opened"
        <5>1. rounds' = [rounds EXCEPT ![e.task] = [rev |-> e.rev, epoch |-> e.epoch]]
          BY <1>4, <4>1 DEF RoundsAfter, TerminalTypes
        <5>2. e.task # tr[1]
          BY <2>5, <4>1 DEF RecoveryTypes
        <5>3. QED
          BY <2>3, <5>1, <5>2
      <4>2. CASE e.type \in TerminalTypes \cup {"task_assigned"}
        <5>1. rounds' = [rounds EXCEPT ![e.task] = None]
          BY <1>4, <4>2 DEF RoundsAfter, TerminalTypes
        <5>2. e.task # tr[1]
          BY <2>5, <4>2 DEF RecoveryTypes, TerminalTypes
        <5>3. QED
          BY <2>3, <5>1, <5>2
      <4>3. CASE e.type \notin TerminalTypes \cup {"task_assigned", "bid_round_opened"}
        BY <1>4, <4>3 DEF RoundsAfter
      <4>4. QED
        BY <4>1, <4>2, <4>3
    <3>2. log[m].type = "bid_round_opened" /\ log[m].task = tr[1]
      BY <2>1 DEF OpenedAt, OfType, TaskRevs
    <3>3. m # n
      BY <1>3, <2>5, <3>2 DEF RecoveryTypes
    <3>4. m \notin offset + 1 .. n - 1
      <4>1. SUFFICES ASSUME m \in offset + 1 .. n - 1 PROVE FALSE
        OBVIOUS
      <4>2. m \in offset + 1 .. upto /\ ~(n <= m)
        BY <1>5, <1>6, <4>1
      <4>3. m \in Unread
        BY <3>2, <4>2 DEF Unread, Batch, CoordinatorTypes, GatedTypes
      <4>4. QED
        BY <1>6, <4>2, <4>3
    <3>5. m \in 1 .. Seen
      BY <1>5, <1>6, <1>10, <2>2, <3>3, <3>4
    <3>6. QED
      BY <1>4, <2>1, <3>1, <3>5 DEF TrackInv, Tracked
  <2>6. QED
    BY <2>4, <2>5
<1>12. QED
  BY <1>4, <1>8, <1>11, TurnSame DEF TrackInv, TickInv

\* A round is dropped unclosed only when the task has left it behind.
LEMMA CloseRoundTrack ==
    ASSUME Inv, TrackInv, NEW t \in Tasks, CloseRound(t)
    PROVE  TrackInv'
<1>1. UNCHANGED board /\ log' = log /\ view' = view /\ offset' = offset /\ pc = "take"
  BY DEF CloseRound, Ticking, durable, board
<1>2. job = NoJob
  BY <1>1 DEF Inv, JobInv, JobShape
<1>3. CASE RoundStands(t)
  <2>1. job' = [NoJob EXCEPT !.from = "tick", !.task = t] /\ pc' = "plan" /\ rounds' = rounds
    BY <1>3 DEF CloseRound, Goto
  <2>2. job'.from = "tick" /\ job'.outs = << >>
    BY <2>1 DEF NoJob
  <2>3. TickInv' /\ Seen' = offset
    BY <1>1, <2>1, <2>2, RangeOfFew DEF TickInv, Seen
  <2>4. Seen' \in 0 .. Seen
    BY <2>3, SeenType DEF Inv, BaseInv
  <2>5. QED
    BY <1>1, <2>1, <2>3, <2>4, TrackSame
<1>4. CASE ~RoundStands(t)
  <2>1. rounds' = [rounds EXCEPT ![t] = None] /\ job' = job
    BY <1>4 DEF CloseRound, Drop
  <2>2. job.from = "none"
    BY <1>2 DEF NoJob
  <2>3. TickInv' /\ RoundsInTurn' /\ Seen' = Seen
    BY <1>1, <2>1, <2>2, TurnSame DEF TickInv, TrackInv, Seen
  <2>4. Tracked'
    <3>1. SUFFICES ASSUME NEW tr \in TaskRevs, NEW n \in 1 .. Seen, Open(view[tr]), OpenedAt(n, tr)
                   PROVE  rounds'[tr[1]] = [rev |-> tr[2], epoch |-> view[tr].epoch]
      BY <1>1, <2>3 DEF Tracked, OpenedAt
    <3>2. rounds[tr[1]] = [rev |-> tr[2], epoch |-> view[tr].epoch]
      BY <1>1, <3>1 DEF TrackInv, Tracked
    <3>3. tr[1] # t
      <4>1. SUFFICES ASSUME tr[1] = t PROVE FALSE
        OBVIOUS
      <4>2. RoundOf(t) = tr /\ rounds[t].epoch = view[tr].epoch
        BY <3>2, <4>1 DEF RoundOf, TaskRevs
      <4>3. QED
        BY <1>4, <3>1, <4>2 DEF RoundStands, Open
    <3>4. rounds = [x \in Tasks |-> rounds[x]] /\ tr[1] \in Tasks
      BY DEF Inv, RoundInv, RoundsShape, TaskRevs
    <3>5. QED
      BY <2>1, <3>2, <3>3, <3>4
  <2>5. QED
    BY <2>3, <2>4 DEF TrackInv
<1>5. QED
  BY <1>3, <1>4

LEMMA ChoosePlanTrack ==
    ASSUME Inv, TrackInv, ChoosePlan
    PROVE  TrackInv'
<1> DEFINE tr == RoundOf(job.task)
           ep == rounds[job.task].epoch
<1>1. /\ UNCHANGED board /\ offset' = offset /\ rounds' = rounds /\ pc = "plan" /\ pc' = "stage"
  BY DEF ChoosePlan, durable, memory, Goto
<1>2. PICK out : /\ job' = [job EXCEPT !.outs = <<out>>]
                 /\ (\E refs : out = Assigned(tr, ep, refs)) \/ out = Failed(tr, ep, 0)
  BY DEF ChoosePlan
<1>3. job \in JobType /\ job.from = "tick"
  BY <1>1 DEF Inv, JobInv, JobShape
<1>4. job'.from = "tick" /\ job'.task = job.task /\ job'.outs = <<out>>
  BY <1>2, <1>3 DEF JobType
<1>5. Closes(out, job.task)
  <2>1. tr = <<tr[1], tr[2]>>
    BY DEF RoundOf
  <2>2. CASE out = Failed(tr, ep, 0)
    <3>1. <<out.task, out.rev>> = tr /\ out.type \in TerminalTypes
      <4> HIDE DEF tr, ep
      <4> QED
        BY <2>1, <2>2 DEF Failed, TerminalTypes
    <3>2. QED
      BY <3>1 DEF Closes
  <2>3. ASSUME NEW refs, out = Assigned(tr, ep, refs) PROVE Closes(out, job.task)
    <3>1. <<out.task, out.rev>> = tr /\ out.type = "task_assigned" /\ out.epoch = ep
      <4> HIDE DEF tr, ep
      <4> QED
        BY <2>1, <2>3 DEF Assigned
    <3>2. QED
      BY <3>1 DEF Closes
  <2>4. QED
    BY <1>2, <2>2, <2>3
<1>6. TickInv'
  <2>1. PICK t : t = job.task
    OBVIOUS
  <2>2. Closes(out, t)'
    BY <1>1, <1>5, <2>1 DEF Closes, RoundOf
  <2>3. \A f \in Range(job'.outs) : f = out
    BY <1>4, RangeOfFew
  <2>4. QED
    BY <1>1, <1>4, <2>1, <2>2, <2>3 DEF TickInv
<1>7. Seen' \in 0 .. Seen
  <2>1. Seen' = Seen
    BY <1>1, <1>3, <1>4 DEF Seen
  <2>2. QED
    BY <2>1, SeenType
<1>8. QED
  BY <1>1, <1>6, <1>7, TrackSame

LEMMA AgentExitTrack ==
    ASSUME Inv, TrackInv, NEW tr \in TaskRevs, AgentExit(tr)
    PROVE  TrackInv'
<1>1. /\ UNCHANGED board /\ offset' = offset /\ rounds' = rounds /\ pc = "take"
      /\ job' = [NoJob EXCEPT !.from = "exit", !.outs = <<Failed(tr, view[tr].epoch, 0)>>]
  BY DEF AgentExit, Ticking, durable, memory
<1>2. job'.from = "exit"
  BY <1>1 DEF NoJob
<1>3. TickInv' /\ Seen' = offset
  BY <1>1, <1>2 DEF TickInv, Seen
<1>4. Seen' \in 0 .. Seen
  BY <1>3, SeenType DEF Inv, BaseInv
<1>5. QED
  BY <1>1, <1>3, <1>4, TrackSame

LEMMA FollowUpTrack ==
    ASSUME Inv, TrackInv, FollowUp
    PROVE  TrackInv'
<1>1. /\ UNCHANGED board /\ offset' = offset /\ rounds' = rounds /\ pc = "followup"
      /\ \E outs : job' = [job EXCEPT !.outs = outs, !.more = FALSE]
  BY DEF FollowUp, durable, memory
<1>2. job \in JobType /\ job.from = "input"
  BY <1>1 DEF Inv, JobInv, JobShape
<1>3. job'.from = "input" /\ job'.src = job.src
  <2>1. DOMAIN job = {"from", "src", "outs", "done", "task", "more"}
    BY <1>2 DEF JobType
  <2>2. QED
    BY <1>1, <1>2, <2>1
<1>4. TickInv' /\ Seen' = Seen
  BY <1>2, <1>3 DEF TickInv, Seen
<1>5. Seen' \in 0 .. Seen
  BY <1>4, SeenType
<1>6. QED
  BY <1>1, <1>4, <1>5, TrackSame

LEMMA StageTrack ==
    ASSUME Inv, TrackInv, Stage
    PROVE  TrackInv'
<1>1. /\ UNCHANGED board /\ offset' = offset /\ rounds' = rounds /\ pc = "stage"
  BY DEF Stage, memory
<1>2. CASE Current.key \in refused
  BY <1>1, <1>2, TrackIdle DEF Stage, Idle
<1>3. CASE Current.key \notin refused
  <2>1. job' = job /\ pc' = "append"
    BY <1>3 DEF Stage, Goto
  <2>2. TickInv' /\ Seen' = Seen
    BY <1>1, <2>1 DEF TrackInv, TickInv, Closes, RoundOf, Seen
  <2>3. Seen' \in 0 .. Seen
    BY <2>2, SeenType
  <2>4. QED
    BY <1>1, <2>2, <2>3, TrackSame
<1>4. QED
  BY <1>2, <1>3

LEMMA UnlinkTrack ==
    ASSUME Inv, TrackInv, Unlink
    PROVE  TrackInv'
<1>1. /\ UNCHANGED board /\ offset' = offset /\ rounds' = rounds /\ pc = "unlink" /\ job' = NoJob
  BY DEF Unlink, Idle, memory
<1>2. QED
  BY <1>1, TrackIdle

LEMMA SaveOffsetTrack ==
    ASSUME Inv, TrackInv, SaveOffset
    PROVE  TrackInv'
<1>1. UNCHANGED board /\ offset' = job.src /\ pc = "save"
  BY DEF SaveOffset
<1>2. job.from = "input"
  BY <1>1 DEF Inv, JobInv, JobShape
<1>3. rounds' = rounds /\ (job' = NoJob \/ job' = job)
  BY <1>2 DEF SaveOffset, Return, Idle
<1>4. job'.from \in {"none", "input"} /\ (job'.from = "input" => job'.src = job.src)
  BY <1>2, <1>3 DEF NoJob
<1>5. TickInv' /\ Seen' = Seen
  BY <1>1, <1>2, <1>4 DEF TickInv, Seen
<1>6. Seen' \in 0 .. Seen
  BY <1>5, SeenType
<1>7. QED
  BY <1>1, <1>3, <1>5, <1>6, TrackSame

\* The round that was closed is dropped: it is not open any more.
LEMMA ResolveTrack ==
    ASSUME Inv, EffectInv, TrackInv, Resolve
    PROVE  TrackInv'
<1>1. PICK k \in job.done :
        IF job.done = {k} THEN Return
        ELSE job' = [job EXCEPT !.done = @ \ {k}] /\ UNCHANGED <<rounds, pc>>
  BY DEF Resolve
<1>2. UNCHANGED board /\ log' = log /\ view' = view /\ offset' = offset /\ pc = "resolve"
  BY DEF Resolve, board
<1>3. job \in JobType
  BY DEF Inv, JobInv, JobShape
<1>4. CASE Return /\ job.from # "tick"
  <2>1. job' = NoJob /\ rounds' = rounds
    BY <1>4 DEF Return, Idle
  <2>2. QED
    BY <1>2, <2>1, TrackIdle
<1>5. CASE Return /\ job.from = "tick"
  <2>1. job' = NoJob /\ rounds' = [rounds EXCEPT ![job.task] = None]
    BY <1>5 DEF Return, Idle, Drop
  <2>2. job'.from = "none"
    BY <2>1 DEF NoJob
  <2>3. TickInv' /\ RoundsInTurn' /\ Seen' = offset /\ Seen = offset
    BY <1>2, <1>5, <2>2, TurnSame DEF TickInv, TrackInv, Seen
  <2>4. PICK t \in Tasks : t = job.task
    BY <1>5 DEF Inv, JobInv, JobShape
  <2>5. PICK f \in Event : Closes(f, t) /\ Lasting(view[<<f.task, f.rev>>], f)
    BY <1>2, <1>5, <2>4 DEF TrackInv, TickInv
  <2>6. Tracked'
    <3>1. SUFFICES ASSUME NEW tr \in TaskRevs, NEW n \in 1 .. Seen, Open(view[tr]), OpenedAt(n, tr)
                   PROVE  rounds'[tr[1]] = [rev |-> tr[2], epoch |-> view[tr].epoch]
      BY <1>2, <2>3 DEF Tracked, OpenedAt
    <3>2. rounds[tr[1]] = [rev |-> tr[2], epoch |-> view[tr].epoch]
      BY <1>2, <3>1 DEF TrackInv, Tracked
    <3>3. tr[1] # t
      <4>1. SUFFICES ASSUME tr[1] = t PROVE FALSE
        OBVIOUS
      <4>2. RoundOf(t) = tr /\ rounds[t].epoch = view[tr].epoch
        BY <3>2, <4>1 DEF RoundOf, TaskRevs
      <4>3. PICK v : v = view[tr]
        OBVIOUS
      <4>4. /\ Lasting(v, f) /\ Open(v)
            /\ f.type \in TerminalTypes \/ (f.type = "task_assigned" /\ f.epoch = v.epoch)
        BY <2>5, <3>1, <4>2, <4>3 DEF Closes
      <4>5. f.type = "task_assigned" /\ f.epoch = v.epoch /\ v.terminal = None /\ v.round # None
        BY <4>4 DEF Lasting, Open
      <4>6. v.epoch \in Nat /\ PlanOK(v, tr)
        BY <4>3 DEF Inv, LogInv, ViewsOK, View, EffectInv, LogTold
      <4>7. f.epoch < v.epoch \/ v.plan # None
        BY <4>4, <4>5 DEF Lasting
      <4>8. QED
        BY <4>5, <4>6, <4>7 DEF PlanOK
    <3>4. rounds = [x \in Tasks |-> rounds[x]] /\ tr[1] \in Tasks
      BY DEF Inv, RoundInv, RoundsShape, TaskRevs
    <3>5. QED
      BY <2>1, <2>4, <3>2, <3>3, <3>4
  <2>7. QED
    BY <2>3, <2>6 DEF TrackInv
<1>6. CASE job' = [job EXCEPT !.done = @ \ {k}] /\ rounds' = rounds /\ pc' = pc
  <2>1. job'.from = job.from /\ job'.src = job.src /\ job'.outs = job.outs /\ job'.task = job.task
    BY <1>3, <1>6 DEF JobType
  <2>2. TickInv' /\ Seen' = Seen
    BY <1>2, <1>6, <2>1 DEF TrackInv, TickInv, Closes, RoundOf, Seen
  <2>3. Seen' \in 0 .. Seen
    BY <2>2, SeenType
  <2>4. QED
    BY <1>2, <1>6, <2>2, <2>3, TrackSame
<1>7. QED
  BY <1>1, <1>4, <1>5, <1>6

LEMMA CrashTrack ==
    ASSUME Inv, TrackInv, Crash
    PROVE  TrackInv'
<1>1. UNCHANGED board /\ pc' = "down" /\ job' = NoJob
  BY DEF Crash, Idle, Goto
<1>2. job'.from = "none"
  BY <1>1 DEF NoJob
<1>3. QED
  BY <1>1, <1>2, TurnSame DEF TrackInv, Tracked, TickInv

\* An output whose key is taken, or whose task has ended, says what stays true.
SettledLasts ==
    LogInv /\ LogTold => \A c :
        Output(c) /\ (byKey[c.key] # 0 \/ byTerminal[<<c.task, c.rev>>] # 0)
        => Lasting(view[<<c.task, c.rev>>], c)

LEMMA SettledLastsHolds == SettledLasts
<1>1. SUFFICES ASSUME LogInv, LogTold, NEW c, Output(c),
                      byKey[c.key] # 0 \/ byTerminal[<<c.task, c.rev>>] # 0
               PROVE  Lasting(view[<<c.task, c.rev>>], c)
  BY DEF SettledLasts
<1>2. Named(c) /\ c \in Event /\ c.type \notin {"clue", "estop"}
  BY <1>1 DEF Output, Named, OutputTypes, TerminalTypes
<1>3. PICK tr \in TaskRevs : tr = <<c.task, c.rev>>
  BY <1>2, OwnTask
<1>4. CASE byKey[c.key] # 0
  <2>1. PICK h : h = log[byKey[c.key]]
    OBVIOUS
  <2>2. byKey[c.key] \in DOMAIN log /\ Named(h) /\ h.key = c.key
    BY <1>1, <1>2, <1>4, <2>1, Holder
  <2>3. h.task = c.task /\ h.rev = c.rev /\ h.type \notin {"clue", "estop"}
    BY <1>2, <2>2, SameKey DEF Named, OutputTypes, RobotTypes, TerminalTypes
  <2>4. Lasting(view[tr], h)
    BY <1>1, <1>3, <2>1, <2>2, <2>3 DEF LogTold
  <2>5. QED
    BY <1>2, <1>3, <2>2, <2>4, LastingAlike
<1>5. CASE byTerminal[tr] # 0
  BY <1>1, <1>3, <1>5 DEF LogTold, Lasting
<1>6. QED
  BY <1>1, <1>3, <1>4, <1>5

LEMMA AppendTrack ==
    ASSUME NamesAvailable, Inv, EffectInv, TrackInv, Inv', AppendOutput
    PROVE  TrackInv'
<1>1. offset' = offset /\ rounds' = rounds /\ pc = "append" /\ outbox' = outbox
  BY DEF AppendOutput, memory
<1>0. SUFFICES ASSUME Bd!Outcome(Staged) # "KEY_CONFLICT" PROVE TrackInv'
  <2>1. ASSUME Bd!Outcome(Staged) = "KEY_CONFLICT" PROVE UNCHANGED board /\ job' = NoJob
    BY <2>1 DEF AppendOutput, Idle
  <2>2. QED
    BY <1>1, <2>1, TrackIdle
<1>2. LogInv /\ FileInv /\ JobInv /\ job \in JobType
  BY DEF Inv, JobInv, JobShape
<1>3. PICK c : c = Current
  OBVIOUS
<1>4. PICK e : e = Staged
  OBVIOUS
<1>5. /\ Output(c) /\ Named(c) /\ c \in Event /\ c \in Range(job.outs)
      /\ Known(e) /\ c.key \in Keys /\ e = outbox[c.key].event /\ e.task = c.task /\ e.rev = c.rev
  <2>1. Output(c) /\ c = job.outs[1] /\ 1 \in DOMAIN job.outs
    BY <1>1, <1>2, <1>3, CurrentOK
  <2>2. Known(e) /\ c.key \in Keys /\ e = outbox[c.key].event /\ e.task = c.task /\ e.rev = c.rev
    BY <1>1, <1>2, <1>3, <1>4, StagedOK DEF Staged
  <2>3. QED
    BY <2>1, <2>2 DEF Output, Named, Range
<1>6. \/ Bd!Outcome(e) = "APPENDED" /\ Bd!Commit(e) /\ Published
      \/ UNCHANGED board /\ Published
      \/ UNCHANGED board /\ job' = job /\ pc' = "unlink"
  <2>1. PICK o : o = Bd!Outcome(Staged)
    OBVIOUS
  <2>2. o \in {"APPENDED", "DUPLICATE_SAME", "TERMINAL_CONFLICT", "REJECTED", "KEY_CONFLICT"}
    BY <2>1, OutcomeRange
  <2>3. o # "KEY_CONFLICT"
    BY <1>0, <2>1
  <2>4. QED
    BY <1>4, <2>1, <2>2, <2>3 DEF AppendOutput, Goto
<1>7. Published =>
         /\ job'.from = job.from /\ job'.src = job.src /\ job'.task = job.task
         /\ job'.done = job.done \cup {c.key}
         /\ job.src = 0 => pc' = "resolve"
  <2>1. job.src = 0 => ~(Len(job.outs) > 1)
    <3>1. Len(job.outs) \in Nat
      BY <1>2 DEF JobType
    <3>2. job.src = 0 => Len(job.outs) <= 1
      BY <1>2 DEF JobInv, JobShape
    <3>3. QED
      BY <3>1, <3>2
  <2>2. Published /\ job.src = 0 => pc' = "resolve"
    BY <2>1 DEF Published, Goto
  <2>3. DOMAIN job = {"from", "src", "outs", "done", "task", "more"}
    BY <1>2 DEF JobType
  <2>4. QED
    BY <1>3, <2>2, <2>3 DEF Published
<1>8. job'.from = job.from /\ job'.src = job.src /\ job'.task = job.task
  BY <1>6, <1>7
<1>9. RoundsInTurn' /\ Tracked'
  <2>1. Seen' = Seen
    BY <1>1, <1>8 DEF Seen
  <2>2. Seen' \in 0 .. Seen
    BY <2>1, SeenType
  <2>3. CASE Bd!Outcome(e) = "APPENDED" /\ Bd!Commit(e)
    BY <1>1, <1>2, <1>5, <2>2, <2>3, TurnCommit, TrackedCommit DEF TrackInv
  <2>4. CASE UNCHANGED board
    BY <1>1, <2>2, <2>4, TurnSame, TrackedSame DEF TrackInv
  <2>5. QED
    BY <1>6, <2>3, <2>4
<1>10. TickInv'
  <2>1. SUFFICES ASSUME job.from = "tick" PROVE TickInv'
    BY <1>8 DEF TickInv
  <2>2. PICK t : t = job.task
    OBVIOUS
  <2>3. \A f : Closes(f, t) => Closes(f, t)'
    BY <1>1 DEF Closes, RoundOf
  <2>4. \A f \in Range(job.outs) : Closes(f, t)
    BY <2>1, <2>2 DEF TrackInv, TickInv
  <2>5. CASE job' = job /\ pc' = "unlink"
    BY <2>2, <2>3, <2>4, <2>5 DEF TickInv
  <2>6. CASE Published
    <3>1. job.src = 0
      BY <1>2, <2>1 DEF JobInv, JobShape
    <3>2. pc' = "resolve" /\ job'.outs = << >>
      BY <1>7, <2>6, <3>1 DEF Inv, JobInv, JobShape
    <3>3. byKey'[c.key] # 0 \/ byTerminal'[<<c.task, c.rev>>] # 0
      <4>1. DoneOK(c.key)'
        BY <1>7, <2>6 DEF Inv, JobInv
      <4>2. byKey'[c.key] # 0 \/ Settled(e)'
        BY <1>1, <1>5, <4>1 DEF DoneOK
      <4>3. QED
        BY <1>5, <4>2 DEF Settled
    <3>4. Lasting(view'[<<c.task, c.rev>>], c)
      <4>1. SettledLasts'
        BY SettledLastsHolds, PTL
      <4>2. LogInv' /\ LogTold'
        BY AppendEffect DEF Inv, EffectInv
      <4>3. QED
        BY <1>5, <3>3, <4>1, <4>2 DEF SettledLasts, Output, Named
    <3>5. Closes(c, t)'
      BY <1>5, <2>3, <2>4
    <3>6. QED
      BY <1>5, <1>8, <2>2, <3>2, <3>4, <3>5, RangeOfFew DEF TickInv
  <2>7. QED
    BY <1>6, <2>5, <2>6
<1>11. QED
  BY <1>9, <1>10 DEF TrackInv

-----------------------------------------------------------------------------
(* The whole.                                                              *)

LEMMA InitTrack == Init => TrackInv
<1>1. SUFFICES ASSUME Init PROVE TrackInv
  OBVIOUS
<1>2. pc = "down" /\ job = NoJob /\ log = << >>
  BY <1>1 DEF Init, Bd!Init
<1>3. job.from = "none" /\ DOMAIN log = {}
  BY <1>2 DEF NoJob
<1>4. QED
  BY <1>2, <1>3 DEF TrackInv, RoundsInTurn, Tracked, TickInv

LEMMA OthersTrack ==
    ASSUME NamesAvailable, Inv, EffectInv, TrackInv,
           (\E e \in Offered : External(e)) \/ Submit \/ Report \/ Intercept
    PROVE  TrackInv'
<1>1. SUFFICES ASSUME NEW e, Known(e), Arrive(e) PROVE TrackInv'
  <2>1. ASSUME NEW f \in Offered, External(f) PROVE Known(f) /\ Arrive(f)
    BY <2>1, OfferedAssumption DEF External, Known
  <2>2. ASSUME Submit PROVE \E f : Known(f) /\ Arrive(f)
    <3>1. PICK w \in decided : Arrive(AgentEvent("action_intent", w))
      BY <2>2 DEF Submit
    <3>2. Named(AgentEvent("action_intent", w))
      BY AgentNamed DEF Inv, BaseInv
    <3>3. QED
      BY <3>1, <3>2 DEF Known, Named
  <2>3. ASSUME Report PROVE \E f : Known(f) /\ Arrive(f)
    <3>1. PICK n \in DOMAIN log, good \in BOOLEAN :
             log[n].type = "action_intent" /\ Arrive(Receipt(log[n], good))
      BY <2>3 DEF Report
    <3>2. Named(Receipt(log[n], good))
      BY <3>1, IntentShape, ReceiptNamed
    <3>3. QED
      BY <3>1, <3>2 DEF Known, Named
  <2>4. ASSUME Intercept PROVE \E f : Known(f) /\ Arrive(f)
    <3>1. PICK n \in DOMAIN log :
             log[n].type = "action_intent" /\ Arrive(AgentEvent("safety_intercept", log[n]))
      BY <2>4 DEF Intercept
    <3>2. Named(AgentEvent("safety_intercept", log[n]))
      BY <3>1, IntentShape, AgentNamed
    <3>3. QED
      BY <3>1, <3>2 DEF Known, Named
  <2>5. QED
    BY <1>1, <2>1, <2>2, <2>3, <2>4
<1>2. QED
  BY <1>1, TrackOthers DEF Arrive

LEMMA NextTrack ==
    ASSUME NamesAvailable, OneRevision, Inv, EffectInv, TrackInv, [Next]_vars
    PROVE  TrackInv'
<1>0. Inv'
  BY NextInv
<1>1. CASE Working
  BY <1>0, <1>1, RecoverTrack, ReplayTrack, PollTrack, TakeTrack, FollowUpTrack,
     ChoosePlanTrack, StageTrack, AppendTrack, UnlinkTrack, SaveOffsetTrack,
     ResolveTrack DEF Working
<1>2. ASSUME NEW t \in Tasks, CloseRound(t) PROVE TrackInv'
  BY <1>2, CloseRoundTrack
<1>3. ASSUME NEW tr \in TaskRevs, AgentExit(tr) PROVE TrackInv'
  BY <1>3, AgentExitTrack
<1>4. CASE Crash
  BY <1>4, CrashTrack
<1>5. CASE (\E e \in Offered : External(e)) \/ Submit \/ Report \/ Intercept
  BY <1>5, OthersTrack
<1>6. CASE Decide \/ UNCHANGED vars
  <2>1. UNCHANGED board /\ log' = log /\ view' = view /\ offset' = offset
        /\ rounds' = rounds /\ pc' = pc /\ job' = job
    BY <1>6 DEF Decide, vars, board, durable, memory
  <2>2. QED
    BY <2>1 DEF TrackInv, RoundsInTurn, Tracked, Seen, OpenedAt, TickInv, Closes, RoundOf
<1>7. QED
  BY <1>1, <1>2, <1>3, <1>4, <1>5, <1>6 DEF Next

\* With one revision of each task, no open round is forgotten: one whose opening
\* was read is on the list of rounds to close, whatever crashed in between.
THEOREM RoundsTracked == NamesAvailable /\ OneRevision => (Spec => []OpenRoundTracked)
<1>1. SUFFICES ASSUME NamesAvailable, OneRevision PROVE Spec => []OpenRoundTracked
  OBVIOUS
<1>2. Init => Inv /\ EffectInv /\ TrackInv
  BY InitInv, InitEffect, InitTrack
<1>3. Inv /\ EffectInv /\ TrackInv /\ [Next]_vars => (Inv /\ EffectInv /\ TrackInv)'
  BY <1>1, NextInv, NextEffect, NextTrack
<1>4. Inv /\ TrackInv => OpenRoundTracked
  <2>1. SUFFICES ASSUME Inv, TrackInv, pc \in {"poll", "take"}, NEW tr \in TaskRevs, Open(view[tr]),
                        NEW n \in 1 .. offset, OpenedAt(n, tr)
                 PROVE  rounds[tr[1]] = [rev |-> tr[2], epoch |-> view[tr].epoch]
    BY DEF OpenRoundTracked, Open, OpenedAt, OfType
  <2>2. job = NoJob
    BY <2>1 DEF Inv, JobInv, JobShape
  <2>3. Seen = offset
    BY <2>2 DEF Seen, NoJob
  <2>4. QED
    BY <2>1, <2>3 DEF TrackInv, Tracked
<1>5. QED
  BY <1>2, <1>3, <1>4, PTL DEF Spec

-----------------------------------------------------------------------------
(* Clues are pursued, as long as the Coordinator does not crash.           *)

\* Position m reports an action of the current plan of the task revision.
Reports(m, tr) ==
    /\ log[m].type \in {"receipt", "safety_intercept"}
    /\ view[tr].plan # None /\ log[m].plan = view[tr].plan.id

\* Somebody will come back to the clues pending for tr, once the log was handled
\* up to n: an action of the plan is in flight, or its report was not read yet.
Expected(tr, n) == InFlight(tr) \/ \E m \in DOMAIN log : m > n /\ Reports(m, tr)

\* The clues pending for tr are pursued when the log was handled up to n.
Covered(tr, n) ==
    ReplanPending(view[tr]) =>
        IF view[tr].plan = None THEN \A c \in view[tr].pending : byId[c] > n
        ELSE Expected(tr, n) \/ \E c \in view[tr].pending : byId[c] > n

\* What a replan that is still to be published leaves pending is news.
Answers(f) ==
    byKey[f.key] = 0 =>
        \A c \in view[<<f.task, f.rev>>].pending :
            c \in f.refs \/ c = f.cause \/ byId[c] > job.src

\* What the input in hand leaves open for tr: a replan to publish, a receipt to
\* follow up, or a report that ends the task.
Owed(tr) ==
    \/ Covered(tr, job.src)
    \/ \E f \in Range(job.outs) : OfType(f, "task_replan", tr) /\ byKey[f.key] = 0
    \/ job.more /\ <<log[job.src].task, log[job.src].rev>> = tr
    \/ Reports(job.src, tr) /\ (log[job.src].type = "receipt" => ~log[job.src].good)

CluesInHand ==
    IF job.from = "input"
    THEN /\ \A tr \in TaskRevs : Owed(tr)
         /\ \A f \in Range(job.outs) : f.type = "task_replan" => Answers(f)
         /\ pc = "save" => ~job.more
    ELSE \A f \in Range(job.outs) : f.type # "task_replan"

\* A file with a replan that is not on the Blackboard is the one in hand.
ReplansFiled ==
    \A k \in Keys : outbox[k] # None /\ outbox[k].event.type = "task_replan" =>
        \/ byKey[k] # 0
        \/ /\ pc \in {"append", "unlink"}
           /\ Current.key = k /\ outbox[k].event = Current

FirstRun ==
    /\ job.from # "replay"
    /\ pc \in {"down", "replay"} => \A k \in Keys : outbox[k] = None

Pursued ==
    crashes = 0 =>
        /\ \A tr \in TaskRevs : Covered(tr, offset)
        /\ CluesInHand /\ ReplansFiled /\ FirstRun

\* What is pending for a task is a clue about it.
PendingClues ==
    \A tr \in TaskRevs : \A c \in view[tr].pending :
        /\ byId[c] \in DOMAIN log /\ log[byId[c]].id = c
        /\ log[byId[c]].type = "clue" /\ log[byId[c]].task = tr[1]

ClueInv == PendingClues /\ Pursued

\* A commit: what is pending now was pending, or is the clue committed.
LEMMA PendingCommit ==
    ASSUME LogInv, PendingClues, NEW e, Known(e), Bd!Outcome(e) = "APPENDED", Bd!Commit(e),
           NEW tr \in TaskRevs, NEW c \in view'[tr].pending
    PROVE  \/ c \in view[tr].pending /\ byId'[c] = byId[c]
           \/ /\ e.type = "clue" /\ c = e.id /\ e.task = tr[1]
              /\ byId'[c] = Len(log) + 1
<1>0. e \in Event
  BY DEF Known
<1>1. /\ byId' = [byId EXCEPT ![e.id] = Len(log) + 1] /\ byId[e.id] = 0
      /\ e.id \in EventIds /\ byId \in [EventIds -> Nat]
  BY <1>0, Committed, EventShape DEF LogInv, IndexesOK
<1>2. /\ view[tr] \in View
      /\ view'[tr] = view[tr] \/ (view'[tr] = Apply(view[tr], e) /\ Accepted(view[tr], e)
                                  /\ tr = Bd!Target(e))
  BY <1>0, ViewStep
<1>3. c \in view[tr].pending \/ (e.type = "clue" /\ c = e.id /\ tr = Bd!Target(e))
  BY <1>0, <1>2, PendingShrinks
<1>4. CASE c \in view[tr].pending
  <2>1. byId[c] \in DOMAIN log /\ c \in EventIds
    BY <1>2, <1>4 DEF PendingClues, View
  <2>2. byId[c] # 0
    BY <2>1 DEF LogInv, LogShape
  <2>3. QED
    BY <1>1, <1>4, <2>1, <2>2
<1>5. CASE e.type = "clue" /\ c = e.id /\ tr = Bd!Target(e)
  <2>1. tr[1] = e.task
    BY <1>5 DEF Bd!Target
  <2>2. QED
    BY <1>1, <1>5, <2>1
<1>6. QED
  BY <1>3, <1>4, <1>5

LEMMA PendingCluesCommit ==
    ASSUME LogInv, PendingClues, NEW e, Known(e), Bd!Outcome(e) = "APPENDED", Bd!Commit(e)
    PROVE  PendingClues'
<1>1. e \in Event /\ Len(log) \in Nat
      /\ (\A n \in DOMAIN log : log'[n] = log[n] /\ n \in DOMAIN log')
      /\ log'[Len(log) + 1] = e /\ Len(log) + 1 \in DOMAIN log'
  <2>1. e \in Event
    BY DEF Known
  <2>2. QED
    BY <2>1, Grows
<1>2. SUFFICES ASSUME NEW tr \in TaskRevs, NEW c \in view'[tr].pending
               PROVE  /\ byId'[c] \in DOMAIN log' /\ log'[byId'[c]].id = c
                      /\ log'[byId'[c]].type = "clue" /\ log'[byId'[c]].task = tr[1]
  BY DEF PendingClues
<1>3. CASE c \in view[tr].pending /\ byId'[c] = byId[c]
  BY <1>1, <1>3 DEF PendingClues
<1>4. CASE e.type = "clue" /\ c = e.id /\ e.task = tr[1] /\ byId'[c] = Len(log) + 1
  BY <1>1, <1>4
<1>5. QED
  BY <1>2, <1>3, <1>4, PendingCommit

LEMMA SameActionFields ==
    ASSUME NEW i, NEW f
    PROVE  SameAction(i, f) <=>
             /\ i.task = f.task /\ i.rev = f.rev /\ i.epoch = f.epoch
             /\ i.plan = f.plan /\ i.asg = f.asg
  BY DEF SameAction

\* While the plan stays, whoever is to come back does.
LEMMA ExpectedCommit ==
    ASSUME LogInv, NEW e, Known(e), Bd!Outcome(e) = "APPENDED", Bd!Commit(e),
           NEW tr \in TaskRevs, NEW n \in 0 .. Len(log), view'[tr].plan = view[tr].plan,
           Expected(tr, n)
    PROVE  Expected(tr, n)'
<1>1. e \in Event /\ Len(log) \in Nat /\ DOMAIN log = 1 .. Len(log)
      /\ (\A m \in DOMAIN log : log'[m] = log[m] /\ m \in DOMAIN log')
      /\ log'[Len(log) + 1] = e /\ Len(log) + 1 \in DOMAIN log'
      /\ (\A m \in DOMAIN log' : m \in DOMAIN log \/ (m = Len(log) + 1 /\ log'[m] = e))
  <2>1. e \in Event
    BY DEF Known
  <2>2. QED
    BY <2>1, Grows
<1>2. CASE \E m \in DOMAIN log : m > n /\ Reports(m, tr)
  BY <1>1, <1>2 DEF Expected, Reports
<1>3. CASE InFlight(tr)
  <2>1. PICK m \in DOMAIN log :
          /\ log[m].type = "action_intent" /\ <<log[m].task, log[m].rev>> = tr
          /\ view[tr].plan # None /\ log[m].plan = view[tr].plan.id
          /\ \A k \in DOMAIN log :
                log[k].type \in {"receipt", "safety_intercept"} => ~SameAction(log[m], log[k])
    BY <1>3 DEF InFlight
  <2>2. m \in DOMAIN log' /\ log'[m] = log[m]
    BY <1>1
  <2>3. CASE e.type \in {"receipt", "safety_intercept"} /\ SameAction(log[m], e)
    <3>1. e.plan = log[m].plan
      BY <2>3, SameActionFields
    <3>2. PICK p \in DOMAIN log' : p = Len(log) + 1 /\ log'[p] = e
      BY <1>1
    <3>3. Reports(p, tr)'
      BY <2>1, <2>3, <3>1, <3>2 DEF Reports
    <3>4. p > n
      BY <1>1, <3>2
    <3>5. QED
      BY <3>2, <3>3, <3>4 DEF Expected
  <2>4. CASE ~(e.type \in {"receipt", "safety_intercept"} /\ SameAction(log[m], e))
    <3>1. ASSUME NEW k \in DOMAIN log', log'[k].type \in {"receipt", "safety_intercept"}
          PROVE  ~SameAction(log'[m], log'[k])
      BY <1>1, <2>1, <2>2, <2>4, <3>1
    <3>2. InFlight(tr)'
      BY <2>1, <2>2, <3>1 DEF InFlight
    <3>3. QED
      BY <3>2 DEF Expected
  <2>5. QED
    BY <2>3, <2>4
<1>4. QED
  BY <1>2, <1>3 DEF Expected

\* A commit keeps the pending clues pursued: a new one is unread, a plan that is
\* replaced has read all but the news.
LEMMA CoveredCommit ==
    ASSUME LogInv, PendingClues, NEW e, Known(e), Bd!Outcome(e) = "APPENDED", Bd!Commit(e),
           NEW tr \in TaskRevs, NEW n \in 0 .. Len(log),
           ~OfType(e, "task_replan", tr) => Covered(tr, n),
           OfType(e, "task_replan", tr) =>
               \A c \in view[tr].pending : c \in e.refs \/ c = e.cause \/ byId[c] > n
    PROVE  Covered(tr, n)'
<1>0. e \in Event /\ Len(log) \in Nat
  BY Grows DEF Known
<1>1. SUFFICES ASSUME view'[tr].pending # {}, view'[tr].terminal = None PROVE Covered(tr, n)'
  BY DEF Covered, ReplanPending
<1>2. /\ view[tr] \in View
      /\ \/ view'[tr] = view[tr] /\ tr # Bd!Target(e)
         \/ view'[tr] = Apply(view[tr], e) /\ Accepted(view[tr], e) /\ tr = Bd!Target(e)
  BY <1>0, ViewStep
<1>3. view[tr].terminal = None
  BY <1>1, <1>2, Frozen
<1>4. Len(log) + 1 > n
  BY <1>0
<1>5. CASE OfType(e, "task_replan", tr)
  <2>1. Bd!Target(e) = tr
    BY <1>0, <1>5, ViewStep DEF OfType
  <2>2. view'[tr].plan = None /\ view'[tr].pending = view[tr].pending \ (e.refs \cup {e.cause})
    BY <1>0, <1>2, <1>5, <2>1, ReplanApplies DEF OfType
  <2>3. \A c \in view'[tr].pending : byId'[c] > n
    <3>1. SUFFICES ASSUME NEW c \in view'[tr].pending PROVE byId'[c] > n
      OBVIOUS
    <3>2. e.type # "clue"
      BY <1>5 DEF OfType
    <3>3. byId'[c] = byId[c]
      BY <3>2, PendingCommit
    <3>4. QED
      BY <1>5, <2>2, <3>3
  <2>4. QED
    BY <2>2, <2>3 DEF Covered
<1>6. CASE ~OfType(e, "task_replan", tr)
  <2>0. Covered(tr, n)
    BY <1>6
  <2>1. ~(tr = Bd!Target(e) /\ e.type = "task_replan")
    <3>1. e.type = "task_replan" => Bd!Target(e) = <<e.task, e.rev>>
      BY <1>0, Committed
    <3>2. QED
      BY <1>6, <3>1 DEF OfType
  <2>2. CASE view[tr].pending = {}
    <3>1. ASSUME NEW c \in view'[tr].pending PROVE byId'[c] > n
      BY <1>4, <2>2, <3>1, PendingCommit
    <3>2. QED
      BY <1>1, <3>1 DEF Covered
  <2>3. CASE view[tr].pending # {} /\ view[tr].plan = None
    <3>1. \A c \in view[tr].pending : byId[c] > n
      BY <1>3, <2>0, <2>3 DEF Covered, ReplanPending
    <3>2. ASSUME NEW c \in view'[tr].pending PROVE byId'[c] > n
      BY <1>4, <3>1, <3>2, PendingCommit
    <3>3. QED
      BY <1>1, <3>2 DEF Covered
  <2>4. CASE view[tr].pending # {} /\ view[tr].plan # None
    <3>1. view'[tr].plan = view[tr].plan /\ view[tr].pending \subseteq view'[tr].pending
      <4>1. CASE view'[tr] = view[tr]
        BY <4>1
      <4>2. CASE view'[tr] = Apply(view[tr], e) /\ Accepted(view[tr], e) /\ tr = Bd!Target(e)
        <5>1. PICK v : v = view[tr]
          OBVIOUS
        <5>2. /\ v \in View /\ Accepted(v, e) /\ v.terminal = None /\ v.plan # None
              /\ Apply(v, e).terminal = None /\ ViewOK(v)
              /\ v.round # None => v.round.epoch = v.epoch /\ v.epoch # 0
          BY <1>0, <1>1, <1>2, <1>3, <2>4, <4>2, <5>1, ViewStep
        <5>3. e.type \notin {"task_replan", "task_assigned", "bid_round_opened"}
          BY <1>0, <2>1, <4>2, <5>2, AssignedApplies, RoundApplies
        <5>4. Apply(v, e).plan = v.plan
          <6>1. CASE e.type = "assignment_completed"
            BY <1>0, <5>2, <6>1, CompletedApplies
          <6>2. CASE e.type # "assignment_completed"
            BY <1>0, <5>2, <5>3, <6>2, OthersKeepPlan DEF PlanTypes
          <6>3. QED
            BY <6>1, <6>2
        <5>5. v.pending \subseteq Apply(v, e).pending
          BY <1>0, <5>2, <5>3, PendingApplies
        <5>6. QED
          BY <4>2, <5>1, <5>4, <5>5
      <4>3. QED
        BY <1>2, <4>1, <4>2
    <3>2. CASE Expected(tr, n)
      <4>1. Expected(tr, n)'
        BY <3>1, <3>2, ExpectedCommit
      <4>2. QED
        BY <2>4, <3>1, <4>1 DEF Covered
    <3>3. CASE \E c \in view[tr].pending : byId[c] > n
      <4>1. PICK c \in view[tr].pending : byId[c] > n
        BY <3>3
      <4>2. c \in view'[tr].pending /\ byId'[c] > n
        BY <1>4, <3>1, <4>1, PendingCommit
      <4>3. QED
        BY <2>4, <3>1, <4>2 DEF Covered
    <3>4. QED
      BY <1>3, <2>0, <2>4, <3>2, <3>3 DEF Covered, ReplanPending
  <2>5. QED
    BY <2>2, <2>3, <2>4
<1>7. QED
  BY <1>5, <1>6

\* A plan goes only with a replan.
LEMMA PlanStays ==
    ASSUME LogInv, NEW e, Known(e), Bd!Outcome(e) = "APPENDED", Bd!Commit(e),
           NEW tr \in TaskRevs, view[tr].plan # None, ~OfType(e, "task_replan", tr)
    PROVE  view'[tr].plan = view[tr].plan
<1>0. e \in Event
  BY DEF Known
<1>1. PICK v : v = view[tr]
  OBVIOUS
<1>2. /\ v \in View /\ v.plan # None
      /\ v.round # None => v.round.epoch = v.epoch /\ v.epoch # 0
      /\ \/ view'[tr] = v
         \/ view'[tr] = Apply(v, e) /\ Accepted(v, e) /\ tr = Bd!Target(e)
  BY <1>0, <1>1, ViewStep
<1>3. CASE view'[tr] = Apply(v, e) /\ Accepted(v, e) /\ tr = Bd!Target(e)
  <2>1. e.type # "task_replan"
    BY <1>0, <1>3, Committed DEF OfType
  <2>2. e.type \notin {"task_assigned", "bid_round_opened"}
    BY <1>0, <1>2, <1>3, AssignedApplies, RoundApplies
  <2>3. CASE e.type = "assignment_completed"
    BY <1>0, <1>1, <1>2, <1>3, <2>3, CompletedApplies
  <2>4. CASE e.type # "assignment_completed"
    BY <1>0, <1>1, <1>2, <1>3, <2>1, <2>2, <2>4, OthersKeepPlan DEF PlanTypes
  <2>5. QED
    BY <2>3, <2>4
<1>4. QED
  BY <1>1, <1>2, <1>3

\* What the input in hand leaves open stays so, or is seen to, across a commit.
LEMMA OwedCommit ==
    ASSUME LogInv, PendingClues, NEW e, Known(e), Bd!Outcome(e) = "APPENDED", Bd!Commit(e),
           NEW tr \in TaskRevs, job.src \in DOMAIN log, Owed(tr),
           job'.src = job.src, job'.more = job.more,
           OfType(e, "task_replan", tr) =>
               \A c \in view[tr].pending : c \in e.refs \/ c = e.cause \/ byId[c] > job.src,
           \A f \in Range(job.outs) :
               OfType(f, "task_replan", tr) /\ byKey[f.key] = 0 =>
                   \/ OfType(e, "task_replan", tr)
                   \/ f \in Range(job'.outs) /\ byKey'[f.key] = 0
    PROVE  Owed(tr)'
<1>0. e \in Event /\ Len(log) \in Nat /\ DOMAIN log = 1 .. Len(log)
      /\ \A m \in DOMAIN log : log'[m] = log[m]
  BY Grows DEF Known
<1>1. PICK n \in 0 .. Len(log) : n = job.src /\ n \in DOMAIN log
  BY <1>0
<1>2. CASE OfType(e, "task_replan", tr) \/ Covered(tr, n)
  <2>1. OfType(e, "task_replan", tr) =>
           \A c \in view[tr].pending : c \in e.refs \/ c = e.cause \/ byId[c] > n
    BY <1>1
  <2>2. CASE OfType(e, "task_replan", tr)
    <3>1. Covered(tr, n)'
      BY <2>1, <2>2, CoveredCommit
    <3>2. QED
      BY <1>1, <3>1 DEF Owed
  <2>3. CASE ~OfType(e, "task_replan", tr) /\ Covered(tr, n)
    <3>1. Covered(tr, n)'
      BY <2>3, CoveredCommit
    <3>2. QED
      BY <1>1, <3>1 DEF Owed
  <2>4. QED
    BY <1>2, <2>2, <2>3
<1>3. CASE ~OfType(e, "task_replan", tr) /\ ~Covered(tr, n)
  <2>1. CASE \E f \in Range(job.outs) : OfType(f, "task_replan", tr) /\ byKey[f.key] = 0
    <3>1. PICK f \in Range(job.outs) : OfType(f, "task_replan", tr) /\ byKey[f.key] = 0
      BY <2>1
    <3>2. f \in Range(job'.outs) /\ byKey'[f.key] = 0
      BY <1>3, <3>1
    <3>3. \E g \in Range(job'.outs) : OfType(g, "task_replan", tr) /\ byKey'[g.key] = 0
      BY <3>1, <3>2
    <3>4. QED
      BY <3>3 DEF Owed
  <2>2. CASE job.more /\ <<log[job.src].task, log[job.src].rev>> = tr
    BY <1>0, <1>1, <2>2 DEF Owed
  <2>3. CASE Reports(n, tr) /\ (log[n].type = "receipt" => ~log[n].good)
    <3>1. view'[tr].plan = view[tr].plan
      BY <1>3, <2>3, PlanStays DEF Reports
    <3>2. Reports(n, tr)' /\ (log'[n].type = "receipt" => ~log'[n].good)
      BY <1>0, <1>1, <2>3, <3>1 DEF Reports
    <3>3. QED
      BY <1>1, <3>2 DEF Owed
  <2>4. QED
    BY <1>1, <1>3, <2>1, <2>2, <2>3 DEF Owed
<1>4. QED
  BY <1>2, <1>3

LEMMA AnswersCommit ==
    ASSUME LogInv, PendingClues, NEW e, Known(e), Bd!Outcome(e) = "APPENDED", Bd!Commit(e),
           NEW f, Output(f), Answers(f), job.src \in 0 .. Len(log), job'.src = job.src
    PROVE  Answers(f)'
<1>0. e \in Event /\ Len(log) \in Nat /\ f.key \in Keys
  BY Grows DEF Known, Output, Named
<1>1. PICK tr \in TaskRevs : tr = <<f.task, f.rev>>
  BY TerminalRev
<1>2. SUFFICES ASSUME byKey'[f.key] = 0, NEW c \in view'[tr].pending
               PROVE  c \in f.refs \/ c = f.cause \/ byId'[c] > job.src
  BY <1>1 DEF Answers
<1>3. byKey[f.key] = 0
  BY <1>0, <1>2, KeysGrow
<1>4. c \in view[tr].pending => c \in f.refs \/ c = f.cause \/ byId[c] > job.src
  BY <1>1, <1>3 DEF Answers
<1>5. Len(log) + 1 > job.src
  BY <1>0
<1>6. QED
  BY <1>4, <1>5, PendingCommit

\* Somebody else appends an event.
LEMMA CluesOthers ==
    ASSUME Inv, ClueInv, NEW e, Known(e), e \in Offered \/ e.type \in RobotTypes,
           Bd!Outcome(e) = "APPENDED", Bd!Commit(e),
           UNCHANGED <<durable, memory, pc, job, crashes>>
    PROVE  ClueInv'
<1>0. /\ e \in Event /\ LogInv /\ PendingClues /\ Len(log) \in Nat /\ DOMAIN log = 1 .. Len(log)
      /\ offset' = offset /\ outbox' = outbox /\ pc' = pc /\ job' = job /\ crashes' = crashes
      /\ offset \in 0 .. Len(log) /\ job.src \in 0 .. Len(log)
  BY LogLength DEF Known, Inv, ClueInv, durable, memory, BaseInv, JobInv, JobShape
<1>1. e.type # "task_replan"
  BY OfferedAssumption DEF RobotTypes
<1>2. PendingClues'
  BY <1>0, PendingCluesCommit
<1>3. SUFFICES ASSUME crashes = 0 PROVE Pursued'
  BY <1>0, <1>2 DEF ClueInv, Pursued
<1>4. CluesInHand /\ ReplansFiled /\ FirstRun /\ \A tr \in TaskRevs : Covered(tr, offset)
  BY <1>3 DEF ClueInv, Pursued
<1>5. \A f \in Range(job.outs) : f \in Event /\ Output(f) /\ f.key \in Keys
                                 /\ byKey'[f.key] = byKey[f.key]
  <2>1. SUFFICES ASSUME NEW i \in DOMAIN job.outs
                 PROVE  /\ Output(job.outs[i]) /\ Named(job.outs[i])
                        /\ byKey'[job.outs[i].key] = byKey[job.outs[i].key]
    BY DEF Range, Output, Named
  <2>2. Output(job.outs[i])
    BY DEF Inv, JobInv, OutOK
  <2>3. PICK f : f = job.outs[i]
    OBVIOUS
  <2>4. byKey'[f.key] = byKey[f.key]
    BY <1>0, <2>2, <2>3, OutputKind, OthersKeep
  <2>5. QED
    BY <2>2, <2>3, <2>4 DEF Output
<1>6. ASSUME NEW tr \in TaskRevs PROVE Covered(tr, offset)'
  <2>1. PICK n \in 0 .. Len(log) : n = offset
    BY <1>0
  <2>2. Covered(tr, n)'
    BY <1>0, <1>1, <1>4, <2>1, CoveredCommit DEF OfType
  <2>3. QED
    BY <1>0, <2>1, <2>2
<1>7. CluesInHand'
  <2>1. CASE job.from = "input"
    <3>0. job.src \in DOMAIN log
      BY <1>0, <2>1 DEF Inv, JobInv, JobShape
    <3>1. ASSUME NEW tr \in TaskRevs PROVE Owed(tr)'
      <4>1. Owed(tr)
        BY <1>4, <2>1 DEF CluesInHand
      <4>2. ~OfType(e, "task_replan", tr)
        BY <1>1 DEF OfType
      <4>3. \A f \in Range(job.outs) : byKey[f.key] = 0 => f \in Range(job'.outs) /\ byKey'[f.key] = 0
        BY <1>0, <1>5
      <4>4. QED
        BY <1>0, <3>0, <4>1, <4>2, <4>3, OwedCommit
    <3>2. ASSUME NEW f \in Range(job.outs), f.type = "task_replan" PROVE Answers(f)'
      <4>1. Answers(f)
        BY <1>4, <2>1, <3>2 DEF CluesInHand
      <4>2. QED
        BY <1>0, <1>5, <4>1, AnswersCommit
    <3>3. pc = "save" => ~job.more
      BY <1>4, <2>1 DEF CluesInHand
    <3>4. QED
      BY <1>0, <2>1, <3>1, <3>2, <3>3 DEF CluesInHand
  <2>2. CASE job.from # "input"
    BY <1>0, <1>4, <2>2 DEF CluesInHand
  <2>3. QED
    BY <2>1, <2>2
<1>8. ReplansFiled'
  <2>1. SUFFICES ASSUME NEW k \in Keys, outbox[k] # None, outbox[k].event.type = "task_replan"
                 PROVE  \/ byKey'[k] # 0
                        \/ /\ pc \in {"append", "unlink"}
                           /\ Current.key = k /\ outbox[k].event = Current
    BY <1>0 DEF ReplansFiled, Current
  <2>2. byKey[k] # 0 => byKey'[k] # 0
    BY <1>0, KeysGrow
  <2>3. QED
    BY <1>4, <2>1, <2>2 DEF ReplansFiled
<1>9. FirstRun'
  BY <1>0, <1>4 DEF FirstRun
<1>10. QED
  BY <1>6, <1>7, <1>8, <1>9 DEF Pursued

-----------------------------------------------------------------------------
(* The steps of the Coordinator that leave the Blackboard alone.           *)

LEMMA ClueSame ==
    ASSUME ClueInv, UNCHANGED board, offset' = offset, crashes' = crashes,
           crashes = 0 /\ CluesInHand /\ ReplansFiled /\ FirstRun
               => CluesInHand' /\ ReplansFiled' /\ FirstRun'
    PROVE  ClueInv'
<1>1. PendingClues'
  BY DEF ClueInv, PendingClues, board
<1>2. \A tr \in TaskRevs : Covered(tr, offset) => Covered(tr, offset)'
  BY DEF Covered, Expected, InFlight, Reports, board
<1>3. QED
  BY <1>1, <1>2 DEF ClueInv, Pursued

\* The job stays, but for outputs whose keys are taken.
LEMMA HandSame ==
    ASSUME CluesInHand, UNCHANGED board, job'.from = job.from, job'.src = job.src,
           job'.more = job.more, Range(job'.outs) \subseteq Range(job.outs),
           \A f \in Range(job.outs) :
               f.type = "task_replan" /\ byKey[f.key] = 0 => f \in Range(job'.outs),
           pc' = "save" => pc = "save" \/ ~job.more
    PROVE  CluesInHand'
<1>1. ASSUME NEW tr \in TaskRevs, Owed(tr) PROVE Owed(tr)'
  <2>1. /\ log' = log /\ view' = view /\ byKey' = byKey
        /\ \A n : Covered(tr, n) => Covered(tr, n)'
        /\ \A n : Reports(n, tr) => Reports(n, tr)'
    BY DEF Covered, Expected, InFlight, Reports, board
  <2>2. PICK n : n = job.src
    OBVIOUS
  <2>3. CASE Covered(tr, n)
    BY <2>1, <2>2, <2>3 DEF Owed
  <2>4. CASE \E f \in Range(job.outs) : OfType(f, "task_replan", tr) /\ byKey[f.key] = 0
    <3>1. \E f \in Range(job'.outs) : OfType(f, "task_replan", tr) /\ byKey'[f.key] = 0
      BY <2>1, <2>4 DEF OfType
    <3>2. QED
      BY <3>1 DEF Owed
  <2>5. CASE job.more /\ <<log[n].task, log[n].rev>> = tr
    BY <2>1, <2>2, <2>5 DEF Owed
  <2>6. CASE Reports(n, tr) /\ (log[n].type = "receipt" => ~log[n].good)
    BY <2>1, <2>2, <2>6 DEF Owed
  <2>7. QED
    BY <1>1, <2>2, <2>3, <2>4, <2>5, <2>6 DEF Owed
<1>2. \A f : Answers(f) => Answers(f)'
  BY DEF Answers, board
<1>3. QED
  BY <1>1, <1>2 DEF CluesInHand

LEMMA HandIdle ==
    ASSUME job' = NoJob
    PROVE  CluesInHand'
<1>1. job'.from = "none" /\ job'.outs = << >>
  BY DEF NoJob
<1>2. QED
  BY <1>1, RangeOfFew DEF CluesInHand

\* Files only go, and none was in hand.
LEMMA FiledSame ==
    ASSUME ReplansFiled, UNCHANGED board, pc \notin {"append", "unlink"},
           \A k \in Keys : outbox'[k] # None => outbox'[k] = outbox[k]
    PROVE  ReplansFiled'
  BY DEF ReplansFiled, board

LEMMA RecoverClue ==
    ASSUME Inv, ClueInv, Recover
    PROVE  ClueInv'
<1>1. /\ UNCHANGED board /\ offset' = offset /\ outbox' = outbox /\ job' = job /\ crashes' = crashes
      /\ pc = "down" /\ pc' = "replay"
  BY DEF Recover, durable, others, Goto
<1>2. job' = NoJob
  BY <1>1 DEF Inv, JobInv, JobShape
<1>3. CluesInHand'
  BY <1>2, HandIdle
<1>4. job'.from # "replay"
  BY <1>2 DEF NoJob
<1>5. FirstRun => FirstRun'
  BY <1>1, <1>4 DEF FirstRun
<1>6. ReplansFiled => ReplansFiled'
  BY <1>1, FiledSame
<1>7. QED
  BY <1>1, <1>3, <1>5, <1>6, ClueSame

LEMMA ReplayClue ==
    ASSUME Inv, ClueInv, Replay
    PROVE  ClueInv'
<1>1. /\ UNCHANGED board /\ offset' = offset /\ outbox' = outbox /\ crashes' = crashes
      /\ pc = "replay"
  BY DEF Replay, durable, others
<1>2. FirstRun => job' = NoJob /\ pc' = "poll"
  <2>1. FirstRun => Replayable = {}
    BY <1>1 DEF FirstRun, Replayable
  <2>2. QED
    BY <2>1 DEF Replay, Idle, Goto
<1>3. FirstRun => CluesInHand'
  BY <1>2, HandIdle
<1>4. FirstRun => FirstRun'
  <2>1. NoJob.from # "replay"
    BY DEF NoJob
  <2>2. QED
    BY <1>2, <2>1 DEF FirstRun
<1>5. ReplansFiled => ReplansFiled'
  BY <1>1, FiledSame
<1>6. QED
  BY <1>1, <1>3, <1>4, <1>5, ClueSame

\* A poll, or the decision to close a round: nothing is published yet.
LEMMA QuietClue ==
    ASSUME Inv, ClueInv, UNCHANGED board, offset' = offset, outbox' = outbox, crashes' = crashes,
           pc \in {"poll", "take", "plan"}, pc' \in {"take", "plan", "stage"},
           job'.from \in {"none", "tick", "exit"},
           \A f \in Range(job'.outs) : f.type # "task_replan"
    PROVE  ClueInv'
<1>1. CluesInHand' /\ FirstRun'
  BY DEF CluesInHand, FirstRun
<1>2. ReplansFiled => ReplansFiled'
  BY FiledSame
<1>3. QED
  BY <1>1, <1>2, ClueSame

LEMMA PollClue ==
    ASSUME Inv, ClueInv, Poll
    PROVE  ClueInv'
<1>1. /\ UNCHANGED board /\ offset' = offset /\ outbox' = outbox /\ crashes' = crashes
      /\ pc \in {"poll", "take"} /\ pc' = "take" /\ job' = job
  BY DEF Poll, Ticking, durable, others, Goto
<1>2. job' = NoJob
  BY <1>1 DEF Inv, JobInv, JobShape
<1>3. job'.from = "none" /\ Range(job'.outs) = {}
  BY <1>2, RangeOfFew DEF NoJob
<1>4. QED
  BY <1>1, <1>3, QuietClue

LEMMA CloseRoundClue ==
    ASSUME Inv, ClueInv, NEW t \in Tasks, CloseRound(t)
    PROVE  ClueInv'
<1>1. /\ UNCHANGED board /\ offset' = offset /\ outbox' = outbox /\ crashes' = crashes
      /\ pc = "take" /\ pc' \in {"take", "plan"}
      /\ job' \in {job, [NoJob EXCEPT !.from = "tick", !.task = t]}
  BY DEF CloseRound, Ticking, durable, others, Goto
<1>2. job = NoJob
  BY <1>1 DEF Inv, JobInv, JobShape
<1>3. job'.from \in {"none", "tick"} /\ job'.outs = << >>
  <2>1. NoJob.from = "none" /\ NoJob.outs = << >>
    BY DEF NoJob
  <2>2. CASE job' = job
    BY <1>2, <2>1, <2>2
  <2>3. CASE job' = [NoJob EXCEPT !.from = "tick", !.task = t]
    BY <2>3 DEF NoJob
  <2>4. QED
    BY <1>1, <2>2, <2>3
<1>4. Range(job'.outs) = {}
  BY <1>3, RangeOfFew
<1>5. QED
  BY <1>1, <1>3, <1>4, QuietClue

LEMMA ChoosePlanClue ==
    ASSUME Inv, ClueInv, ChoosePlan
    PROVE  ClueInv'
<1>1. /\ UNCHANGED board /\ offset' = offset /\ outbox' = outbox /\ crashes' = crashes
      /\ pc = "plan" /\ pc' = "stage"
  BY DEF ChoosePlan, durable, others, Goto
<1>2. PICK out, tr, ep : /\ job' = [job EXCEPT !.outs = <<out>>]
                         /\ (\E refs : out = Assigned(tr, ep, refs)) \/ out = Failed(tr, ep, 0)
  BY DEF ChoosePlan
<1>3. job \in JobType /\ job.from = "tick"
  BY <1>1 DEF Inv, JobInv, JobShape
<1>4. job'.from = "tick" /\ job'.outs = <<out>>
  BY <1>2, <1>3 DEF JobType
<1>5. out.type # "task_replan"
  BY <1>2 DEF Assigned, Failed
<1>6. Range(job'.outs) = {out}
  BY <1>4, RangeOfFew
<1>7. QED
  BY <1>1, <1>4, <1>5, <1>6, QuietClue

LEMMA AgentExitClue ==
    ASSUME Inv, ClueInv, NEW tr \in TaskRevs, AgentExit(tr)
    PROVE  ClueInv'
<1>1. PICK out : /\ job' = [NoJob EXCEPT !.from = "exit", !.outs = <<out>>]
                 /\ out = Failed(tr, view[tr].epoch, 0)
  BY DEF AgentExit
<1>2. /\ UNCHANGED board /\ offset' = offset /\ outbox' = outbox /\ crashes' = crashes
      /\ pc = "take" /\ pc' = "stage"
  BY DEF AgentExit, Ticking, durable, others, Goto
<1>3. job'.from = "exit" /\ job'.outs = <<out>> /\ out.type # "task_replan"
  BY <1>1 DEF NoJob, Failed
<1>4. Range(job'.outs) = {out}
  BY <1>3, RangeOfFew
<1>5. QED
  BY <1>2, <1>3, <1>4, QuietClue

LEMMA CrashClue ==
    ASSUME Inv, ClueInv, Crash
    PROVE  ClueInv'
<1>1. UNCHANGED board /\ crashes' = crashes + 1 /\ crashes \in Nat
  BY DEF Crash, Inv, BaseInv, CoordinatorAssumption
<1>2. crashes' # 0
  BY <1>1
<1>3. PendingClues'
  BY <1>1 DEF ClueInv, PendingClues, board
<1>4. QED
  BY <1>2, <1>3 DEF ClueInv, Pursued

LEMMA StageClue ==
    ASSUME Inv, ClueInv, Stage
    PROVE  ClueInv'
<1>1. /\ UNCHANGED board /\ offset' = offset /\ crashes' = crashes /\ pc = "stage"
  BY DEF Stage, others
<1>2. CASE Current.key \in refused
  <2>1. outbox' = outbox /\ job' = NoJob /\ pc' = "poll"
    BY <1>2 DEF Stage, Idle, Goto
  <2>2. CluesInHand'
    BY <2>1, HandIdle
  <2>3. FirstRun'
    BY <2>1 DEF FirstRun, NoJob
  <2>4. ReplansFiled => ReplansFiled'
    BY <1>1, <2>1, FiledSame
  <2>5. QED
    BY <1>1, <2>2, <2>3, <2>4, ClueSame
<1>3. CASE Current.key \notin refused
  <2>1. PICK c, src : c = Current /\ src = job.src
    OBVIOUS
  <2>2. /\ outbox' = [outbox EXCEPT ![c.key] = Filed([event |-> c, src |-> src])]
        /\ job' = job /\ pc' = "append"
    BY <1>3, <2>1 DEF Stage, Goto
  <2>3. CluesInHand => CluesInHand'
    BY <1>1, <2>2, HandSame
  <2>4. FirstRun => FirstRun'
    BY <2>2 DEF FirstRun
  <2>5. ReplansFiled => ReplansFiled'
    <3>1. SUFFICES ASSUME ReplansFiled, NEW k \in Keys, outbox'[k] # None,
                          outbox'[k].event.type = "task_replan"
                   PROVE  byKey[k] # 0 \/ (c.key = k /\ outbox'[k].event = c)
      BY <1>1, <2>1, <2>2 DEF ReplansFiled, Current, board
    <3>2. outbox = [x \in Keys |-> outbox[x]]
      BY DEF Inv, FileInv, FilesShape
    <3>3. CASE k # c.key \/ outbox[k] # None
      <4>1. outbox'[k] = outbox[k]
        BY <2>2, <3>2, <3>3 DEF Filed
      <4>2. QED
        BY <1>1, <3>1, <4>1 DEF ReplansFiled
    <3>4. CASE k = c.key /\ outbox[k] = None
      BY <2>2, <3>2, <3>4 DEF Filed
    <3>5. QED
      BY <3>3, <3>4
  <2>6. QED
    BY <1>1, <2>3, <2>4, <2>5, ClueSame
<1>4. QED
  BY <1>2, <1>3

LEMMA UnlinkClue ==
    ASSUME Inv, ClueInv, Unlink
    PROVE  ClueInv'
<1>1. PICK c : c = Current
  OBVIOUS
<1>2. /\ UNCHANGED board /\ offset' = offset /\ crashes' = crashes
      /\ outbox' = [outbox EXCEPT ![c.key] = None] /\ job' = NoJob /\ pc' = "poll"
  BY <1>1 DEF Unlink, Idle, Goto, others
<1>3. CluesInHand' /\ FirstRun'
  BY <1>2, HandIdle DEF FirstRun, NoJob
<1>4. ReplansFiled => ReplansFiled'
  <2>1. outbox = [x \in Keys |-> outbox[x]]
    BY DEF Inv, FileInv, FilesShape
  <2>2. \A k \in Keys : outbox'[k] # None => outbox'[k] = outbox[k] /\ k # c.key
    BY <1>2, <2>1
  <2>3. QED
    BY <1>1, <1>2, <2>2 DEF ReplansFiled, board
<1>5. QED
  BY <1>2, <1>3, <1>4, ClueSame

LEMMA ResolveClue ==
    ASSUME Inv, ClueInv, Resolve
    PROVE  ClueInv'
<1>1. PICK k \in job.done :
        /\ outbox' = [outbox EXCEPT ![k] = None]
        /\ IF job.done = {k} THEN Return
           ELSE job' = [job EXCEPT !.done = @ \ {k}] /\ UNCHANGED <<rounds, pc>>
  BY DEF Resolve
<1>2. /\ UNCHANGED board /\ offset' = offset /\ crashes' = crashes /\ pc = "resolve"
  BY DEF Resolve, others
<1>3. ReplansFiled => ReplansFiled'
  <2>1. outbox = [x \in Keys |-> outbox[x]]
    BY DEF Inv, FileInv, FilesShape
  <2>2. \A x \in Keys : outbox'[x] # None => outbox'[x] = outbox[x]
    BY <1>1, <2>1
  <2>3. QED
    BY <1>2, <2>2, FiledSame
<1>4. CASE Return
  <2>1. job' = NoJob /\ pc' = (IF job.from = "replay" THEN "replay" ELSE "take")
    BY <1>4 DEF Return, Idle, Goto
  <2>2. CluesInHand'
    BY <2>1, HandIdle
  <2>3. FirstRun => FirstRun'
    BY <2>1 DEF FirstRun, NoJob
  <2>4. QED
    BY <1>2, <1>3, <2>2, <2>3, ClueSame
<1>5. CASE job' = [job EXCEPT !.done = @ \ {k}] /\ pc' = pc
  <2>1. job \in JobType
    BY DEF Inv, JobInv, JobShape
  <2>2. job'.from = job.from /\ job'.src = job.src /\ job'.outs = job.outs /\ job'.more = job.more
    BY <1>5, <2>1 DEF JobType
  <2>3. CluesInHand => CluesInHand'
    BY <1>2, <1>5, <2>2, HandSame
  <2>4. FirstRun => FirstRun'
    BY <1>2, <1>5, <2>2 DEF FirstRun
  <2>5. QED
    BY <1>2, <1>3, <2>3, <2>4, ClueSame
<1>6. QED
  BY <1>1, <1>4, <1>5

\* A report of the current plan is of its task revision and epoch.
LEMMA ReportOfPlan ==
    ASSUME EffectInv, NEW m \in DOMAIN log, NEW tr \in TaskRevs, Reports(m, tr)
    PROVE  /\ <<log[m].task, log[m].rev>> = tr
           /\ log[m].epoch = view[tr].epoch /\ view[tr].plan.epoch = view[tr].epoch
<1>1. PICK e : e = log[m]
  OBVIOUS
<1>2. PICK v : v = view[tr]
  OBVIOUS
<1>3. e.plan = PlanOf(<<e.task, e.rev>>, e.epoch)
  BY <1>1 DEF Reports, EffectInv, LogTold, PlanNamed, RobotTypes
<1>4. v.plan.epoch = v.epoch /\ v.plan.id = PlanOf(tr, v.epoch) /\ e.plan = v.plan.id
  BY <1>1, <1>2 DEF Reports, EffectInv, LogTold, PlanOK
<1>5. <<"plan", e.task, e.rev, e.epoch>> = <<"plan", tr[1], tr[2], v.epoch>>
  BY <1>3, <1>4 DEF PlanOf
<1>6. e.task = tr[1] /\ e.rev = tr[2] /\ e.epoch = v.epoch
  BY <1>5
<1>7. QED
  BY <1>1, <1>2, <1>4, <1>6 DEF TaskRevs

\* The input is consumed: nothing is left open but what somebody comes back to.
LEMMA SaveOffsetClue ==
    ASSUME Inv, EffectInv, ClueInv, SaveOffset
    PROVE  ClueInv'
<1>1. UNCHANGED board /\ offset' = job.src /\ outbox' = outbox /\ crashes' = crashes /\ pc = "save"
      /\ log' = log /\ view' = view
  BY DEF SaveOffset, others, board
<1>2. job.from = "input" /\ job.outs = << >> /\ job.src \in DOMAIN log
  BY <1>1, LogLength DEF Inv, JobInv, JobShape
<1>3. \/ job' = NoJob /\ pc' = "take"
      \/ job' = job /\ pc' = "resolve"
  BY <1>2 DEF SaveOffset, Return, Idle, Goto
<1>4. PendingClues'
  BY <1>1 DEF ClueInv, PendingClues, board
<1>5. SUFFICES ASSUME crashes = 0 PROVE Pursued'
  BY <1>1, <1>4 DEF ClueInv, Pursued
<1>6. CluesInHand /\ ReplansFiled /\ FirstRun
  BY <1>5 DEF ClueInv, Pursued
<1>7. PICK n \in DOMAIN log : n = job.src
  BY <1>2
<1>8. ASSUME NEW tr \in TaskRevs PROVE Covered(tr, n)
  <2>1. /\ \/ Covered(tr, n)
           \/ job.more
           \/ Reports(n, tr) /\ (log[n].type = "receipt" => ~log[n].good)
        /\ ~job.more
    BY <1>1, <1>2, <1>6, <1>7, RangeOfFew DEF CluesInHand, Owed
  <2>2. CASE Reports(n, tr) /\ (log[n].type = "receipt" => ~log[n].good)
    <3>1. <<log[n].task, log[n].rev>> = tr /\ log[n].epoch = view[tr].epoch
      BY <2>2, ReportOfPlan
    <3>2. \A m \in {n} : TookBy(m, {})
      BY <1>2, <1>7, RangeOfFew DEF EffectInv, InHand
    <3>3. TookBy(n, {})
      BY <3>2
    <3>4. view[tr].terminal # None \/ view[tr].epoch > log[n].epoch
      BY <2>2, <3>1, <3>3 DEF TookBy, EndsBy, Reports
    <3>5. view[tr].epoch \in Nat
      BY DEF Inv, LogInv, ViewsOK, View
    <3>6. view[tr].terminal # None
      BY <3>1, <3>4, <3>5
    <3>7. QED
      BY <3>6 DEF Covered, ReplanPending
  <2>3. QED
    BY <2>1, <2>2
<1>9. ASSUME NEW tr \in TaskRevs PROVE Covered(tr, offset)'
  <2>1. Covered(tr, n)'
    BY <1>1, <1>8 DEF Covered, Expected, InFlight, Reports, board
  <2>2. QED
    BY <1>1, <1>7, <2>1
<1>10. CluesInHand'
  <2>1. CASE job' = NoJob
    BY <2>1, HandIdle
  <2>2. CASE job' = job /\ pc' = "resolve"
    BY <1>1, <1>6, <2>2, HandSame
  <2>3. QED
    BY <1>3, <2>1, <2>2
<1>11. ReplansFiled'
  BY <1>1, <1>6, FiledSame
<1>12. FirstRun'
  BY <1>3, <1>6 DEF FirstRun, NoJob
<1>13. QED
  BY <1>9, <1>10, <1>11, <1>12 DEF Pursued

-----------------------------------------------------------------------------
(* The handlers: what they leave pending somebody comes back to.           *)

\* A replan answers all that is pending.
LEMMA ReplanAnswers ==
    ASSUME LogInv, NEW tr \in TaskRevs
    PROVE  /\ OfType(Replan(tr), "task_replan", tr)
           /\ <<Replan(tr).task, Replan(tr).rev>> = tr
           /\ Replan(tr).refs = view[tr].pending
<1>1. tr = <<tr[1], tr[2]>>
  BY DEF TaskRevs
<1>2. QED
  BY <1>1 DEF Replan, OfType

LEMMA ReplanOwed ==
    ASSUME NamesAvailable, LogInv, NEW tr \in TaskRevs, NEW n
    PROVE  \/ Covered(tr, n)
           \/ \E f \in Range(ReplanOutputs(tr)) :
                 OfType(f, "task_replan", tr) /\ byKey[f.key] = 0
<1>1. CASE ReplanPending(view[tr]) /\ ~InFlight(tr)
  <2>1. PICK f, g : f = Replan(tr) /\ g = RoundOpened(tr, view[tr].epoch + 1)
    OBVIOUS
  <2>2. ReplanOutputs(tr) = <<f, g>>
    BY <1>1, <2>1 DEF ReplanOutputs
  <2>3. OfType(f, "task_replan", tr) /\ byKey[f.key] = 0
    BY <1>1, <2>1, ReplanFresh, ReplanAnswers DEF ReplanPending
  <2>4. f \in Range(ReplanOutputs(tr))
    BY <2>2, RangeOfFew
  <2>5. QED
    BY <2>3, <2>4
<1>2. CASE ReplanPending(view[tr]) /\ InFlight(tr)
  BY <1>2 DEF Covered, Expected, InFlight
<1>3. CASE ~ReplanPending(view[tr])
  BY <1>3 DEF Covered
<1>4. QED
  BY <1>1, <1>2, <1>3

LEMMA ReplanOnly ==
    ASSUME NEW tr, NEW f \in Range(ReplanOutputs(tr)), f.type = "task_replan"
    PROVE  f = Replan(tr)
<1>0. RoundOpened(tr, view[tr].epoch + 1).type = "bid_round_opened"
  BY DEF RoundOpened
<1>1. PICK g : g = RoundOpened(tr, view[tr].epoch + 1) /\ g.type = "bid_round_opened"
  BY <1>0
<1>2. ReplanOutputs(tr) \in {<< >>, <<Replan(tr), g>>}
  BY <1>1 DEF ReplanOutputs
<1>3. Range(ReplanOutputs(tr)) \subseteq {Replan(tr), g}
  BY <1>2, RangeOfFew
<1>4. QED
  BY <1>1, <1>3

\* Only a clue makes the handler of inputs publish a replan.
LEMMA OutputsReplan ==
    ASSUME Inv, NEW n \in DOMAIN log, NEW f \in Range(Outputs(log[n], n)), f.type = "task_replan"
    PROVE  \E tr \in TaskRevs : f = Replan(tr)
<1>0. PICK e : e = log[n]
  OBVIOUS
<1>1. e \in Event
  BY <1>0 DEF Inv, LogInv, LogShape
<1>2. PICK outs : outs = Outputs(e, n)
  OBVIOUS
<1>3. f \in Range(outs)
  BY <1>0, <1>2
<1>4. PICK x : x = <<e.task, e.rev>>
  OBVIOUS
<1>5. CASE e.type = "task_posted"
  <2>1. PICK g, h : g = Failed(x, 0, n) /\ h = RoundOpened(x, view[x].epoch + 1)
    OBVIOUS
  <2>2. outs \in {<<g>>, << >>, <<h>>}
    BY <1>2, <1>4, <1>5, <2>1 DEF Outputs, PostedOutputs
  <2>3. f \in {g, h}
    BY <1>3, <2>2, RangeOfFew
  <2>4. QED
    BY <2>1, <2>3 DEF Failed, RoundOpened
<1>6. CASE e.type = "receipt"
  <2>1. PICK g, h : g = Failed(x, e.epoch, n) /\ h = Completed(e)
    OBVIOUS
  <2>2. outs \in {<<g>>, << >>, <<h>>}
    BY <1>2, <1>4, <1>6, <2>1 DEF Outputs, ReceiptOutputs
  <2>3. f \in {g, h}
    BY <1>3, <2>2, RangeOfFew
  <2>4. QED
    BY <2>1, <2>3 DEF Failed, Completed
<1>7. CASE e.type = "safety_intercept"
  <2>1. outs = <<Failed(x, e.epoch, n)>>
    BY <1>2, <1>4, <1>7 DEF Outputs
  <2>2. f = Failed(x, e.epoch, n)
    BY <1>3, <2>1, RangeOfFew
  <2>3. QED
    BY <2>2 DEF Failed
<1>8. CASE e.type = "clue"
  <2>1. PICK tr : tr = <<e.task, ClueRev(e)>>
    OBVIOUS
  <2>2. tr \in TaskRevs
    <3>1. ClueRev(e) \in Revs
      BY <1>1, ClueRevType DEF Inv, BaseInv
    <3>2. e.task \in Tasks
      BY <1>1, <1>8, EventShape
    <3>3. QED
      BY <2>1, <3>1, <3>2 DEF TaskRevs
  <2>3. outs = ReplanOutputs(tr)
    BY <1>2, <1>8, <2>1 DEF Outputs
  <2>4. QED
    BY <1>3, <2>2, <2>3, ReplanOnly
<1>9. CASE e.type = "estop"
  <2> DEFINE S == {Failed(y, view[y].epoch, n) : y \in EstopTargets(e)}
  <2>1. outs = SetToSeq(S) /\ IsFiniteSet(S)
    BY <1>1, <1>2, <1>9, StopsFinite DEF Outputs
  <2>2. \A g \in S : g.type = "task_failed"
    BY DEF Failed
  <2> HIDE DEF S
  <2>3. f \in S
    BY <1>3, <2>1, RangeOfSet
  <2>4. QED
    BY <2>2, <2>3
<1>10. CASE e.type \notin {"task_posted", "receipt", "safety_intercept", "clue", "estop"}
  <2>1. outs = << >>
    BY <1>2, <1>10 DEF Outputs
  <2>2. QED
    BY <1>3, <2>1, RangeOfFew
<1>11. QED
  BY <1>5, <1>6, <1>7, <1>8, <1>9, <1>10

\* The receipt of the end of an assignment is followed up.
LEMMA FollowUpClue ==
    ASSUME NamesAvailable, Inv, EffectInv, ClueInv, FollowUp
    PROVE  ClueInv'
<1>a. PICK tr : tr = <<log[job.src].task, log[job.src].rev>>
  OBVIOUS
<1>b. PICK outs : outs = IF ReplanPending(view[tr]) THEN ReplanOutputs(tr)
                         ELSE IF view[tr].plan.asgs \subseteq view[tr].completed
                         THEN <<Done(tr, job.src)>> ELSE << >>
  OBVIOUS
<1>1. /\ job' = [job EXCEPT !.outs = outs, !.more = FALSE]
      /\ UNCHANGED board /\ offset' = offset /\ outbox' = outbox /\ crashes' = crashes
      /\ pc = "followup" /\ pc' \in {"save", "stage"}
      /\ log' = log /\ view' = view /\ byKey' = byKey
  BY <1>a, <1>b DEF FollowUp, Goto, durable, others, board
<1>2. job \in JobType /\ job.from = "input" /\ job.more /\ job.src \in DOMAIN log
      /\ log[job.src].type = "receipt" /\ LogInv
  BY <1>1 DEF Inv, JobInv, JobShape, MoreOK
<1>3. job'.from = "input" /\ job'.src = job.src /\ job'.outs = outs /\ job'.more = FALSE
  <2>1. DOMAIN job = {"from", "src", "outs", "done", "task", "more"}
    BY <1>2 DEF JobType
  <2>2. QED
    BY <1>1, <1>2, <2>1
<1>4. tr \in TaskRevs
  <2>1. log[job.src] \in Event
    BY <1>2 DEF LogInv, LogShape
  <2>2. QED
    BY <1>a, <1>2, <2>1, OwnTask
<1>5. Range(job.outs) = {}
  BY <1>1, <1>2, RangeOfFew DEF EffectInv, InHand
<1>6. PICK n : n = job.src
  OBVIOUS
<1>7. /\ \A x : Covered(x, n) => Covered(x, n)'
      /\ \A x : Reports(n, x) => Reports(n, x)'
  BY <1>1 DEF Covered, Expected, InFlight, Reports, board
<1>8. ASSUME NEW x \in TaskRevs, Owed(x) PROVE Owed(x)'
  <2>1. CASE x = tr
    <3>1. CASE ~ReplanPending(view[tr])
      <4>1. Covered(tr, n)
        BY <3>1 DEF Covered
      <4>2. QED
        BY <1>3, <1>6, <1>7, <2>1, <4>1 DEF Owed
    <3>2. CASE ReplanPending(view[tr])
      <4>1. \/ Covered(tr, n)
            \/ \E f \in Range(outs) : OfType(f, "task_replan", tr) /\ byKey[f.key] = 0
        BY <1>b, <1>2, <1>4, <3>2, ReplanOwed
      <4>2. CASE Covered(tr, n)
        BY <1>3, <1>6, <1>7, <2>1, <4>2 DEF Owed
      <4>3. CASE \E f \in Range(outs) : OfType(f, "task_replan", tr) /\ byKey[f.key] = 0
        <5>1. \E f \in Range(job'.outs) : OfType(f, "task_replan", tr) /\ byKey'[f.key] = 0
          BY <1>1, <1>3, <4>3
        <5>2. QED
          BY <2>1, <5>1 DEF Owed
      <4>4. QED
        BY <4>1, <4>2, <4>3
    <3>3. QED
      BY <3>1, <3>2
  <2>2. CASE x # tr
    <3>1. Covered(x, n) \/ (Reports(n, x) /\ ~log[n].good)
      BY <1>a, <1>2, <1>5, <1>6, <1>8, <2>2 DEF Owed
    <3>2. CASE Covered(x, n)
      BY <1>3, <1>6, <1>7, <3>2 DEF Owed
    <3>3. CASE Reports(n, x) /\ ~log[n].good
      BY <1>1, <1>3, <1>6, <1>7, <3>3 DEF Owed
    <3>4. QED
      BY <3>1, <3>2, <3>3
  <2>3. QED
    BY <2>1, <2>2
<1>9. ASSUME NEW f \in Range(outs), f.type = "task_replan" PROVE Answers(f)'
  <2>1. f = Replan(tr)
    <3>1. Done(tr, job.src).type # "task_replan"
      BY DEF Done
    <3>2. ~ReplanPending(view[tr]) => Range(outs) \subseteq {Done(tr, job.src)}
      BY <1>b, RangeOfFew
    <3>3. outs = ReplanOutputs(tr)
      BY <1>b, <1>9, <3>1, <3>2
    <3>4. QED
      BY <1>9, <3>3, ReplanOnly
  <2>2. <<f.task, f.rev>> = tr /\ f.refs = view[tr].pending
    BY <1>2, <1>4, <2>1, ReplanAnswers
  <2>3. QED
    BY <1>1, <2>2 DEF Answers
<1>10. CluesInHand => CluesInHand'
  BY <1>2, <1>3, <1>8, <1>9 DEF CluesInHand
<1>11. ReplansFiled => ReplansFiled'
  BY <1>1, FiledSame
<1>12. FirstRun'
  BY <1>1, <1>3 DEF FirstRun
<1>13. QED
  BY <1>1, <1>10, <1>11, <1>12, ClueSame

\* With one revision a clue is about the only one.
LEMMA ClueOfTask ==
    ASSUME OneRevision, Inv, NEW e \in Event, NEW tr \in TaskRevs, e.task = tr[1]
    PROVE  <<e.task, ClueRev(e)>> = tr
<1>1. ClueRev(e) \in Revs
  BY ClueRevType DEF Inv, BaseInv
<1>2. tr = <<tr[1], tr[2]>> /\ tr[2] \in Revs
  BY DEF TaskRevs
<1>3. QED
  BY <1>1, <1>2 DEF OneRevision

LEMMA TakeClue ==
    ASSUME NamesAvailable, OneRevision, Inv, EffectInv, ClueInv, Take
    PROVE  ClueInv'
<1>1. LogInv /\ BaseInv
  BY DEF Inv
<1>2. PICK n : n = Min(Unread)
  OBVIOUS
<1>3. PICK e : e = log[n]
  OBVIOUS
<1>4. PICK outs : outs = Outputs(e, n)
  OBVIOUS
<1>5. /\ UNCHANGED board /\ offset' = offset /\ outbox' = outbox /\ crashes' = crashes
      /\ pc = "take" /\ Unread # {} /\ upto' = upto
      /\ job' = [NoJob EXCEPT !.from = "input", !.src = n, !.outs = outs,
                              !.more = e.type = "receipt" /\ AcceptedReceipt(e)]
      /\ pc' = (IF outs = << >> THEN "save" ELSE "stage")
  BY <1>2, <1>3, <1>4 DEF Take, Goto, durable, others
<1>6. /\ log' = log /\ view' = view /\ byKey' = byKey
      /\ Len(log) \in Nat /\ DOMAIN log = 1 .. Len(log)
      /\ offset \in 0 .. Len(log) /\ upto \in 0 .. Len(log)
  BY <1>1, <1>5, LogLength DEF board, BaseInv
<1>7. /\ n \in Unread /\ (\A m \in Unread : n <= m)
      /\ n \in DOMAIN log /\ n > offset /\ n \in Nat /\ n <= upto
  <2>1. Unread \subseteq 0 .. Len(log) /\ Unread \subseteq offset + 1 .. upto
    BY <1>6 DEF Unread, Batch
  <2>2. n \in Unread /\ \A m \in Unread : n <= m
    BY <1>2, <1>5, <1>6, <2>1, MinOf
  <2>3. QED
    BY <1>6, <2>1, <2>2
<1>8. e \in Event
  BY <1>1, <1>3, <1>7 DEF LogInv, LogShape
<1>9. ASSUME NEW m \in DOMAIN log, m > offset,
             log[m].type \in {"clue", "receipt", "safety_intercept"}
      PROVE  m = n \/ m > n
  <2>1. m > upto \/ m \in Unread
    BY <1>6, <1>9 DEF Unread, Batch, CoordinatorTypes
  <2>2. QED
    BY <1>6, <1>7, <2>1
<1>10. job'.from = "input" /\ job'.src = n /\ job'.outs = outs
       /\ job'.more = (e.type = "receipt" /\ AcceptedReceipt(e))
  BY <1>5 DEF NoJob
<1>11. /\ \A x : Covered(x, n) => Covered(x, n)'
       /\ \A x : Reports(n, x) => Reports(n, x)'
  BY <1>5 DEF Covered, Expected, InFlight, Reports, board
<1>12. ASSUME NEW tr \in TaskRevs, Covered(tr, n) PROVE Owed(tr)'
  BY <1>10, <1>11, <1>12 DEF Owed
<1>13. ASSUME NEW tr \in TaskRevs, NEW c \in view[tr].pending, byId[c] > offset
       PROVE  byId[c] > n \/ Owed(tr)'
  <2>1. PICK p \in DOMAIN log : p = byId[c]
    BY <1>13 DEF ClueInv, PendingClues
  <2>2. log[p].type = "clue" /\ log[p].task = tr[1] /\ p > offset
    BY <1>13, <2>1 DEF ClueInv, PendingClues
  <2>3. CASE p > n
    BY <2>1, <2>3
  <2>4. CASE p = n
    <3>1. e.type = "clue" /\ e.task = tr[1]
      BY <1>3, <2>2, <2>4
    <3>2. outs = ReplanOutputs(tr)
      <4>1. <<e.task, ClueRev(e)>> = tr
        BY <1>8, <3>1, ClueOfTask
      <4>2. QED
        BY <1>4, <3>1, <4>1 DEF Outputs
    <3>3. \/ Covered(tr, n)
          \/ \E f \in Range(outs) : OfType(f, "task_replan", tr) /\ byKey[f.key] = 0
      BY <1>1, <3>2, ReplanOwed
    <3>4. CASE \E f \in Range(outs) : OfType(f, "task_replan", tr) /\ byKey[f.key] = 0
      <4>1. \E f \in Range(job'.outs) : OfType(f, "task_replan", tr) /\ byKey'[f.key] = 0
        BY <1>6, <1>10, <3>4
      <4>2. QED
        BY <4>1 DEF Owed
    <3>5. QED
      BY <1>12, <3>3, <3>4
  <2>5. QED
    BY <1>9, <2>2, <2>3, <2>4
<1>14. ASSUME NEW tr \in TaskRevs, Covered(tr, offset) PROVE Owed(tr)'
  <2>1. CASE ~ReplanPending(view[tr])
    <3>1. Covered(tr, n)
      BY <2>1 DEF Covered
    <3>2. QED
      BY <1>12, <3>1
  <2>2. CASE ReplanPending(view[tr]) /\ view[tr].plan = None
    <3>1. \A c \in view[tr].pending : byId[c] > offset
      BY <1>14, <2>2 DEF Covered
    <3>2. (\A c \in view[tr].pending : byId[c] > n) \/ Owed(tr)'
      BY <1>13, <3>1
    <3>3. (\A c \in view[tr].pending : byId[c] > n) => Covered(tr, n)
      BY <2>2 DEF Covered
    <3>4. QED
      BY <1>12, <3>2, <3>3
  <2>3. CASE ReplanPending(view[tr]) /\ view[tr].plan # None
    <3>1. CASE InFlight(tr)
      <4>1. Covered(tr, n)
        BY <2>3, <3>1 DEF Covered, Expected
      <4>2. QED
        BY <1>12, <4>1
    <3>2. CASE \E m \in DOMAIN log : m > offset /\ Reports(m, tr)
      <4>1. PICK m \in DOMAIN log : m > offset /\ Reports(m, tr)
        BY <3>2
      <4>2. m = n \/ m > n
        BY <1>9, <4>1 DEF Reports
      <4>3. CASE m > n
        <5>1. Covered(tr, n)
          BY <2>3, <4>1, <4>3 DEF Covered, Expected
        <5>2. QED
          BY <1>12, <5>1
      <4>4. CASE m = n /\ ~(e.type = "receipt" /\ e.good)
        <5>1. Reports(n, tr)' /\ (log'[n].type = "receipt" => ~log'[n].good)
          BY <1>3, <1>6, <1>11, <4>1, <4>4
        <5>2. QED
          BY <1>10, <5>1 DEF Owed
      <4>5. CASE m = n /\ e.type = "receipt" /\ e.good
        <5>1. /\ <<e.task, e.rev>> = tr
              /\ e.epoch = view[tr].epoch /\ view[tr].plan.epoch = view[tr].epoch
          BY <1>3, <4>1, <4>5, ReportOfPlan
        <5>2. Lasting(view[tr], e) /\ view[tr].terminal = None
          BY <1>3, <1>7, <2>3, <4>5, <5>1 DEF EffectInv, LogTold, ReplanPending
        <5>3. e.epoch \in Nat
          BY <1>8, <4>5, EpochShape DEF RobotTypes
        <5>4. e.asg \in view[tr].plan.asgs
          BY <4>5, <5>1, <5>2, <5>3 DEF Lasting, InPlan, RobotTypes
        <5>5. AcceptedReceipt(e)
          BY <2>3, <4>5, <5>1, <5>4 DEF AcceptedReceipt, Relevant
        <5>6. job'.more /\ <<log'[job'.src].task, log'[job'.src].rev>> = tr
          BY <1>3, <1>6, <1>10, <4>5, <5>1, <5>5
        <5>7. QED
          BY <5>6 DEF Owed
      <4>6. QED
        BY <4>2, <4>3, <4>4, <4>5
    <3>3. CASE \E c \in view[tr].pending : byId[c] > offset
      <4>1. PICK c \in view[tr].pending : byId[c] > offset
        BY <3>3
      <4>2. byId[c] > n => Covered(tr, n)
        BY <2>3 DEF Covered
      <4>3. QED
        BY <1>12, <1>13, <4>1, <4>2
    <3>4. QED
      BY <1>14, <2>3, <3>1, <3>2, <3>3 DEF Covered, Expected
  <2>4. QED
    BY <2>1, <2>2, <2>3
<1>15. ASSUME NEW f \in Range(outs), f.type = "task_replan" PROVE Answers(f)'
  <2>1. PICK tr \in TaskRevs : f = Replan(tr)
    BY <1>3, <1>4, <1>7, <1>15, OutputsReplan
  <2>2. <<f.task, f.rev>> = tr /\ f.refs = view[tr].pending
    BY <1>1, <2>1, ReplanAnswers
  <2>3. QED
    BY <1>6, <2>2 DEF Answers
<1>16. outs = << >> => ~job'.more
  <2>1. SUFFICES ASSUME e.type = "receipt" /\ AcceptedReceipt(e) PROVE outs # << >>
    BY <1>10
  <2>2. outs = <<Completed(e)>>
    BY <1>4, <2>1 DEF Outputs, ReceiptOutputs, AcceptedReceipt
  <2>3. QED
    BY <2>2
<1>17. (\A tr \in TaskRevs : Covered(tr, offset)) => CluesInHand'
  BY <1>5, <1>10, <1>14, <1>15, <1>16 DEF CluesInHand
<1>18. ReplansFiled => ReplansFiled'
  BY <1>5, FiledSame
<1>19. FirstRun'
  BY <1>5, <1>10 DEF FirstRun
<1>20. crashes = 0 => \A tr \in TaskRevs : Covered(tr, offset)
  BY DEF ClueInv, Pursued
<1>21. QED
  BY <1>5, <1>17, <1>18, <1>19, <1>20, ClueSame

-----------------------------------------------------------------------------
(* Publishing an output.                                                   *)

\* What is still to be published once the first output is.
LEMMA PublishedTail ==
    ASSUME JobInv, pc = "append", Published
    PROVE  /\ job'.from = job.from /\ job'.src = job.src /\ job'.more = job.more
           /\ Range(job'.outs) \subseteq Range(job.outs)
           /\ \A f \in Range(job.outs) : f = Current \/ f \in Range(job'.outs)
           /\ pc' \in {"resolve", "stage", "followup", "save"}
           /\ pc' = "save" => ~job.more
<1>1. PICK c : c = Current
  OBVIOUS
<1>2. job.outs \in Seq(Event) /\ job.outs # << >> /\ c = job.outs[1]
  BY <1>1, CurrentOK
<1>3. PICK t \in Seq(Event) : t = Tail(job.outs)
  BY <1>2, HeadTailProperties
<1>4. /\ DOMAIN t = 1 .. Len(t) /\ Len(t) \in Nat
      /\ DOMAIN job.outs = 1 .. Len(t) + 1 /\ Len(job.outs) = Len(t) + 1
      /\ \A i \in DOMAIN t : t[i] = job.outs[i + 1]
  BY <1>2, <1>3, HeadTailProperties
<1>5. Range(t) \subseteq Range(job.outs)
  <2>1. ASSUME NEW i \in DOMAIN t PROVE t[i] \in Range(job.outs)
    <3>1. i + 1 \in DOMAIN job.outs
      BY <1>4
    <3>2. QED
      BY <1>4, <3>1 DEF Range
  <2>2. QED
    BY <2>1 DEF Range
<1>6. \A f \in Range(job.outs) : f = c \/ f \in Range(t)
  <2>1. ASSUME NEW i \in DOMAIN job.outs PROVE job.outs[i] = c \/ job.outs[i] \in Range(t)
    <3>1. CASE i = 1
      BY <1>2, <3>1
    <3>2. CASE i # 1
      <4>1. PICK j \in DOMAIN t : i = j + 1
        <5>1. i - 1 \in DOMAIN t /\ i = (i - 1) + 1
          BY <1>4, <3>2
        <5>2. QED
          BY <5>1
      <4>2. QED
        BY <1>4, <4>1 DEF Range
    <3>3. QED
      BY <3>1, <3>2
  <2>2. QED
    BY <2>1 DEF Range
<1>7. job \in JobType
  BY DEF JobInv, JobShape
<1>8. job'.from = job.from /\ job'.src = job.src /\ job'.more = job.more /\ job'.outs = t
  BY <1>3, <1>7 DEF Published, JobType
<1>9. /\ pc' \in {"resolve", "stage", "followup", "save"}
      /\ pc' = "save" => ~job.more
  <2>1. job.src = 0 \/ Len(job.outs) > 1 \/ Len(job.outs) = 1
    BY <1>4
  <2>2. QED
    BY <1>7, <2>1 DEF Published, Goto, JobType
<1>10. QED
  BY <1>1, <1>5, <1>6, <1>8, <1>9

\* A replan that is appended is the one in hand.
LEMMA ReplanInHand ==
    ASSUME Inv, CluesInHand, ReplansFiled, pc = "append", NEW e, e = Staged,
           e.type = "task_replan", byKey[e.key] = 0
    PROVE  e = Current /\ job.from = "input" /\ e \in Range(job.outs) /\ Answers(e)
<1>1. PICK c : c = Current
  OBVIOUS
<1>2. /\ outbox[c.key] # None /\ c.key \in Keys /\ e.key = c.key
      /\ e = outbox[c.key].event
  BY <1>1, StagedOK DEF Staged, Inv
<1>3. e = c
  BY <1>1, <1>2 DEF ReplansFiled
<1>4. c = job.outs[1] /\ 1 \in DOMAIN job.outs
  BY <1>1, CurrentOK DEF Inv
<1>5. e \in Range(job.outs)
  BY <1>3, <1>4 DEF Range
<1>6. job.from = "input" /\ Answers(e)
  BY <1>5 DEF CluesInHand
<1>7. QED
  BY <1>1, <1>3, <1>5, <1>6

LEMMA AppendedClue ==
    ASSUME Inv, ClueInv, offset' = offset, outbox' = outbox, crashes' = crashes,
           pc = "append", Published, NEW e, e = Staged,
           Bd!Outcome(e) = "APPENDED", Bd!Commit(e)
    PROVE  ClueInv'
<1>0. PICK c : c = Current
  OBVIOUS
<1>1. /\ LogInv /\ FileInv /\ JobInv /\ PendingClues /\ Len(log) \in Nat /\ DOMAIN log = 1 .. Len(log)
      /\ offset \in 0 .. Len(log) /\ job.src \in 0 .. Len(log)
  BY LogLength DEF Inv, ClueInv, BaseInv, JobInv, JobShape
<1>2. /\ e \in Event /\ Known(e) /\ Named(e) /\ Output(e) /\ e.key = c.key /\ e.key \in Keys
      /\ e.key # None
  BY <1>0, <1>1, StagedOK
<1>3. /\ byKey[e.key] = 0 /\ byKey'[e.key] = Len(log) + 1
      /\ \A k \in Keys : k # e.key => byKey'[k] = byKey[k]
      /\ \A k \in Keys : byKey[k] # 0 => byKey'[k] # 0
  BY <1>1, <1>2, KeysGrow
<1>4. PendingClues'
  BY <1>1, <1>2, PendingCluesCommit
<1>5. SUFFICES ASSUME crashes = 0 PROVE Pursued'
  BY <1>4 DEF ClueInv, Pursued
<1>6. CluesInHand /\ ReplansFiled /\ FirstRun /\ \A tr \in TaskRevs : Covered(tr, offset)
  BY <1>5 DEF ClueInv, Pursued
<1>7. /\ job'.from = job.from /\ job'.src = job.src /\ job'.more = job.more
      /\ Range(job'.outs) \subseteq Range(job.outs)
      /\ \A f \in Range(job.outs) : f = c \/ f \in Range(job'.outs)
      /\ pc' \in {"resolve", "stage", "followup", "save"}
      /\ pc' = "save" => ~job.more
  BY <1>0, <1>1, PublishedTail
<1>8. e.type = "task_replan" => e = c /\ job.from = "input" /\ Answers(e)
  BY <1>0, <1>3, <1>6, ReplanInHand
<1>9. job.from = "input" => job.src \in DOMAIN log /\ job.src >= offset
  BY <1>1 DEF JobInv, JobShape
<1>10. ASSUME NEW tr \in TaskRevs, OfType(e, "task_replan", tr)
       PROVE  \A x \in view[tr].pending :
                 x \in e.refs \/ x = e.cause \/ (byId[x] > job.src /\ byId[x] > offset)
  <2>1. Answers(e) /\ <<e.task, e.rev>> = tr /\ job.from = "input"
    BY <1>8, <1>10 DEF OfType
  <2>2. ASSUME NEW x \in view[tr].pending
        PROVE  x \in e.refs \/ x = e.cause \/ (byId[x] > job.src /\ byId[x] > offset)
    <3>1. x \in e.refs \/ x = e.cause \/ byId[x] > job.src
      BY <1>3, <2>1, <2>2 DEF Answers
    <3>2. byId[x] \in DOMAIN log
      BY <1>1, <2>2 DEF PendingClues
    <3>3. PICK p \in Nat : p = byId[x]
      BY <1>1, <3>2
    <3>4. p > job.src => p > offset
      BY <1>1, <1>9, <2>1
    <3>5. QED
      BY <3>1, <3>3, <3>4
  <2>3. QED
    BY <2>2
<1>11. ASSUME NEW tr \in TaskRevs PROVE Covered(tr, offset)'
  <2>1. PICK n \in 0 .. Len(log) : n = offset
    BY <1>1
  <2>2. OfType(e, "task_replan", tr) =>
            \A x \in view[tr].pending : x \in e.refs \/ x = e.cause \/ byId[x] > n
    BY <1>10, <2>1
  <2>3. Covered(tr, n)
    BY <1>6, <2>1
  <2>4. Covered(tr, n)'
    BY <1>1, <1>2, <2>2, <2>3, CoveredCommit
  <2>5. QED
    BY <2>1, <2>4
<1>12. ASSUME NEW f \in Range(job.outs) PROVE Output(f)
  <2>1. PICK i \in DOMAIN job.outs : f = job.outs[i]
    BY <1>12 DEF Range
  <2>2. QED
    BY <1>1, <2>1 DEF JobInv, OutOK
<1>13. ASSUME NEW tr \in TaskRevs, job.from = "input", Owed(tr) PROVE Owed(tr)'
  <2>1. ASSUME NEW f \in Range(job.outs), OfType(f, "task_replan", tr), byKey[f.key] = 0
        PROVE  \/ OfType(e, "task_replan", tr)
               \/ f \in Range(job'.outs) /\ byKey'[f.key] = 0
    <3>1. Output(f) /\ Named(f) /\ f.key \in Keys /\ f.type = "task_replan"
      BY <1>12, <2>1 DEF Output, Named, OfType
    <3>2. CASE f.key = e.key
      <4>1. f.type \in TerminalTypes <=> e.type \in TerminalTypes
        BY <1>2, <3>1, <3>2, SameKey
      <4>2. f.type \notin TerminalTypes
        BY <3>1 DEF TerminalTypes
      <4>3. e.type = f.type /\ e.task = f.task /\ e.rev = f.rev
        BY <1>2, <3>1, <3>2, <4>1, <4>2, SameKey
      <4>4. QED
        BY <2>1, <4>3 DEF OfType
    <3>3. CASE f.key # e.key
      <4>1. f # c /\ byKey'[f.key] = byKey[f.key]
        BY <1>2, <1>3, <3>1, <3>3
      <4>2. QED
        BY <1>7, <2>1, <4>1
    <3>4. QED
      BY <3>2, <3>3
  <2>2. OfType(e, "task_replan", tr) =>
            \A x \in view[tr].pending : x \in e.refs \/ x = e.cause \/ byId[x] > job.src
    BY <1>10
  <2>3. QED
    BY <1>1, <1>2, <1>7, <1>9, <1>13, <2>1, <2>2, OwedCommit
<1>14. CluesInHand'
  <2>1. CASE job.from = "input"
    <3>1. \A tr \in TaskRevs : Owed(tr)'
      BY <1>6, <1>13, <2>1 DEF CluesInHand
    <3>2. ASSUME NEW f \in Range(job'.outs), f.type = "task_replan" PROVE Answers(f)'
      <4>1. f \in Range(job.outs)
        BY <1>7, <3>2
      <4>2. Answers(f) /\ Output(f)
        BY <1>6, <1>12, <2>1, <3>2, <4>1 DEF CluesInHand
      <4>3. QED
        BY <1>1, <1>2, <1>7, <4>2, AnswersCommit
    <3>3. QED
      BY <1>7, <2>1, <3>1, <3>2 DEF CluesInHand
  <2>2. CASE job.from # "input"
    BY <1>6, <1>7, <2>2 DEF CluesInHand
  <2>3. QED
    BY <2>1, <2>2
<1>15. ReplansFiled'
  <2>1. SUFFICES ASSUME NEW k \in Keys, outbox[k] # None, outbox[k].event.type = "task_replan"
                 PROVE  byKey'[k] # 0
    BY DEF ReplansFiled
  <2>2. byKey[k] # 0 \/ k = c.key
    BY <1>0, <1>6, <2>1 DEF ReplansFiled
  <2>3. Len(log) + 1 # 0
    BY <1>1
  <2>4. QED
    BY <1>2, <1>3, <2>2, <2>3
<1>16. FirstRun'
  BY <1>6, <1>7 DEF FirstRun
<1>17. QED
  BY <1>11, <1>14, <1>15, <1>16 DEF Pursued

LEMMA AppendClue ==
    ASSUME NamesAvailable, Inv, ClueInv, AppendOutput
    PROVE  ClueInv'
<1>1. offset' = offset /\ outbox' = outbox /\ crashes' = crashes /\ pc = "append"
  BY DEF AppendOutput, others
<1>2. LogInv /\ FileInv /\ JobInv
  BY DEF Inv
<1>3. PICK c : c = Current
  OBVIOUS
<1>4. PICK e : e = Staged
  OBVIOUS
<1>5. PICK o : o = Bd!Outcome(Staged)
  OBVIOUS
<1>6. \/ o = "APPENDED" /\ Bd!Commit(e) /\ Published
      \/ /\ o \in {"DUPLICATE_SAME", "TERMINAL_CONFLICT"}
         /\ Published /\ UNCHANGED board
      \/ pc' = "unlink" /\ UNCHANGED <<board, job>>
      \/ o = "KEY_CONFLICT" /\ UNCHANGED board
  <2>1. o \in {"APPENDED", "DUPLICATE_SAME", "TERMINAL_CONFLICT", "REJECTED", "KEY_CONFLICT"}
    BY <1>5, OutcomeRange
  <2>2. QED
    BY <1>4, <1>5, <2>1 DEF AppendOutput, Goto
<1>7. CASE o = "APPENDED" /\ Bd!Commit(e) /\ Published
  BY <1>1, <1>4, <1>5, <1>7, AppendedClue
<1>8. CASE o \in {"DUPLICATE_SAME", "TERMINAL_CONFLICT"} /\ Published /\ UNCHANGED board
  <2>1. byKey' = byKey
    BY <1>8 DEF board
  <2>2. byKey[c.key] # 0 \/ e.type \in TerminalTypes
    BY <1>1, <1>2, <1>3, <1>4, <1>5, <1>8, StagedOutcome DEF Settled
  <2>3. /\ e.type \in TerminalTypes <=> c.type \in TerminalTypes
        /\ e = outbox[c.key].event
    BY <1>1, <1>2, <1>3, <1>4, StagedOK DEF Staged
  <2>4. /\ job'.from = job.from /\ job'.src = job.src /\ job'.more = job.more
        /\ Range(job'.outs) \subseteq Range(job.outs)
        /\ \A f \in Range(job.outs) : f = c \/ f \in Range(job'.outs)
        /\ pc' \in {"resolve", "stage", "followup", "save"}
        /\ pc' = "save" => ~job.more
    BY <1>1, <1>2, <1>3, <1>8, PublishedTail
  <2>5. CluesInHand => CluesInHand'
    <3>1. \A f \in Range(job.outs) :
             f.type = "task_replan" /\ byKey[f.key] = 0 => f \in Range(job'.outs)
      BY <2>2, <2>3, <2>4 DEF TerminalTypes
    <3>2. QED
      BY <1>8, <2>4, <3>1, HandSame
  <2>6. ReplansFiled => ReplansFiled'
    <3>1. SUFFICES ASSUME ReplansFiled, NEW k \in Keys, outbox[k] # None,
                          outbox[k].event.type = "task_replan"
                   PROVE  byKey[k] # 0
      BY <1>1, <2>1 DEF ReplansFiled
    <3>2. byKey[k] # 0 \/ k = c.key
      BY <1>3, <3>1 DEF ReplansFiled
    <3>3. QED
      BY <2>2, <2>3, <3>1, <3>2 DEF TerminalTypes
  <2>7. FirstRun => FirstRun'
    BY <2>4 DEF FirstRun
  <2>8. QED
    BY <1>1, <1>8, <2>5, <2>6, <2>7, ClueSame
<1>9. CASE pc' = "unlink" /\ UNCHANGED <<board, job>>
  <2>1. UNCHANGED board /\ job' = job /\ pc' = "unlink" /\ byKey' = byKey
    BY <1>9 DEF board
  <2>2. CluesInHand => CluesInHand'
    BY <1>1, <2>1, HandSame
  <2>3. ReplansFiled => ReplansFiled'
    BY <1>1, <2>1 DEF ReplansFiled, Current
  <2>4. FirstRun => FirstRun'
    BY <2>1 DEF FirstRun
  <2>5. QED
    BY <1>1, <2>1, <2>2, <2>3, <2>4, ClueSame
<1>10. CASE o = "KEY_CONFLICT" /\ UNCHANGED board
  <2>1. crashes # 0
    BY <1>1, <1>2, <1>5, <1>10, StagedOutcome DEF Rebuilt, Inv, BaseInv
  <2>2. QED
    BY <1>1, <1>10, <2>1, ClueSame
<1>11. QED
  BY <1>6, <1>7, <1>8, <1>9, <1>10

-----------------------------------------------------------------------------
(* The whole.                                                              *)

LEMMA InitClue == Init => ClueInv
<1>1. SUFFICES ASSUME Init PROVE ClueInv
  OBVIOUS
<1>2. /\ pc = "down" /\ job = NoJob /\ outbox = [k \in Keys |-> None]
      /\ view = [tr \in TaskRevs |-> EmptyView]
  BY <1>1 DEF Init, Bd!Init, Bd!TaskRevs, TaskRevs, Bd!EmptyView, EmptyView
<1>3. \A tr \in TaskRevs : view[tr].pending = {}
  BY <1>2 DEF EmptyView
<1>4. PendingClues
  BY <1>3 DEF PendingClues
<1>5. \A tr \in TaskRevs : Covered(tr, offset)
  BY <1>3 DEF Covered, ReplanPending
<1>6. job.from = "none" /\ job.outs = << >>
  BY <1>2 DEF NoJob
<1>7. CluesInHand /\ FirstRun /\ ReplansFiled
  BY <1>2, <1>6, RangeOfFew DEF CluesInHand, FirstRun, ReplansFiled
<1>8. QED
  BY <1>4, <1>5, <1>7 DEF ClueInv, Pursued

LEMMA OthersClue ==
    ASSUME NamesAvailable, Inv, ClueInv,
           (\E e \in Offered : External(e)) \/ Submit \/ Report \/ Intercept
    PROVE  ClueInv'
<1>1. SUFFICES ASSUME NEW e, Known(e), e \in Offered \/ e.type \in RobotTypes, Arrive(e)
               PROVE  ClueInv'
  <2>1. ASSUME NEW f \in Offered, External(f) PROVE Known(f) /\ Arrive(f)
    BY <2>1, OfferedAssumption DEF External, Known
  <2>2. ASSUME Submit PROVE \E f : Known(f) /\ f.type \in RobotTypes /\ Arrive(f)
    <3>1. PICK w \in decided : Arrive(AgentEvent("action_intent", w))
      BY <2>2 DEF Submit
    <3>2. PICK f : f = AgentEvent("action_intent", w)
      OBVIOUS
    <3>3. Named(f) /\ f.type = "action_intent"
      BY <3>2, AgentNamed DEF Inv, BaseInv
    <3>4. QED
      BY <3>1, <3>2, <3>3 DEF Known, Named, RobotTypes
  <2>3. ASSUME Report PROVE \E f : Known(f) /\ f.type \in RobotTypes /\ Arrive(f)
    <3>1. PICK n \in DOMAIN log, good \in BOOLEAN :
             log[n].type = "action_intent" /\ Arrive(Receipt(log[n], good))
      BY <2>3 DEF Report
    <3>2. PICK f : f = Receipt(log[n], good)
      OBVIOUS
    <3>3. Named(f) /\ f.type = "receipt"
      BY <3>1, <3>2, IntentShape, ReceiptNamed
    <3>4. QED
      BY <3>1, <3>2, <3>3 DEF Known, Named, RobotTypes
  <2>4. ASSUME Intercept PROVE \E f : Known(f) /\ f.type \in RobotTypes /\ Arrive(f)
    <3>1. PICK n \in DOMAIN log :
             log[n].type = "action_intent" /\ Arrive(AgentEvent("safety_intercept", log[n]))
      BY <2>4 DEF Intercept
    <3>2. PICK f : f = AgentEvent("safety_intercept", log[n])
      OBVIOUS
    <3>3. Named(f) /\ f.type = "safety_intercept"
      BY <3>1, <3>2, IntentShape, AgentNamed
    <3>4. QED
      BY <3>1, <3>2, <3>3 DEF Known, Named, RobotTypes
  <2>5. QED
    BY <1>1, <2>1, <2>2, <2>3, <2>4
<1>2. QED
  BY <1>1, CluesOthers DEF Arrive

LEMMA NextClue ==
    ASSUME NamesAvailable, OneRevision, Inv, EffectInv, ClueInv, [Next]_vars
    PROVE  ClueInv'
<1>1. CASE Working
  BY <1>1, RecoverClue, ReplayClue, PollClue, TakeClue, FollowUpClue, ChoosePlanClue,
     StageClue, AppendClue, UnlinkClue, SaveOffsetClue, ResolveClue DEF Working
<1>2. ASSUME NEW t \in Tasks, CloseRound(t) PROVE ClueInv'
  BY <1>2, CloseRoundClue
<1>3. ASSUME NEW tr \in TaskRevs, AgentExit(tr) PROVE ClueInv'
  BY <1>3, AgentExitClue
<1>4. CASE Crash
  BY <1>4, CrashClue
<1>5. CASE (\E e \in Offered : External(e)) \/ Submit \/ Report \/ Intercept
  BY <1>5, OthersClue
<1>6. CASE Decide \/ UNCHANGED vars
  <2>1. /\ UNCHANGED board /\ offset' = offset /\ outbox' = outbox /\ crashes' = crashes
        /\ pc' = pc /\ job' = job /\ byKey' = byKey
    BY <1>6 DEF Decide, vars, board, durable, memory, others
  <2>2. CluesInHand => CluesInHand'
    BY <2>1, HandSame
  <2>3. (ReplansFiled => ReplansFiled') /\ (FirstRun => FirstRun')
    BY <2>1 DEF ReplansFiled, FirstRun, Current
  <2>4. QED
    BY <2>1, <2>2, <2>3, ClueSame
<1>7. QED
  BY <1>1, <1>2, <1>3, <1>4, <1>5, <1>6 DEF Next

\* As long as the Coordinator has not crashed, and with one revision of each task,
\* no consumed clue is forgotten: while one is pending an action of the plan is in
\* flight, or a clue or the report of an action is still to be read.
THEOREM CluesPursued == NamesAvailable /\ OneRevision => (Spec => []CluePursued)
<1>1. SUFFICES ASSUME NamesAvailable, OneRevision PROVE Spec => []CluePursued
  OBVIOUS
<1>2. Init => Inv /\ EffectInv /\ ClueInv
  BY InitInv, InitEffect, InitClue
<1>3. Inv /\ EffectInv /\ ClueInv /\ [Next]_vars => (Inv /\ EffectInv /\ ClueInv)'
  BY <1>1, NextInv, NextEffect, NextClue
<1>4. Inv /\ EffectInv /\ ClueInv => CluePursued
  <2>1. SUFFICES ASSUME Inv, EffectInv, ClueInv, crashes = 0,
                        NEW tr \in TaskRevs, ReplanPending(view[tr]), ~InFlight(tr),
                        \A c \in view[tr].pending : ~(Position(c) > offset)
                 PROVE  \E n \in offset + 1 .. Len(log) :
                           /\ log[n].type \in {"receipt", "safety_intercept"}
                           /\ <<log[n].task, log[n].rev>> = tr
    BY DEF CluePursued, ClueFollowed
  <2>2. \A c \in view[tr].pending : Position(c) = byId[c]
    <3>1. SUFFICES ASSUME NEW c \in view[tr].pending PROVE Position(c) = byId[c]
      OBVIOUS
    <3>2. byId[c] \in DOMAIN log /\ log[byId[c]].id = c
      BY <2>1 DEF ClueInv, PendingClues
    <3>3. \A n \in DOMAIN log : log[n].id = c => n = byId[c]
      BY <2>1 DEF Inv, LogInv, IndexesOK
    <3>4. QED
      BY <3>2, <3>3 DEF Position
  <2>3. Covered(tr, offset) /\ view[tr].pending # {}
    BY <2>1 DEF ClueInv, Pursued, ReplanPending
  <2>4. Expected(tr, offset)
    BY <2>1, <2>2, <2>3 DEF Covered
  <2>5. PICK m \in DOMAIN log : m > offset /\ Reports(m, tr)
    BY <2>1, <2>4 DEF Expected
  <2>6. m \in offset + 1 .. Len(log)
    BY <2>1, <2>5, LogLength DEF Inv, BaseInv
  <2>7. <<log[m].task, log[m].rev>> = tr
    BY <2>1, <2>5, ReportOfPlan
  <2>8. QED
    BY <2>5, <2>6, <2>7 DEF Reports
<1>5. QED
  BY <1>2, <1>3, <1>4, PTL DEF Spec

=============================================================================
