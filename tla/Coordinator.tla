----------------------------- MODULE Coordinator -----------------------------
(***************************************************************************)
(* The Coordinator process on top of the Blackboard of module Board.       *)
(*                                                                         *)
(* One poll reads a batch of the log, handles its events one by one and    *)
(* closes the bid rounds whose deadline has passed.  Every output goes     *)
(* through the durable outbox: stage the canonical event, append it; once  *)
(* all outputs of an input are appended save the input offset, then remove *)
(* the outbox files.  Each of these is a step of its own, other actors     *)
(* append in between, and the process may crash between any two of them;   *)
(* offset, outbox and refused are files and survive.                       *)
(*                                                                         *)
(* The id of a Coordinator event is its key and a stamp.  In the code the  *)
(* id depends on the key alone and the stamp is the clock value in the     *)
(* content: the events one handler builds before and after a restart       *)
(* differ.  Agents, ingress and clue sources are external: their events    *)
(* arrive at any time and are appended at most once each.                  *)
(***************************************************************************)
EXTENDS TaskView, SequencesExt, FiniteSetsExt

CONSTANTS
    Offered,     \* what ingress, clue sources and e-stop may append
    MaxLog,      \* parameter of Board; not a bound here
    Team,        \* the assignments of a plan, per task revision: one per role slot
    MaxCrashes,  \* bound on crashes, for model checking
    Intercepts,  \* whether the safety checks may intercept an action
    BatchLimit   \* the limit of poll_once, 100 in the code

ASSUME CoordinatorAssumption ==
    /\ Team \in [Tasks \X Revs -> SUBSET AssignmentIds]
    /\ MaxCrashes \in Nat
    /\ Intercepts \in BOOLEAN
    /\ BatchLimit \in Nat \ {0}
    /\ None \notin [event : Event, src : Nat]

\* The keys of what the Coordinator and the robots append begin with its kind.
OwnKinds ==
    {"bid-round", "assignment", "assignment-completed", "task-terminal", "replan",
     "action_intent", "receipt", "safety_intercept"}

\* The other sources keep to their own names: no key is of such a kind, and no
\* id is a key of such a kind with a stamp.
ASSUME OfferedAssumption ==
    /\ Offered \subseteq Event
    /\ \A e \in Offered :
          /\ e.type \in {"task_posted", "clue", "estop"}
          /\ e.key # None => e.key[1] \notin OwnKinds
          /\ e.id[1][1] \notin OwnKinds

VARIABLES
    log, byId, byKey, byTerminal, latest, view,     \* the Blackboard
    offset,    \* consumer.json: position of the last input consumed
    outbox,    \* outbox/<key>.json: [event, src], or None; src 0 is "no input"
    refused,   \* rejected/<key>.json
    rounds,    \* _active_rounds, per task
    known,     \* _known_tasks
    pc,        \* where poll_once is
    job,       \* the outputs being published, see NoJob
    upto,      \* end of the batch read
    crashes,   \* crashes so far; stamps the events of a run
    decided    \* actions the robots have decided to carry out

Bd == INSTANCE Board

board   == <<log, byId, byKey, byTerminal, latest, view>>
durable == <<offset, outbox, refused>>
memory  == <<rounds, known, upto>>
others  == <<crashes, decided>>
vars    == <<board, durable, memory, pc, job, others>>

TaskRevs == Tasks \X Revs

\* Task revisions posted without role slots.
Slotless == {tr \in TaskRevs : Team[tr] = {}}

\* from: who publishes; src: input position; outs: still to publish;
\* done: _pending_commit_keys; more: an accepted receipt is to be followed up.
NoJob == [from |-> "none", src |-> 0, outs |-> << >>, done |-> {},
          task |-> None, more |-> FALSE]

Init ==
    /\ Bd!Init
    /\ offset = 0
    /\ outbox = [k \in Keys |-> None]
    /\ refused = {}
    /\ rounds = [t \in Tasks |-> None]
    /\ known = {}
    /\ pc = "down"
    /\ job = NoJob
    /\ upto = 0
    /\ crashes = 0
    /\ decided = {}

-----------------------------------------------------------------------------
(* The events the Coordinator builds.                                      *)

PlanOf(tr, ep) == <<"plan", tr[1], tr[2], ep>>

RoundOpened(tr, ep) ==
    LET k == <<"bid-round", tr[1], tr[2], ep, 1>>
    IN  [type |-> "bid_round_opened", task |-> tr[1], rev |-> tr[2],
         id |-> <<k, crashes>>, key |-> k, epoch |-> ep, number |-> 1]

Assigned(tr, ep, refs) ==
    LET k == <<"assignment", tr[1], tr[2], ep>>
    IN  [type |-> "task_assigned", task |-> tr[1], rev |-> tr[2],
         id |-> <<k, crashes>>, key |-> k, epoch |-> ep, plan |-> PlanOf(tr, ep),
         asgs |-> Team[tr], refs |-> refs]

\* Mutant: one key for all assignments of an epoch.
Completed_KeyPerEpoch(r) ==
    LET k == <<"assignment-completed", r.task, r.rev, r.epoch,
               CHOOSE a \in AssignmentIds : TRUE>>
    IN  [type |-> "assignment_completed", task |-> r.task, rev |-> r.rev,
         id |-> <<k, crashes>>, key |-> k,
         epoch |-> r.epoch, plan |-> r.plan, asg |-> r.asg]

Completed(r) ==
    LET k == <<"assignment-completed", r.task, r.rev, r.epoch, r.asg>>
    IN  [type |-> "assignment_completed", task |-> r.task, rev |-> r.rev,
         id |-> <<k, crashes>>, key |-> k,
         epoch |-> r.epoch, plan |-> r.plan, asg |-> r.asg]

TerminalKey(tr) == <<"task-terminal", tr[1], tr[2]>>

\* n tells apart terminals of one run: the input they answer, 0 for none.
Done(tr, n) ==
    [type |-> "task_done", task |-> tr[1], rev |-> tr[2],
     id |-> <<TerminalKey(tr), <<"done", crashes, n>>>>, key |-> TerminalKey(tr),
     epoch |-> view[tr].epoch, plan |-> view[tr].plan.id,
     done |-> view[tr].completed]

Failed(tr, ep, n) ==
    [type |-> "task_failed", task |-> tr[1], rev |-> tr[2],
     id |-> <<TerminalKey(tr), <<"failed", crashes, n>>>>, key |-> TerminalKey(tr),
     epoch |-> ep]

Position(id) == CHOOSE n \in DOMAIN log : log[n].id = id

\* The evidence view answers for the newest revision: there the oldest clue is
\* the cause, elsewhere the one with the smallest id, whichever that is.
InEvidenceView(tr) == tr[2] = latest[tr[1]]

Cause(tr) ==
    CHOOSE c \in view[tr].pending :
        InEvidenceView(tr) =>
            \A d \in view[tr].pending : Position(c) <= Position(d)

Replan(tr) ==
    LET v == view[tr]
        cause == Cause(tr)
        k == <<"replan", tr[1], tr[2], cause>>
    IN  [type |-> "task_replan", task |-> tr[1], rev |-> tr[2],
         id |-> <<k, <<v.epoch, v.pending>>>>, key |-> k,
         from |-> v.epoch, cause |-> cause, refs |-> v.pending]

-----------------------------------------------------------------------------
(* The handlers: what an input makes the Coordinator publish.              *)

SameAction(i, f) == \A x \in {"task", "rev", "epoch", "plan", "asg"} : i[x] = f[x]

InFlight(tr) ==
    \E n \in DOMAIN log :
        /\ log[n].type = "action_intent" /\ <<log[n].task, log[n].rev>> = tr
        /\ view[tr].plan # None /\ log[n].plan = view[tr].plan.id
        /\ \A m \in DOMAIN log :
              log[m].type \in {"receipt", "safety_intercept"} =>
                  ~SameAction(log[n], log[m])

\* Mutant: an open bid round postpones the replan.
ReplanOutputs_AfterRound(tr) ==
    IF ReplanPending(view[tr]) /\ ~InFlight(tr) /\ view[tr].round = None
    THEN <<Replan(tr), RoundOpened(tr, view[tr].epoch + 1)>>
    ELSE << >>

\* Nothing while an action of the current plan is in flight.
ReplanOutputs(tr) ==
    IF ReplanPending(view[tr]) /\ ~InFlight(tr)
    THEN <<Replan(tr), RoundOpened(tr, view[tr].epoch + 1)>>
    ELSE << >>

PostedOutputs(tr, n) ==
    IF tr \in Slotless THEN <<Failed(tr, 0, n)>>
    ELSE IF view[tr].terminal # None THEN << >>
    ELSE <<RoundOpened(tr, view[tr].epoch + 1)>>

Relevant(r) ==
    LET v == view[<<r.task, r.rev>>] IN v.plan # None /\ v.plan.epoch = r.epoch

AcceptedReceipt(r) ==
    Relevant(r) /\ r.good /\ r.asg \in view[<<r.task, r.rev>>].plan.asgs

ReceiptOutputs(r, n) ==
    IF Relevant(r) /\ ~r.good
    THEN <<Failed(<<r.task, r.rev>>, r.epoch, n)>>
    ELSE IF AcceptedReceipt(r) THEN <<Completed(r)>> ELSE << >>

\* A clue without revision counts for the newest task revision it knows of.
ClueRev(e) ==
    IF e.rev # None THEN e.rev
    ELSE Max({1} \cup {tr[2] : tr \in {x \in known : x[1] = e.task}})

\* Mutant: a stop for all devices spares tasks without a plan.
EstopTargets_Planned(e) ==
    {tr \in IF e.rev = None THEN known ELSE {<<e.task, e.rev>>} :
        view[tr].terminal = None /\ view[tr].plan # None}

EstopTargets(e) ==
    {tr \in IF e.rev = None THEN known ELSE {<<e.task, e.rev>>} :
        view[tr].terminal = None}

Outputs(e, n) ==
    LET tr == <<e.task, e.rev>>
    IN  CASE e.type = "task_posted"      -> PostedOutputs(tr, n)
          [] e.type = "receipt"          -> ReceiptOutputs(e, n)
          [] e.type = "safety_intercept" -> <<Failed(tr, e.epoch, n)>>
          [] e.type = "clue"             -> ReplanOutputs(<<e.task, ClueRev(e)>>)
          [] e.type = "estop"            ->
                SetToSeq({Failed(x, view[x].epoch, n) : x \in EstopTargets(e)})
          [] OTHER                       -> << >>

\* Mutant: a round is remembered only when the task has none.
RoundsAfter_KeepsFirst(e) ==
    CASE e.type = "bid_round_opened" ->
            IF rounds[e.task] # None THEN rounds
            ELSE [rounds EXCEPT ![e.task] = [rev |-> e.rev, epoch |-> e.epoch]]
      [] e.type \in TerminalTypes \cup {"task_assigned"} ->
            [rounds EXCEPT ![e.task] = None]
      [] OTHER -> rounds

RoundsAfter(e) ==
    CASE e.type = "bid_round_opened" ->
            [rounds EXCEPT ![e.task] = [rev |-> e.rev, epoch |-> e.epoch]]
      [] e.type \in TerminalTypes \cup {"task_assigned"} ->
            [rounds EXCEPT ![e.task] = None]
      [] OTHER -> rounds

Mentioned(e) ==
    IF e.rev # None THEN {<<e.task, e.rev>>}
    ELSE IF e.type = "clue" THEN {<<e.task, 1>>} ELSE {}

-----------------------------------------------------------------------------
(* One poll.                                                               *)

Goto(label) == pc' = label

Idle(label) == job' = NoJob /\ Goto(label)

CoordinatorTypes ==
    (GatedTypes \ {"action_intent"}) \cup
    {"bid", "receipt", "safety_intercept", "assignment_completed", "clue", "estop"}

RecoveryTypes ==
    {"task_posted", "bid_round_opened", "task_assigned", "task_replan"}
    \cup TerminalTypes

\* recover_control_state: the last event of a task, of a kind that sets or
\* clears its round, decides; a task revision is known unless it ended.
RecoveredRound(t) ==
    LET S == {n \in DOMAIN log : log[n].task = t /\ log[n].type \in
                                    RecoveryTypes \ {"task_posted"}}
        e == log[Max(S)]
    IN  IF S = {} \/ e.type # "bid_round_opened" THEN None
        ELSE [rev |-> e.rev, epoch |-> e.epoch]

RecoveredKnown ==
    {tr \in TaskRevs :
        LET S == {n \in DOMAIN log : log[n].type \in RecoveryTypes
                                       /\ <<log[n].task, log[n].rev>> = tr}
        IN  S # {} /\ log[Max(S)].type \notin TerminalTypes}

Recover ==
    /\ pc = "down"
    /\ rounds' = [t \in Tasks |-> RecoveredRound(t)]
    /\ known' = RecoveredKnown
    /\ Goto("replay")
    /\ UNCHANGED <<board, durable, upto, job, others>>

\* replay_outbox: outputs of inputs not consumed yet are left to the handler.
Replayable == {k \in Keys : outbox[k] # None /\ outbox[k].src <= offset}

Replay ==
    /\ pc = "replay"
    /\ IF Replayable = {}
       THEN Idle("poll")
       ELSE \E k \in Replayable :
               /\ job' = [NoJob EXCEPT !.from = "replay", !.outs = <<outbox[k].event>>]
               /\ Goto("stage")
    /\ UNCHANGED <<board, durable, memory, others>>

\* What read_since finds from the saved offset up to m.
Batch(m) == {n \in offset + 1 .. m : log[n].type \in CoordinatorTypes}

Unread == Batch(upto)

\* The rest of poll_once, after its batch: rounds are closed, or it returns.
\* Behind the batch there may be more events.
Ticking == pc = "take" /\ Unread = {}

\* The next call of poll_once reads a batch of at most BatchLimit events.
Poll ==
    /\ pc = "poll" \/ Ticking
    /\ upto' = Max({m \in offset .. Len(log) : Cardinality(Batch(m)) <= BatchLimit})
    /\ Goto("take")
    /\ UNCHANGED <<board, durable, rounds, known, job, others>>

Take ==
    /\ pc = "take" /\ Unread # {}
    /\ LET n == Min(Unread)
           e == log[n]
       IN  /\ known' = IF e.type \in TerminalTypes
                       THEN known \ {<<e.task, e.rev>>} ELSE known \cup Mentioned(e)
           /\ rounds' = RoundsAfter(e)
           /\ job' = [NoJob EXCEPT !.from = "input", !.src = n,
                                   !.outs = Outputs(e, n),
                                   !.more = e.type = "receipt" /\ AcceptedReceipt(e)]
           /\ Goto(IF Outputs(e, n) = << >> THEN "save" ELSE "stage")
    /\ UNCHANGED <<board, durable, upto, others>>

\* After the completion of an assignment is on the Blackboard.
FollowUp ==
    /\ pc = "followup"
    /\ LET r  == log[job.src]
           tr == <<r.task, r.rev>>
           v  == view[tr]
           outs == IF ReplanPending(v) THEN ReplanOutputs(tr)
                   ELSE IF v.plan.asgs \subseteq v.completed
                   THEN <<Done(tr, job.src)>> ELSE << >>
       IN  /\ job' = [job EXCEPT !.outs = outs, !.more = FALSE]
           /\ Goto(IF outs = << >> THEN "save" ELSE "stage")
    /\ UNCHANGED <<board, durable, memory, others>>

-----------------------------------------------------------------------------
(* Closing a bid round: which team the bids allow is left open.            *)

RoundOf(t) == <<t, rounds[t].rev>>

\* _planning_input refuses a round that the task left behind.
RoundStands(t) ==
    LET v == view[RoundOf(t)]
    IN  v.terminal = None /\ v.epoch = rounds[t].epoch /\ ~ReplanPending(v)

Drop(t) == rounds' = [rounds EXCEPT ![t] = None]

\* tick, for a round whose deadline has passed: the last of the two reads of the
\* task view in close_bid_round decides.
CloseRound(t) ==
    /\ Ticking /\ rounds[t] # None
    /\ IF RoundStands(t)
       THEN /\ job' = [NoJob EXCEPT !.from = "tick", !.task = t]
            /\ Goto("plan")
            /\ UNCHANGED rounds
       ELSE Drop(t) /\ UNCHANGED <<pc, job>>
    /\ UNCHANGED <<board, durable, known, upto, others>>

\* The plan cites the clues of the evidence view, read after the task view, as
\* far as they have not expired.
Citable(tr) == IF InEvidenceView(tr) THEN view[tr].pending ELSE {}

\* The team the bids allow, or a failure if there is none.
ChoosePlan ==
    /\ pc = "plan"
    /\ LET tr == RoundOf(job.task)
           ep == rounds[job.task].epoch
       IN  \E out \in {Assigned(tr, ep, refs) : refs \in SUBSET Citable(tr)}
                       \cup {Failed(tr, ep, 0)} :
              job' = [job EXCEPT !.outs = <<out>>]
    /\ Goto("stage")
    /\ UNCHANGED <<board, durable, memory, others>>

\* fail_for_agent_exit: the supervisor reports that a robot with an
\* assignment in the current plan is gone.
AgentExit(tr) ==
    /\ Ticking /\ tr \in known
    /\ view[tr].terminal = None /\ view[tr].plan # None
    /\ job' = [NoJob EXCEPT !.from = "exit", !.outs = <<Failed(tr, view[tr].epoch, 0)>>]
    /\ Goto("stage")
    /\ UNCHANGED <<board, durable, memory, others>>

-----------------------------------------------------------------------------
(* Publishing through the outbox.                                          *)

Current == Head(job.outs)

Staged == outbox[Current.key].event

\* Mutant: the newest event replaces the file.
Filed_Newest(record) == record

\* stage_event: the first event staged under a key is the canonical one.
Filed(record) ==
    IF outbox[record.event.key] # None THEN outbox[record.event.key] ELSE record

\* An exception (here: a key rejected before) returns to the caller of poll_once.
Stage ==
    /\ pc = "stage"
    /\ IF Current.key \in refused
       THEN Idle("poll") /\ UNCHANGED outbox
       ELSE /\ Goto("append")
            /\ outbox' = [outbox EXCEPT ![Current.key] =
                             Filed([event |-> Current, src |-> job.src])]
            /\ UNCHANGED job
    /\ UNCHANGED <<board, offset, refused, memory, others>>

\* What follows a published output.
Published ==
    /\ job' = [job EXCEPT !.outs = Tail(@), !.done = @ \cup {Current.key}]
    /\ Goto(CASE job.src = 0           -> "resolve"
              [] Len(job.outs) > 1     -> "stage"
              [] Len(job.outs) = 1 /\ job.src # 0 ->
                    IF job.more THEN "followup" ELSE "save")

\* Mutant: a refused event is not kept.
Quarantine_Drops(k) == refused' = refused

Quarantine(k) == refused' = refused \cup {k}

\* publish and _publish; a terminal conflict is confirmed and settled.
AppendOutput ==
    /\ pc = "append"
    /\ CASE Bd!Outcome(Staged) = "APPENDED" ->
              Bd!Commit(Staged) /\ Published /\ UNCHANGED refused
         [] Bd!Outcome(Staged) \in {"DUPLICATE_SAME", "TERMINAL_CONFLICT"} ->
              Published /\ UNCHANGED <<board, refused>>
         [] Bd!Outcome(Staged) = "REJECTED" ->
              /\ Quarantine(Current.key)
              /\ Goto("unlink")
              /\ UNCHANGED <<board, job>>
         [] Bd!Outcome(Staged) = "KEY_CONFLICT" ->
              Idle("poll") /\ UNCHANGED <<board, refused>>
    /\ UNCHANGED <<offset, outbox, memory, others>>

\* reject_event has written rejected/<key>.json and removes the outbox file.
Unlink ==
    /\ pc = "unlink"
    /\ outbox' = [outbox EXCEPT ![Current.key] = None]
    /\ Idle("poll")
    /\ UNCHANGED <<board, offset, refused, memory, others>>

\* Back to where the outputs came from; a closed round is dropped.
Return ==
    /\ Idle(IF job.from = "replay" THEN "replay" ELSE "take")
    /\ IF job.from = "tick" THEN Drop(job.task) ELSE UNCHANGED rounds

\* Mutant: the offset of the next event is saved.
SaveOffset_Next ==
    /\ pc = "save"
    /\ offset' = job.src + 1
    /\ IF job.done = {} THEN Return ELSE Goto("resolve") /\ UNCHANGED <<rounds, job>>
    /\ UNCHANGED <<board, outbox, refused, known, upto, others>>

SaveOffset ==
    /\ pc = "save"
    /\ offset' = job.src
    /\ IF job.done = {} THEN Return ELSE Goto("resolve") /\ UNCHANGED <<rounds, job>>
    /\ UNCHANGED <<board, outbox, refused, known, upto, others>>

\* One outbox file at a time.
Resolve ==
    /\ pc = "resolve"
    /\ \E k \in job.done :
          /\ outbox' = [outbox EXCEPT ![k] = None]
          /\ IF job.done = {k} THEN Return
             ELSE /\ job' = [job EXCEPT !.done = @ \ {k}]
                  /\ UNCHANGED <<rounds, pc>>
    /\ UNCHANGED <<board, offset, refused, known, upto, others>>

Crash ==
    /\ pc # "down" /\ crashes < MaxCrashes
    /\ crashes' = crashes + 1
    /\ rounds' = [t \in Tasks |-> None]
    /\ known' = {}
    /\ upto' = 0
    /\ Idle("down")
    /\ UNCHANGED <<board, durable, decided>>

-----------------------------------------------------------------------------
(* The other actors.                                                       *)

Arrive(e) ==
    /\ Bd!Outcome(e) = "APPENDED"
    /\ Bd!Commit(e)
    /\ UNCHANGED <<durable, memory, pc, job, crashes>>

\* Clues and e-stops concern tasks that are posted.
External(e) ==
    /\ e.type # "task_posted" => view[Bd!Target(e)].posted
    /\ Arrive(e)
    /\ UNCHANGED decided

AgentEvent(type, w) ==
    LET k == <<type, w.task, w.rev, w.epoch, w.asg>>
    IN  [type |-> type, task |-> w.task, rev |-> w.rev, id |-> <<k, 0>>, key |-> k,
         epoch |-> w.epoch, plan |-> w.plan, asg |-> w.asg]

Receipt(w, good) ==
    LET k == <<"receipt", w.task, w.rev, w.epoch, w.asg>>
    IN  [type |-> "receipt", task |-> w.task, rev |-> w.rev, id |-> <<k, 0>>, key |-> k,
         epoch |-> w.epoch, plan |-> w.plan, asg |-> w.asg, good |-> good]

\* A robot decides to carry out its assignment: it reads TASK_ASSIGNED and a
\* view in which that plan is current and no replan is pending.
Decide ==
    \E n \in DOMAIN log : log[n].type = "task_assigned" /\ \E a \in log[n].asgs :
        LET v == view[<<log[n].task, log[n].rev>>]
            w == [task |-> log[n].task, rev |-> log[n].rev, epoch |-> log[n].epoch,
                  plan |-> log[n].plan, asg |-> a]
        IN  /\ v.terminal = None /\ ~ReplanPending(v)
            /\ v.plan # None /\ v.plan.id = log[n].plan
            /\ w \notin decided
            /\ decided' = decided \cup {w}
            /\ UNCHANGED <<board, durable, memory, pc, job, crashes>>

\* Some time later it submits the action, once; the gate may refuse it.
Submit ==
    \E w \in decided :
        Arrive(AgentEvent("action_intent", w)) /\ UNCHANGED decided

Has(type, i) == \E m \in DOMAIN log : log[m].type = type /\ SameAction(i, log[m])

\* An action that passed the pre check is executed and reported once.
Report ==
    \E n \in DOMAIN log : log[n].type = "action_intent" /\ \E good \in BOOLEAN :
        /\ ~Has("receipt", log[n])
        /\ good => ~Has("safety_intercept", log[n])
        /\ Arrive(Receipt(log[n], good))
        /\ UNCHANGED decided

\* A check intercepts the action: before it, or its result.
Intercept ==
    /\ Intercepts
    /\ \E n \in DOMAIN log :
          /\ log[n].type = "action_intent"
          /\ ~Has("receipt", log[n]) /\ ~Has("safety_intercept", log[n])
          /\ Arrive(AgentEvent("safety_intercept", log[n]))
          /\ UNCHANGED decided

-----------------------------------------------------------------------------
Working ==
    \/ Recover \/ Replay \/ Poll \/ Take \/ FollowUp \/ ChoosePlan
    \/ Stage \/ AppendOutput \/ Unlink \/ SaveOffset \/ Resolve

Next ==
    \/ Working
    \/ \E t \in Tasks : CloseRound(t)
    \/ \E tr \in TaskRevs : AgentExit(tr)
    \/ Crash
    \/ \E e \in Offered : External(e)
    \/ Decide \/ Submit \/ Report \/ Intercept

Spec == Init /\ [][Next]_vars

\* The process is scheduled; a deadline passes, so a round that stays open is
\* closed by some tick; robots submit what they are assigned and report it.
FairSpec ==
    /\ Spec
    /\ WF_vars(Working)
    /\ \A t \in Tasks : SF_vars(CloseRound(t))
    /\ WF_vars(Decide)
    /\ WF_vars(Submit)
    /\ WF_vars(Report)

-----------------------------------------------------------------------------
(* Properties.                                                             *)

Labels == {"down", "replay", "poll", "take", "followup", "plan", "stage",
           "append", "unlink", "save", "resolve"}

\* Every variable keeps its shape.
TypeOK ==
    /\ Bd!Committed \subseteq Nat
    /\ offset \in 0 .. Len(log)
    /\ \A k \in Keys : outbox[k] # None =>
          outbox[k].event.key = k /\ outbox[k].src \in 0 .. Len(log)
    /\ refused \subseteq Keys
    /\ \A t \in Tasks : rounds[t] # None => rounds[t].rev \in Revs
    /\ known \subseteq TaskRevs
    /\ pc \in Labels
    /\ upto \in 0 .. Len(log)
    /\ crashes \in 0 .. MaxCrashes

Conflicting == pc = "append" /\ Bd!Outcome(Staged) = "KEY_CONFLICT"

\* Wherever the process crashes, no event but a plan is ever appended with other
\* content under a key already taken, and without a crash not even a plan.
NoKeyConflict ==
    Conflicting => Staged.type = "task_assigned" /\ crashes > 0

\* No output is lost: a file leaves the outbox only when its key is on the
\* Blackboard, its task has ended, or it is kept among the refused ones.
NoOutputLost ==
    [][\A k \in Keys : outbox[k] # None /\ outbox'[k] = None =>
          \/ byKey[k] # 0
          \/ k \in refused
          \/ /\ outbox[k].event.type \in TerminalTypes
             /\ byTerminal[<<outbox[k].event.task, outbox[k].event.rev>>] # 0]_vars

\* The task revisions posted before position n that a stop at n is about.
Stopped(n) ==
    {<<log[m].task, log[m].rev>> : m \in {i \in 1 .. n :
        log[i].type = "task_posted"
        /\ (log[n].rev # None => <<log[i].task, log[i].rev>> = <<log[n].task, log[n].rev>>)}}

Took(n) ==
    LET e == log[n]
        tr == <<e.task, e.rev>>
        v == view[tr]
        gone == v.terminal # None \/ v.epoch > e.epoch
    IN  CASE e.type = "task_posted" ->
                v.terminal # None \/ (tr \notin Slotless /\ v.epoch >= 1)
          [] e.type = "receipt" -> gone \/ (e.good /\ e.asg \in v.completed)
          [] e.type = "safety_intercept" -> v.terminal # None
          [] e.type = "estop" -> \A x \in Stopped(n) : view[x].terminal # None
          [] OTHER -> TRUE

\* An input counts as consumed only after it had its effect on the Blackboard,
\* whatever crashed in between.
ConsumedTookEffect == \A n \in 1 .. offset : Took(n)

\* A consumed clue is not forgotten while its task runs: it is pending only
\* while an action is in flight, or the end of that action is still unread.
ClueFollowed ==
    \A tr \in TaskRevs : ReplanPending(view[tr]) =>
        \/ \E c \in view[tr].pending : Position(c) > offset
        \/ InFlight(tr)
        \/ \E n \in offset + 1 .. Len(log) :
              /\ log[n].type \in {"receipt", "safety_intercept"}
              /\ <<log[n].task, log[n].rev>> = tr

\* Without a crash, however many clues arrive and whatever the robots, the safety
\* checks and the supervisor do meanwhile.
CluePursued == crashes = 0 => ClueFollowed

\* An open round whose opening was read is on the list of rounds to close.
OpenRoundTracked ==
    pc \in {"poll", "take"} =>
    \A tr \in TaskRevs :
        LET v == view[tr]
        IN  /\ v.round # None /\ v.terminal = None /\ ~ReplanPending(v)
            /\ \E n \in 1 .. offset : log[n].type = "bid_round_opened"
                  /\ <<log[n].task, log[n].rev>> = tr /\ log[n].epoch = v.epoch
            => rounds[tr[1]] = [rev |-> tr[2], epoch |-> v.epoch]

\* Every posted task ends.
TaskEnds == \A tr \in TaskRevs : view[tr].posted ~> view[tr].terminal # None

\* Pending clues lead to replans or plans that cite them, or the task ends.
CluesAnswered ==
    \A tr \in TaskRevs : view[tr].pending # {} ~> view[tr].pending = {}

\* An input handled again after a restart publishes what it staged before
\* (the comment in stage_event): no input opens two rounds.
OneRoundPerInput ==
    \A k, l \in Keys :
        /\ outbox[k] # None /\ outbox[l] # None
        /\ outbox[k].src = outbox[l].src /\ outbox[k].src # 0
        /\ outbox[k].event.type = "bid_round_opened"
        /\ outbox[l].event.type = "bid_round_opened"
        => k = l

\* A replan is followed by the round of its epoch, before the Coordinator
\* goes on to the replan event itself.
ReplanOpensRound ==
    \A m \in 1 .. offset : log[m].type = "task_replan" =>
        LET tr == <<log[m].task, log[m].rev>>
        IN  view[tr].terminal # None \/ \E n \in m + 1 .. Len(log) :
                /\ log[n].type = "bid_round_opened"
                /\ <<log[n].task, log[n].rev>> = tr
                /\ log[n].epoch = log[m].from + 1

\* The docstring of the gate: a stale terminal does not block the real one.
TerminalNotBlocked ==
    \A tr \in TaskRevs :
        TerminalKey(tr) \in refused => view[tr].terminal # None
=============================================================================
