------------------------------ MODULE AgentHost ------------------------------
(***************************************************************************)
(* The host process of one robot on top of the Blackboard of module Board. *)
(*                                                                         *)
(* One poll fills the mailbox from the log and handles what is in it.  The *)
(* pure loop turns an input, the session of its task and the task view     *)
(* into a new session and at most one effect: a bid, an action or the      *)
(* removal of the session.  An action goes through the fixed order         *)
(* ACTION_INTENT, pre check, dispatch, post check, RECEIPT.  Everything    *)
(* that is written to a file or reaches the log or the robot is a step of  *)
(* its own; other actors append in between, and the process may crash      *)
(* between any two of them.                                                *)
(*                                                                         *)
(* The other actors are external: they may append any event of Offered     *)
(* that the gate accepts, at any time.  Sessions carry the fields the loop *)
(* reads, and their state; revision, last receipt and version number are   *)
(* only written.                                                           *)
(***************************************************************************)
EXTENDS TaskView, SequencesExt, FiniteSetsExt

CONSTANTS
    Offered,      \* what the other actors may append
    MaxLog,       \* parameter of Board; not a bound here
    Mine,         \* the assignments that are for this robot
    MailboxSize,
    BidContents,  \* the offers a bid may make: they depend on the robot's state
    MaxCrashes    \* bound on crashes, for model checking

ASSUME HostAssumption ==
    /\ Offered \subseteq Event
    /\ \A e \in Offered : e.type \in {"receipt", "safety_intercept"} => e.asg \notin Mine
    /\ Mine \subseteq AssignmentIds
    /\ MailboxSize \in Nat \ {0}
    /\ BidContents # {}
    /\ MaxCrashes \in Nat

VARIABLES
    log, byId, byKey, byTerminal, latest, view,     \* the Blackboard
    offset,    \* consumer.json: position of the last input consumed
    session,   \* tasks/<task>/session.json, or None
    outbox,    \* tasks/<task>/outbox/<key>.json: [event, src], or None
    refused,   \* tasks/<task>/rejected/<key>.json
    raw,       \* tasks/<task>/raw_receipts/<intent>.json
    mailbox,   \* positions of the inputs to handle
    pc,        \* where poll_once is
    job,       \* the input being handled, see NoJob
    carried,   \* the actions the robot carried out, with their outcome
    crashes

Bd == INSTANCE Board

\* An action is what makes up the id of its intent; a session is what the loop
\* reads of a TaskSession.
Actions == [task : Tasks, rev : Revs, epoch : Nat, plan : PlanIds, asg : AssignmentIds]

IntentStates == {"proposed", "dispatching", "dispatched", "succeeded", "failed",
                 "safety_blocked"}

Intents == [act : Actions, state : IntentStates]

Sessions == [epoch  : Nat,
             state  : {"observed", "standby", "active", "done", "failed"},
             asg    : Mine \cup {None},
             intent : Intents \cup {None}]

ASSUME AbsentAssumption == None \notin Actions /\ None \notin Intents /\ None \notin Sessions

board    == <<log, byId, byKey, byTerminal, latest, view>>
files    == <<offset, session, outbox, refused, raw>>
volatile == <<mailbox, pc, job>>
vars     == <<board, files, volatile, carried, crashes>>

TaskRevs == Tasks \X Revs

\* src: input position; task: its task; after: its new session; out: event to
\* publish; then: where to go on; act: the action; outcome: of its dispatch;
\* keys: _pending_commit_keys; stale: a raw receipt to remove; clean: cleanup.
NoJob == [src |-> 0, task |-> None, after |-> None, out |-> None, then |-> "none",
          act |-> None, outcome |-> None, keys |-> << >>, stale |-> FALSE, clean |-> FALSE]

Init ==
    /\ Bd!Init
    /\ offset = 0
    /\ session = [t \in Tasks |-> None]
    /\ outbox = [k \in Keys |-> None]
    /\ refused = {}
    /\ raw = {}
    /\ mailbox = << >>
    /\ pc = "replay"
    /\ job = NoJob
    /\ carried = << >>
    /\ crashes = 0

-----------------------------------------------------------------------------
(* The events the host publishes.                                          *)

Act(e, a) == [task |-> e.task, rev |-> e.rev, epoch |-> e.epoch, plan |-> e.plan, asg |-> a]

\* The action an event is about; its fields make up the intent id.
ActOf(e) == Act(e, e.asg)

\* r is a BID_ROUND_OPENED; c is what the bid offers.
Bid(r, c) ==
    LET k == <<"bid", r.task, r.rev, r.epoch, r.number>>
    IN  [type |-> "bid", task |-> r.task, rev |-> r.rev, id |-> Append(k, c), key |-> k]

ActionKey(type, phase, act) == <<type, act.task, act.rev, act.epoch, act.asg, phase>>

ActionEvent(type, phase, act) ==
    LET k == ActionKey(type, phase, act)
    IN  [type |-> type, id |-> k, key |-> k, task |-> act.task, rev |-> act.rev,
         epoch |-> act.epoch, plan |-> act.plan, asg |-> act.asg]

IntentEvent(act)    == ActionEvent("action_intent", "", act)
Intercepted(act, p) == ActionEvent("safety_intercept", p, act)

Receipt(act, ok) ==
    LET k == ActionKey("receipt", "", act)
    IN  [type |-> "receipt", id |-> k, key |-> k, task |-> act.task, rev |-> act.rev,
         epoch |-> act.epoch, plan |-> act.plan, asg |-> act.asg, good |-> ok]

HostTypes == {"bid", "action_intent", "safety_intercept", "receipt"}

IsHostEvent(e) == e \in Event /\ e.type \in HostTypes /\ e.key # None

\* Ids and keys are strings: there is one for everything the host publishes.
ASSUME HostEventsAssumption ==
    \A e \in Offered :
        /\ e.type = "bid_round_opened" => \A c \in BidContents : IsHostEvent(Bid(e, c))
        /\ e.type = "task_assigned" => \A a \in e.asgs \cap Mine :
              LET act == Act(e, a)
              IN  /\ IsHostEvent(IntentEvent(act))
                  /\ \A p \in {"pre", "post"} : IsHostEvent(Intercepted(act, p))
                  /\ \A ok \in BOOLEAN : IsHostEvent(Receipt(act, ok))

-----------------------------------------------------------------------------
(* PureAgentLoop: the session after an input.                              *)

\* TaskSession.observed
Observed == [epoch |-> 0, state |-> "observed", asg |-> None, intent |-> None]

Loaded(t) == IF session[t] # None THEN session[t] ELSE Observed

ViewOf(e) == view[<<e.task, e.rev>>]

\* The loop refuses to consume an assignment while a replan is pending.
Consumes(e) == e.type = "task_assigned" => ~ReplanPending(ViewOf(e))

\* The assignment is part of the current plan.
InForce(e, s) ==
    LET v == ViewOf(e)
    IN  /\ v.terminal = None
        /\ e.epoch = v.epoch
        /\ s.epoch <= e.epoch
        /\ v.plan # None /\ e.plan = v.plan.id /\ e.asgs \subseteq v.plan.asgs

MyAct(e) == Act(e, CHOOSE a \in e.asgs \cap Mine : TRUE)

ForMe(e) == e.asgs \cap Mine # {}

\* Mutant: an action that was only planned counts as begun, too.
Begun_Proposed(e, s) == s.intent # None /\ s.intent.act = MyAct(e)

\* A repeated assignment whose action was handed to the robot, or got further.
Begun(e, s) ==
    s.intent # None /\ s.intent.act = MyAct(e) /\ s.intent.state # "proposed"

Submits(e, s) ==
    e.type = "task_assigned" /\ InForce(e, s) /\ ForMe(e) /\ ~Begun(e, s)

AfterAssigned(e, s) ==
    IF ~InForce(e, s) THEN s
    ELSE IF ~ForMe(e)
    THEN [epoch |-> e.epoch, state |-> "standby", asg |-> None, intent |-> None]
    ELSE [epoch |-> e.epoch, state |-> "active", asg |-> MyAct(e).asg,
          intent |-> IF Begun(e, s) THEN s.intent
                     ELSE [act |-> MyAct(e), state |-> "proposed"]]

Concerns(e, s) == s.intent # None /\ s.intent.act = ActOf(e)

AfterIntent(e, s) ==
    IF Concerns(e, s) /\ s.intent.state = "proposed"
    THEN [s EXCEPT !.intent.state = "dispatched"] ELSE s

\* "failed" also stands for the code's dispatch_unknown.
AfterReceipt(e, s) ==
    IF ~Concerns(e, s) THEN s
    ELSE IF e.good THEN [s EXCEPT !.intent.state = "succeeded"]
    ELSE [s EXCEPT !.intent.state = "failed", !.state = "failed"]

AfterIntercept(e, s) ==
    IF Concerns(e, s)
    THEN [s EXCEPT !.intent.state = "safety_blocked", !.state = "failed"] ELSE s

AfterCompleted(e, s) ==
    IF s.asg # None /\ e.asg = s.asg THEN [s EXCEPT !.state = "done"] ELSE s

\* Mutant: the action of the replaced plan stays in the session.
AfterReplan_KeepsIntent(e, s) ==
    IF e.from # s.epoch THEN s
    ELSE [s EXCEPT !.epoch = e.from + 1, !.state = "observed"]

AfterReplan(e, s) ==
    IF e.from # s.epoch THEN s ELSE [Observed EXCEPT !.epoch = e.from + 1]

\* yes: the stop reaches this robot.
AfterStop(s, yes) == IF yes THEN [s EXCEPT !.state = "failed"] ELSE s

\* yes: the deadline has not passed.
AfterRound(e, s, yes) ==
    IF yes /\ ViewOf(e).terminal = None
    THEN [s EXCEPT !.epoch = e.epoch, !.state = "standby"] ELSE s

SessionAfter(e, s, yes) ==
    CASE e.type = "bid_round_opened"     -> AfterRound(e, s, yes)
      [] e.type = "task_assigned"        -> AfterAssigned(e, s)
      [] e.type = "action_intent"        -> AfterIntent(e, s)
      [] e.type = "receipt"              -> AfterReceipt(e, s)
      [] e.type = "safety_intercept"     -> AfterIntercept(e, s)
      [] e.type = "assignment_completed" -> AfterCompleted(e, s)
      [] e.type = "task_replan"          -> AfterReplan(e, s)
      [] e.type = "task_done"            -> [s EXCEPT !.state = "done"]
      [] e.type = "task_failed"          -> [s EXCEPT !.state = "failed"]
      [] e.type = "estop"                -> AfterStop(s, yes)

-----------------------------------------------------------------------------
(* One poll.                                                               *)

AgentTypes ==
    {"bid_round_opened", "task_assigned", "action_intent", "receipt",
     "safety_intercept", "assignment_completed", "task_replan", "estop"}
    \cup TerminalTypes

Goto(label) == pc' = label

\* A job that is over, in the one or the other way.
Leave(label) == job' = NoJob /\ Goto(label)

\* replay_outbox: outputs of inputs not consumed yet are left to the handler.
Replayable == {k \in Keys : outbox[k] # None /\ outbox[k].src <= offset}

\* Whoever starts the process again; the code itself never does.
Restart ==
    /\ pc = "down"
    /\ mailbox' = << >>
    /\ Leave("replay")
    /\ UNCHANGED <<board, files, carried, crashes>>

Replay ==
    /\ pc = "replay"
    /\ IF Replayable = {}
       THEN Leave("poll")
       ELSE \E k \in Replayable :
               /\ job' = [NoJob EXCEPT !.out = outbox[k].event, !.then = "settle"]
               /\ Goto("stage")
    /\ UNCHANGED <<board, files, mailbox, carried, crashes>>

Unread == {n \in DOMAIN log : n > offset /\ log[n].type \in AgentTypes}

\* Mutant: the rest of an unfinished batch is not counted.
Room_WholeMailbox == MailboxSize

Room == MailboxSize - Len(mailbox)

\* The first of the unread events, as many as there is room for.
Batch == {n \in Unread : Cardinality({m \in Unread : m < n}) < Room}

\* The positions of S as read_since returns them.
IsReadOf(s, S) == Range(s) = S /\ \A i, j \in DOMAIN s : i < j => s[i] < s[j]

\* The rest of an unfinished batch stays in front of what is read again.
Poll ==
    /\ pc = "poll" \/ (pc = "take" /\ mailbox = << >>)
    /\ \E s \in [1 .. Cardinality(Batch) -> Batch] :
          IsReadOf(s, Batch) /\ mailbox' = mailbox \o s
    /\ Goto("take")
    /\ UNCHANGED <<board, files, job, carried, crashes>>

\* The step of the loop.  The proposed action is saved before it is submitted.
Handle(n, yes) ==
    LET e == log[n]
        s == SessionAfter(e, Loaded(e.task), yes)
        base == [NoJob EXCEPT !.src = n, !.task = e.task, !.after = s]
    IN  IF Submits(e, Loaded(e.task))
        THEN /\ session' = [session EXCEPT ![e.task] = s]
             /\ job' = [base EXCEPT !.act = MyAct(e), !.out = IntentEvent(MyAct(e)),
                                    !.then = "precheck"]
             /\ Goto("stage")
        ELSE IF e.type = "bid_round_opened" /\ yes /\ ViewOf(e).terminal = None
        THEN /\ \E c \in BidContents :
                   job' = [base EXCEPT !.out = Bid(e, c), !.then = "finish"]
             /\ Goto("stage")
             /\ UNCHANGED session
        ELSE /\ job' = [base EXCEPT !.clean = e.type \in TerminalTypes]
             /\ Goto("finish")
             /\ UNCHANGED session

\* A stop that names no task only leaves its mark in the offset.
Take ==
    /\ pc = "take" /\ mailbox # << >>
    /\ mailbox' = Tail(mailbox)
    /\ LET n == Head(mailbox)
           e == log[n]
       IN  IF e.type = "estop" /\ e.rev = None
           THEN job' = [NoJob EXCEPT !.src = n] /\ Goto("offset") /\ UNCHANGED session
           ELSE IF ~Consumes(e)
           THEN Leave("poll") /\ UNCHANGED session
           ELSE \E yes \in BOOLEAN : Handle(n, yes)
    /\ UNCHANGED <<board, offset, outbox, refused, raw, carried, crashes>>

-----------------------------------------------------------------------------
(* Publishing through the outbox.                                          *)

\* Nothing catches an exception: the process ends.
Abort == Leave("down")

Staged == outbox[job.out.key].event

\* stage_task_event: the first event staged under a key is the canonical one.
Stage ==
    /\ pc = "stage"
    /\ LET k == job.out.key
       IN  IF k \in refused
           THEN Abort /\ UNCHANGED outbox
           ELSE /\ outbox' = IF outbox[k] # None THEN outbox
                             ELSE [outbox EXCEPT ![k] = [event |-> job.out, src |-> job.src]]
                /\ Goto("append")
                /\ UNCHANGED job
    /\ UNCHANGED <<board, offset, session, refused, raw, mailbox, carried, crashes>>

AppendOutput ==
    /\ pc = "append"
    /\ CASE Bd!Outcome(Staged) = "APPENDED" ->
              Bd!Commit(Staged) /\ UNCHANGED refused
         [] Bd!Outcome(Staged) = "REJECTED" ->
              refused' = refused \cup {job.out.key} /\ UNCHANGED board
         [] OTHER -> UNCHANGED <<board, refused>>
    /\ CASE Bd!Outcome(Staged) \in {"APPENDED", "DUPLICATE_SAME"} ->
              job' = [job EXCEPT !.keys = Append(@, job.out.key)] /\ Goto(job.then)
         [] Bd!Outcome(Staged) = "REJECTED" -> Goto("unlink") /\ UNCHANGED job
         [] OTHER -> Abort
    /\ UNCHANGED <<offset, session, outbox, raw, mailbox, carried, crashes>>

\* reject_task_event has written the rejected file and removes the other one.
Unlink ==
    /\ pc = "unlink"
    /\ outbox' = [outbox EXCEPT ![job.out.key] = None]
    /\ Abort
    /\ UNCHANGED <<board, offset, session, refused, raw, mailbox, carried, crashes>>

-----------------------------------------------------------------------------
(* ActionExecutor, after ACTION_INTENT.                                    *)

Publish(e, then) == job' = [job EXCEPT !.out = e, !.then = then] /\ Goto("stage")

\* With its receipt published, the raw one may go once the input is consumed.
PublishReceipt(ok) ==
    /\ job' = [job EXCEPT !.out = Receipt(job.act, ok), !.then = "finish", !.stale = TRUE]
    /\ Goto("stage")

\* Mutant: the session is not saved before the dispatch.
MarkDispatching_Late(t) == session' = session

\* _mark_dispatching
MarkDispatching(t) == session' = [session EXCEPT ![t].intent.state = "dispatching"]

\* Mutant: a refused action is dropped without a word.
PreCheck_Silent ==
    /\ pc = "precheck"
    /\ \/ MarkDispatching(job.task) /\ Goto("dispatch")
       \/ Goto("finish") /\ UNCHANGED session
    /\ UNCHANGED <<board, offset, outbox, refused, raw, mailbox, job, carried, crashes>>

\* The safety check answers with a verdict that is valid.
PreCheck ==
    /\ pc = "precheck"
    /\ \/ /\ MarkDispatching(job.task)
          /\ Goto("dispatch")
          /\ UNCHANGED job
       \/ /\ Publish(Intercepted(job.act, "pre"), "finish")
          /\ UNCHANGED session
    /\ UNCHANGED <<board, offset, outbox, refused, raw, mailbox, carried, crashes>>

Outcomes == {"good", "bad", "unknown"}

\* The robot acts; an exception or a receipt of another action is "unknown".
Dispatch ==
    /\ pc = "dispatch"
    /\ \E o \in Outcomes :
          /\ carried' = Append(carried, [act |-> job.act, outcome |-> o])
          /\ job' = [job EXCEPT !.outcome = o]
    /\ Goto("store")
    /\ UNCHANGED <<board, files, mailbox, crashes>>

StoreRaw ==
    /\ pc = "store"
    /\ raw' = raw \cup {job.act}
    /\ Goto("postcheck")
    /\ UNCHANGED <<board, offset, session, outbox, refused, mailbox, job, carried, crashes>>

\* Mutant: the receipt says good whatever the robot reported.
Succeeded_Always(o) == TRUE

Succeeded(o) == o = "good"

PostCheck ==
    /\ pc = "postcheck"
    /\ \/ /\ job.outcome # "unknown"
          /\ PublishReceipt(Succeeded(job.outcome))
       \/ Publish(Intercepted(job.act, "post"), "failed")
    /\ UNCHANGED <<board, files, mailbox, carried, crashes>>

\* After the post check intercepted the result.
ReportFailed ==
    /\ pc = "failed"
    /\ PublishReceipt(FALSE)
    /\ UNCHANGED <<board, files, mailbox, carried, crashes>>

-----------------------------------------------------------------------------
(* The end of an input.                                                    *)

\* After an action the session on file is newer than that of the loop.
SaveSession ==
    /\ pc = "finish"
    /\ session' = IF job.act # None THEN session
                  ELSE [session EXCEPT ![job.task] = job.after]
    /\ Goto("offset")
    /\ UNCHANGED <<board, offset, outbox, refused, raw, mailbox, job, carried, crashes>>

\* The offset cannot move backwards.
SaveOffset ==
    /\ pc = "offset"
    /\ IF job.src < offset
       THEN Abort /\ UNCHANGED offset
       ELSE offset' = job.src /\ Goto("settle") /\ UNCHANGED job
    /\ UNCHANGED <<board, session, outbox, refused, raw, mailbox, carried, crashes>>

Resolve ==
    /\ pc = "settle" /\ job.keys # << >>
    /\ outbox' = [outbox EXCEPT ![Head(job.keys)] = None]
    /\ job' = [job EXCEPT !.keys = Tail(@)]
    /\ UNCHANGED <<board, offset, session, refused, raw, mailbox, pc, carried, crashes>>

\* Mutant: the raw receipt goes as soon as its RECEIPT is out.
RemoveRaw_Early ==
    /\ pc \in {"finish", "settle"} /\ job.stale
    /\ raw' = raw \ {job.act}
    /\ job' = [job EXCEPT !.stale = FALSE]
    /\ UNCHANGED <<board, offset, session, outbox, refused, mailbox, pc, carried, crashes>>

RemoveRaw ==
    /\ pc = "settle" /\ job.keys = << >> /\ job.stale
    /\ raw' = raw \ {job.act}
    /\ job' = [job EXCEPT !.stale = FALSE]
    /\ UNCHANGED <<board, offset, session, outbox, refused, mailbox, pc, carried, crashes>>

OfTask(k, t) == k[2] = t

\* cleanup_task does nothing while the task has an outbox file or a raw receipt.
Cleanup ==
    /\ pc = "settle" /\ job.keys = << >> /\ ~job.stale /\ job.clean
    /\ IF \/ \E k \in Keys : outbox[k] # None /\ OfTask(k, job.task)
          \/ \E a \in raw : a.task = job.task
       THEN UNCHANGED <<session, refused>>
       ELSE /\ session' = [session EXCEPT ![job.task] = None]
            /\ refused' = {k \in refused : ~OfTask(k, job.task)}
    /\ Leave("take")
    /\ UNCHANGED <<board, offset, outbox, raw, mailbox, carried, crashes>>

Settled ==
    /\ pc = "settle" /\ job.keys = << >> /\ ~job.stale /\ ~job.clean
    /\ Leave(IF job.src = 0 THEN "replay" ELSE "take")
    /\ UNCHANGED <<board, files, mailbox, carried, crashes>>

Crash ==
    /\ pc # "down" /\ crashes < MaxCrashes
    /\ crashes' = crashes + 1
    /\ mailbox' = << >>
    /\ Leave("down")
    /\ UNCHANGED <<board, files, carried>>

-----------------------------------------------------------------------------
\* A completion follows a good receipt of its action.
External(e) ==
    /\ Bd!Outcome(e) = "APPENDED"
    /\ e.type = "assignment_completed" =>
          \E n \in DOMAIN log : /\ log[n].type = "receipt" /\ log[n].good
                                /\ ActOf(log[n]) = ActOf(e)
    /\ Bd!Commit(e)
    /\ UNCHANGED <<files, volatile, carried, crashes>>

HostStep ==
    \/ Replay \/ Poll \/ Take
    \/ Stage \/ AppendOutput \/ Unlink
    \/ PreCheck \/ Dispatch \/ StoreRaw \/ PostCheck \/ ReportFailed
    \/ SaveSession \/ SaveOffset \/ Resolve \/ RemoveRaw \/ Cleanup \/ Settled

Next ==
    \/ HostStep
    \/ Restart \/ Crash
    \/ \E e \in Offered : External(e)

Spec == Init /\ [][Next]_vars

-----------------------------------------------------------------------------
(* Properties.                                                             *)

Labels == {"down", "replay", "poll", "take", "stage", "append", "unlink",
           "precheck", "dispatch", "store", "postcheck", "failed",
           "finish", "offset", "settle"}

\* Every variable keeps its shape.
TypeOK ==
    /\ offset \in 0 .. Len(log)
    /\ session \in [Tasks -> Sessions \cup {None}]
    /\ \A k \in Keys : outbox[k] # None =>
          outbox[k].event.key = k /\ outbox[k].src \in 0 .. Len(log)
    /\ refused \subseteq Keys
    /\ Len(mailbox) <= MailboxSize
    /\ pc \in Labels
    /\ crashes \in 0 .. MaxCrashes

Has(type, act) ==
    \E n \in DOMAIN log : log[n].type = type /\ ActOf(log[n]) = act

\* An action is sent to the robot at most once, wherever the process crashes
\* and whatever is read again (the comment in _on_task_assigned).
AtMostOnce ==
    \A m, n \in DOMAIN carried : m # n => carried[m].act # carried[n].act

\* The order of ActionExecutor: nothing is carried out without its intent on
\* the Blackboard, and its receipt tells of an action that was carried out, as
\* it turned out, also when a restart lies in between.
ReportsWhatHappened ==
    /\ \A n \in DOMAIN carried : Has("action_intent", carried[n].act)
    /\ \A m \in DOMAIN log : log[m].type = "receipt" /\ log[m].asg \in Mine =>
          \E n \in DOMAIN carried :
             /\ carried[n].act = ActOf(log[m])
             /\ log[m].good => carried[n].outcome = "good"

\* The raw receipt is the only trace of an action until its RECEIPT is on the
\* Blackboard and the input is consumed (the comment in __init__).
RawReceiptKept ==
    [][\A a \in raw \ raw' :
          /\ Has("receipt", a)
          /\ \E n \in 1 .. offset :
                log[n].type = "task_assigned" /\ ForMe(log[n]) /\ MyAct(log[n]) = a]_vars

\* No assignment is skipped: one that the consumer offset has passed was
\* submitted, or its plan is being or has been replaced.
AssignmentHandled ==
    \A n \in 1 .. offset :
        log[n].type = "task_assigned" /\ ForMe(log[n]) =>
            LET v == ViewOf(log[n])
            IN  \/ Has("action_intent", MyAct(log[n]))
                \/ v.epoch > log[n].epoch \/ v.terminal # None \/ ReplanPending(v)

\* The states of an action that fit the last word on it in the log up to p.
Fitting(act, p) ==
    LET S == {n \in 1 .. p : log[n].type \in {"receipt", "safety_intercept"}
                               /\ ActOf(log[n]) = act}
    IN  IF S = {} THEN {"proposed", "dispatching", "dispatched"}
        ELSE IF log[Max(S)].type = "safety_intercept" THEN {"safety_blocked"}
        ELSE IF log[Max(S)].good THEN {"succeeded"} ELSE {"failed"}

\* Session and offset are two files: after a crash the session may be one
\* input ahead of the offset.
Reached == {offset} \cup (IF Unread = {} THEN {} ELSE {Min(Unread)})

\* Between two inputs the session of a task follows the log, whatever was
\* handled again, as long as no other task is in the mailbox: it is of the epoch
\* of its action, and the action is open or over as the last receipt or
\* intercept says.
SessionFollowsLog ==
    pc \in {"poll", "take"} =>
    \A t \in Tasks : session[t] # None /\ session[t].intent # None =>
        LET s == session[t]
        IN  /\ s.intent.act.epoch = s.epoch
            /\ \E p \in Reached : s.intent.state \in Fitting(s.intent.act, p)
            /\ s.intent.state \in {"failed", "safety_blocked"} => s.state # "active"

\* An action announced on the Blackboard is answered there by a receipt or an
\* intercept before the host goes on or ends, unless a crash interrupts it: no
\* answer of the host is refused, whatever the others append meanwhile.
IntentAnswered ==
    crashes = 0 /\ pc \in {"poll", "take", "down"} =>
    \A n \in DOMAIN log : log[n].type = "action_intent" /\ log[n].asg \in Mine =>
        Has("receipt", ActOf(log[n])) \/ Has("safety_intercept", ActOf(log[n]))

\* The header of the module promises FIFO: an input that is handled lies after
\* the inputs consumed before it.
HandledInOrder ==
    [][pc = "take" /\ job'.src # 0 => job'.src > offset]_vars

\* The comment in replay_outbox: an output whose input is not consumed yet is
\* produced again by that input.  So the receipt of an action that was carried
\* out is on the Blackboard once the assignment is consumed.
ReceiptRedone ==
    pc \in {"poll", "take"} =>
    \A k \in Keys :
        /\ outbox[k] # None /\ outbox[k].event.type = "receipt"
        /\ outbox[k].src <= offset
        => byKey[k] # 0
=============================================================================
