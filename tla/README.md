# Blackboard coordination: a TLA+ verification project

The program coordinates a small swarm of simulated robots (drone, dog,
vehicle) over an in-process, append-only **Blackboard**.  A deterministic
**Coordinator** watches the Blackboard, opens bid rounds, assigns plans and
replans on new evidence; one **agent host** per robot bids, carries out its
assignments through a tool gateway and reports receipts.  Everything else
(memory, observability, dashboard, LLM policy) hangs off those three.

This directory holds a model of the program, the TLC runs that check it on
small instances and TLAPS proofs of the theorems that matter most.  Paths below
are relative to the repository.  "Legacy" means schema version 1.

## 1. The system

### 1.1 Components

| Component | Code | State | Operations |
|---|---|---|---|
| Blackboard | `blackboard/board.py`, `validation.py` | event list; indexes by event id, idempotency key and task terminal; subscriptions; leases | `append`, `read_since`, `query_view`, `subscribe`, `claim`/`release`, agent snapshots |
| Views | `blackboard/view.py` | none: folds of the log | `task_coordination`, `bid_round`, `action`, `agent_public` |
| Coordinator | `coordination/coordinator.py` | `_active_rounds`, `_known_tasks` in memory; input offset and outbox on disk | one handler per input event, `close_due_rounds`, `close_bid_round`, `replay_outbox` |
| Publisher and file store | `coordination/publisher.py`, `file_session_store.py`, `blackboard_client.py` | outbox files, quarantine, consumer offsets, sessions (write to temporary, fsync, rename) | `stage_event`, `resolve`, `reject_event`, `save_consumer_offset`, `save_session`, `cleanup_task`; `publish` maps append results to errors |
| Agent process host | `coordination/agent_process.py` | mailbox in memory; consumer offset, sessions, outbox and raw receipts on disk | `poll_once`, `replay_outbox`, one envelope at a time |
| Agent loop | `coordination/agent_loop.py` | none: a function of the input and the session of the task | one handler per event type |
| Action executor | `coordination/action_executor.py` | none | gate an intent, invoke the tool, build the receipt |
| Policy | `coordination/policy.py`, `mode_selector.py`, `conflict.py`, `runtime/deepseek.py` | none | match bids to assignments, choose actions; the LLM variant falls back to the rules |
| Tool access | `access/tool_runtime.py`, `tool_gateway.py`, `registry.py`, adapters, tools | registry of tools, results by idempotency key | `dispatch`, `invoke` with binding, authorisation, schema, timeout and idempotency |
| Safety | `safety/*.py` | `MockEmergencyStopBus`: the scopes that are stopped | guardrail, autonomy level, reversibility; `signal`, `clear`, `is_stopped` |
| Memory | `memory/store.py`, `consolidation.py` | SQLite tables of private memories, candidates, shared facts and consolidations | `put_private`, `add_candidate`, `decide_candidate`, retention, `consolidate`, retrieval |
| Observability | `observability/hub.py`, `storage.py`, `exporter.py`, `redaction.py` | tiered queue, writer thread, SQLite store, emergency log with backups | runs, spans and events; `enqueue`, `flush`, `enforce_retention`, `close` |
| Runtime driver | `runtime/coordination_runtime.py`, `harness.py` | one run: Board, hosts, logical clock | `_run_chain`, a fixed script of polls; `_assert_closed_loop` |
| Dashboard | `runtime/dashboard_server.py` | registry of runs, one live at a time; their messages | HTTP: start, stream, inspect, review |
| Ingress | `ingress/*.py` | none | parse an instruction into a task, post it |
| Assets, contracts | `assets/*.py`, `contracts/*.py` | skill library; data types | registration, dataclasses |

### 1.2 How they interact

All coordination goes through the log.  The Coordinator and each host read it by
offset, handle an event, append what follows from it and then save the offset;
nothing is transactional across the append and the save, so every handler can be
run again after a restart.  The Blackboard answers an append with one of
`APPENDED`, `DUPLICATE_SAME`, `KEY_CONFLICT`, `TERMINAL_CONFLICT`, `REJECTED`.
A *transition gate* rejects an ownership event that does not fit the fold of
the committed prefix; facts (bids, clues, receipts, completions) are always
accepted.  A replan raises the task's *coordination epoch*; everything that
carries an older epoch is stale.  The device side is reached only through
the action executor, inside the handler of an assignment.

### 1.3 What is hard

* Producers act on a view that may be stale when their append reaches the
  lock: a clue, a terminal or a replan may come in between.
* A crash between the append, the offset save and the outbox update of one
  handler; the handler is then run again on a log it has already changed.
* Gate and fold are two programs that must agree, or an accepted event
  that is ignored blocks its key for ever.
* Evidence (clues) must be consumed exactly once by replans, whatever is
  in flight.
* Effects on devices must not be repeated after a restart, and a receipt must
  not be lost.
* Bounded queues, check-then-act caches and late worker threads in
  observability, tools and dashboard.

`PROJECT.json` lists these at the lines where they bite ("hazards").

### 1.4 What makes each component correct

* **Blackboard**: the same thing is committed once; gate and fold agree; a
  stale terminal never blocks the real one; an intent is committed only under the
  one plan of its epoch; done is earned; no clue is forgotten and none
  replans twice; a view is a fold that never changes retroactively.
* **Coordinator**: after any crash it reaches the state it would have reached
  without; every posted task gets a round, every pending clue a replan once
  nothing is in flight; it never stages an event that is later refused and blocks
  the next one.  (Without a crash it does; section 6 has what it does not.)
* **Agent host and loop**: events are handled in log order and once; an
  action is dispatched at most once; every dispatched action gets its receipt on the
  log; sessions of a terminal task disappear.
* **Tool access and stop**: a device executes an intent at most once and answers it
  once, whatever timed out; after a stop at most the action under way is executed; every
  stop leaves its trace (it does not, section 6).
* **Subscriptions and reads**: a subscriber hears every event once, a reader misses
  none and never sleeps on one.
* **Teams**: a committed team fits the fleet as it was read last, and shares no robot with
  another task; a round of well-formed slots fails only when there is no team.
* **Memory**: what is served was approved with evidence and is not superseded; a
  consolidation that is done again changes nothing.
* **Observability**: `flush` returns only when all is settled; a critical record never
  vanishes unless the emergency file fails too, which is counted; nothing is written twice, no row overtakes its run, the writer
  drains; rotation loses the oldest records only.
* **Dashboard**: a page receives every message of its run and its stream
  ends after the last one.
* **Driver**: the fixed script is long enough, and a success is one.

## 2. Plan

| # | Module | Question | State |
|---|---|---|---|
| 1 | `TaskView`, `Board`, `TaskLifecycle`, `BoardFold` | do gate, indexes and fold agree whatever producers offer? | done |
| 2 | `TaskViewProofs`, `BoardProofs` | the same for every instance | every property of the `board` run proved |
| 3 | `Coordinator` on `Board` | handlers, outbox and recovery against crashes and late events | done |
| 4 | `AgentHost` on `Board` | mailbox order, one dispatch per assignment across crashes, receipts reach the log | done |
| 5 | `ObservationStore`, `ObservabilityHub` | tiers, settling, shutdown: what may be lost, and what may not | done |
| 6 | `ToolAccess`, `BoardServices`, `Dashboard`, `MemoryStore`, `GroupPlanning`, `Driver`, `EmergencyLog` | one question each, section 3 | done |
| 7 | `ToolProofs`, `HostProofs`, `MemoryProofs`, `StoreProofs`, `CoordinatorProofs`, `ServicesProofs` | what must hold there whatever the size, section 5 | 24 properties proved |
| 8 | `Coordination`: `Coordinator` and `AgentHost` | the in-flight check against a late intent, end to end | left |
| 9 | `Coordinator` and `AgentHost` with two live revisions | everything that is filed under the task alone | left |

Theorems still wanted: `SessionFollowsLog` of `AgentHost` for a single task, which needs
`InTurn` and `Remembered` of section 5.3 together; with more tasks it is false, section 6.

## 3. Modules and code

### 3.1 `TaskView`: one task revision

`Apply(v, e)` is one iteration of the loop in `_task_coordination_view`
(`view.py`), one operator per branch; `Accepts(v, e)` is
`_validate_v2_transition_locked` (`board.py`), one operator per event type.  The
record `View` holds the fields of the view that any guard reads.  Epoch
pairs the schema forces (`assignment_epoch = coordination_epoch`,
`to_epoch = from_epoch + 1`) are one field.  Schema checks (`validation.py`)
are the record sets `PostedEvent` ... `EstopEvent`.

### 3.2 `Board`: the log

`Offer(e)` is one call of `append`, atomic because the code holds one lock:
`Outcome(e)` is the status it returns, in the code's order of look-ups (key,
terminal, id, gate), `Commit(e)` the assignments.  The code folds the whole log
at every query; the model carries the fold's value in `view`.  `BoardFold`
defines the fold from scratch, with the revision of legacy clues taken from
the stream, and `FoldIsIncremental` says the two are equal.  `TaskLifecycle`
is the abstract specification: the phases of a task revision and the epochs
between them, without events, keys or indexes.

### 3.3 `Coordinator`: the process

| Code | Model |
|---|---|
| `recover_control_state`, `replay_outbox` | `Recover`, `Replay` |
| `poll_once`: read a batch, handle, save, resolve, `tick` | `Poll`, `Take`, `SaveOffset`, `Resolve`, `CloseRound` |
| `_on_task_posted`, `_on_receipt`, `_on_clue`, `_on_estop`, intercepts | `PostedOutputs`, `ReceiptOutputs` and `FollowUp`, `ReplanOutputs`, `EstopTargets`, in `Outputs` |
| `close_bid_round` | `CloseRound` (last read of the task view), `ChoosePlan` (evidence, plan or failure) |
| `fail_for_agent_exit` | `AgentExit` |
| `publish`: `stage_event`, `append`, `reject_event` | `Stage`, `AppendOutput`, `Unlink` |
| process restart | `Crash`, then `Recover` |
| robots | `Decide`, `Submit`, `Report`, `Intercept` |
| ingress, clue sources, e-stop | `External` |

`poll_once` reads at most `limit` events, 100 by default, and calls `tick` after them
although more may be unread: `BatchLimit`.  `recover_control_state` reads the log in such
pieces too, but to its end, before the first poll, and is one step.

Each of these is a step, every other actor may append in between, and `Crash` may
strike between any two.  `offset`, `outbox` and `refused` are files and survive;
`rounds`, `known`, `job` and `upto` do not.  The event id of the code depends on the
key alone while the content has clock values; in the model an id of the process or of
a robot is `<<key, stamp>>`, the stamp being the number of the run, so that "same key,
other content" is a `KEY_CONFLICT` as in the code.  `AcceptedReceipt` is the test of
`_on_receipt` against the view, `Receipt` the receipt a robot writes.

Abstractions: which team the bids allow is open (`ChoosePlan` may assign all
assignments or fail); bids carry nothing else and are not offered; completion
rules and post checks are the flag `good` of a receipt; an intent that was
intercepted counts as settled; clues of one task have distinct clue keys, and a
plan may cite any part of the pending ones, since they may have expired.  An
exception ends `poll_once` and the caller polls again.  `AgentExit` fails one task
revision per step.  A stop for a single device is left out, and so are events of
schema version 1 other than `CLUE`.  Clues and stops name tasks that
are posted.

### 3.4 `AgentHost`: the process of one robot

| Code | Model |
|---|---|
| `run_forever`: `replay_outbox`, then `poll_once` for ever | `Restart`, `Replay`, `Poll`, `Take` |
| `SimpleMailbox` | `mailbox`, `Room` |
| `_handle_envelope_impl` | `Handle`, then the steps of its effect, `SaveSession`, `SaveOffset`, `Resolve`, `RemoveRaw`, `Cleanup`, `Settled` |
| `PureAgentLoop.step` and its handlers | `SessionAfter` and `AfterAssigned` ... `AfterStop` |
| `ActionExecutor.execute` | `PreCheck`, `Dispatch`, `StoreRaw`, `PostCheck`, `ReportFailed`, each event through `Stage` and `AppendOutput` |
| `_mark_dispatching` | `MarkDispatching`, in `PreCheck` |
| `publish`: `stage_task_event`, `append`, `reject_task_event` | `Stage`, `AppendOutput`, `Unlink` |
| an exception, which nothing catches | `Abort`: the process is down |
| every other actor | `External` |

`offset`, `session`, `outbox`, `refused` and `raw` are files; `mailbox` and `job` are
lost with the process.  `carried` is no state of the program: it lists what the robot
was told to do, so that the properties can compare it with the log.  `External`
appends any offered event that the gate accepts, at any time, which is more than
Coordinator and ingress do.

Abstractions: a bid is one of `BidContents`, since what it offers depends on the robot's
state at that moment; the session's version, last receipt and revision are
only written and left out; `dispatch_unknown` and `failed` are one state of
an intent, which no handler tells apart.  Whether a deadline has passed or a stop
reaches this robot is open.  The safety port answers with a valid verdict; skills,
memory and local proposals only change what a bid offers.

### 3.5 `ObservationStore` and `ObservabilityHub`

| Code | Model |
|---|---|
| `_TieredQueue.put`, `get`, `task_done` | `Admit`, `Displace`, `Refuse` in `Enqueue`; `Take`; `Settle` |
| `_writer_loop`, `_write_record` | `Take`, `Seal`, `Commit`, `GiveUp`, `Settle`, `Exit`; `Wrote`, `Transaction` |
| `enforce_retention`, `close` | `Retain`; `Stop`, `CloseQueue` |
| `start_run`, `update_run`, `event`, spans, `end_run` | `StartRun`, `UpdateRun`, `Observe`, `EndSpan`, `EndRun`: the records they enqueue, one `Emit` each |
| the span exporter, `shutdown` | `Export`, `Shutdown` |

A record has a kind, a run and a tier.  The store knows of a table of runs and of
which records were committed; a row refers to its run, as the foreign key does.
`GiveUp` is the outcome of four attempts that were rolled back, because the disk
failed (`MaxFaults`) or because a record refers to a run that is not there.
The emergency file may fail as well: `write` catches an `OSError`, counts it and
returns `False`, which neither caller looks at.  `WriteEmergency` splits what is written
into `emerged`, the file, and `lost`, what `write_errors` counts (`MaxLost`); a batch that is
given up is written record by record, so part of it may be lost.  `write_errors` is raised
outside the lock: two threads that fail at once may be counted once, and `lost` is the set of
records and not that number.  The writer thread catches `OSError` and
errors of SQLite and nothing else; the model has no other failure, and records that cannot be
encoded, which would end the thread, are assumed not to exist.  Metrics, sampling and queries
are left out.

### 3.6 `EmergencyLog`

`EmergencyJsonlWriter`: `WriteRecord` is `write`, `Rotate` and `Rename` are
`_rotate`, one rename per step, and `EndOfProcess` may come between two.
`MaxBytes` counts records.

### 3.7 `ToolAccess`

`Dispatch` is `ToolGateway.dispatch` up to its look at the stop, `Look`, `Invoke` and
`Return` are `ToolRuntime._invoke` with its memory of results (`Cached`, `Remember`);
`Signal`, `Clear` and `IsStopped` are the stop bus, with the ids of the events
it appends.  Authorisation, schema and binding are one verdict, `up`.  One
host serves a device, in one thread, as in the program; what an adapter does and
what it returns are independent and open.  `ToolGateway.invoke` goes to the runtime past
the look at the stop; nothing but tests calls it, and it is not modelled.

### 3.8 `BoardServices`

`AppendEvent` takes the lock, appends, notifies and lists the calls of subscribers,
which `Deliver` makes one by one outside the lock; `Subscribe` lists the calls for
the history.  A handler that appends is an `AppendEvent` of a thread with calls
left.  `LookUp` and `TimeOut` are `read_since`, which the condition variable makes
atomic between look and wait.  `InOrder` is the comprehension over the stream that both
filter with.

### 3.9 `Dashboard`

`RunRegistry.start` is `BeginRun`; `_execute` is `Work`, `Conclude`, `FinishRun`; a
handler of an event stream is `Connect`, `ReadMore`, `Check`, `LastLook` or `Wait`, and
may break anywhere, in the middle of what it sends too.  `Persist` puts messages into
the store in any order, or never.  Runs are kept in memory, so the server
lives as long as a behaviour.

### 3.10 `MemoryStore`

Tables as sets and sequences, one action per call of the store, which is one
transaction: `PutPrivate`, `ClearWorking`, `AddCandidate`, `Decide`, `RetireExpired`; and
`MemoryConsolidator.consolidate` as the steps between its transactions, with
`CutShort` between any two.  A content stands for its text, a hash for
what it is computed from; any source that is not evidence is "prose".  What the quality
gate says of an asset, and what the asset proposes, are an initial state.  `add_candidate`
is public and takes `share_eligible` from its caller; the model takes the two ways in which
the program calls it, `submit_fact_candidate` and the consolidation.

### 3.11 `GroupPlanning`

`Offer` is the eligibility of a bid, `Matching` the maximum matching by augmenting
paths, `Valid` the `MinimalPlanValidator`, `CloseRound`, `UsePolicy`, `UseMatching` and
`LeaveRound` are `close_bid_round`, with the planning input read before and after
the policy answers (`first`, `choice.input`).  The decision is computed from the second read
(`Choose`), and appended later, by `tick` (`PublishChoice`): no lock is held over the two and
the gate looks at no snapshot, so what changes in between is not noticed, and
`CommittedTeamFits` speaks of the last reading.  That no robot is in two teams is true at the append
itself, since one Coordinator closes one round at a time.  The validator also refuses a slot whose
verb is not among its allowed actions, or whose completion rule is another than
`receipt_success`; neither a bid nor the schema of `TASK_POSTED` asks for that.  `proper` is the set of
slots for which both are right.  A task with another slot fails with `NO_FEASIBLE_TEAM` in every round
although all bids accept, so `FailsWithoutTeam` is about tasks of proper slots.  The answer of the language model is any list of
assignments.  What a snapshot says of a robot is one of three conditions: "unready" is
what a bid asks for and the validator does not.  Costs are left out.

### 3.12 `Driver`

`Script` is the order in which `_run_chain` polls; each action is one entry
of it, with the events that the polled component answers with.  The task has
one slot, and every host may stop early, bid or not, act well, badly or not at all.
`Closed` is `_assert_closed_loop`.

## 4. Runs

| Run | Instance | Shows |
|---|---|---|
| `board` | one revision through two epochs with events of both, intents and completions of both plans; or two revisions, clues with and without revision, two replans with overlapping evidence, duplicates | agreement of gate and fold, terminal ownership, intents under the one plan of their epoch, done is earned, positional clues, evidence consumed once, refinement of `TaskLifecycle` |
| `coord_crash` | one task, a clue or a stop of it, intercepts, exits and one crash; or two clues, one of them without revision, and none of these; one event in a batch | outbox and offset protocol, keys, rounds tracked, stops heard; clues pursued as long as nothing crashes |
| `coord_live` | one task with one, two or no slots, a clue or a stop, fairness | the task ends, clues are answered |
| `host_crash` | one task for this robot or another one, a replan, one stop or terminal, a mailbox of two, one crash | at most one dispatch, true receipts, every intent answered, no assignment skipped, raw receipts kept long enough, session and log agree |
| `observability` | one run, a queue of two, batches of two, one fault of the disk, one failed write of a critical record to the emergency file, retention and shutdown at any moment, fairness of the writer | nothing critical lost uncounted, nothing twice, order of runs and rows, `flush`, the writer drains |
| `services` | the modules of 3.6 to 3.12, one per behaviour | section 1.4, from tools to driver |
| `host_fifo`, `host_redo`, `coord_reopen`, `coord_half_replan`, `coord_stale_stop`, `coord_lost_clue` | smaller instances of the same | violations, section 6 |

`MCServices` is a sum and not a composition: these components share no state that
their properties are about, so the variable `turn` picks one, and the others stay as
they start.  Each is checked as it would be alone, in one run.

**Bounds.**  `MaxLog` bounds the log of `Board`.  Nine events are a plan in each epoch:
posted, round, plan, clue, replan, round, plan, completion, done; an event out of
place takes the place of one of them.  The two instances of `board` are about
different tasks and no behaviour has both.  In `Coordinator` nothing
bounds the log: offered events are appended once and the Coordinator's outputs
are finite because every replan consumes a clue.  `MaxCrashes` is 1: one crash
reaches every point of the protocol, and the second run handles files the first
one left.  One clue gives two epochs, so there is a stale event for every type;
two give the case of a clue that arrives while another is being pursued.
In `coord_crash` the second clue comes without crash, intercept, exit or stop (`SecondClueAlone`):
together they multiply beyond what a run of minutes covers.  `CluePursued` is about
behaviours without a crash, as the property says, so of its own cases the bound leaves out the
intercepts and exits, which the proof covers; with a crash its second half, `ClueFollowed`, is
false, and `coord_lost_clue`, two clues and a crash without that bound, is the run that shows it.  Clues and two assignments are checked
apart to keep the runs to minutes; no handler relates the two other than through
`InFlight`.  `BatchLimit` is 100 in the code and 1 or 2 in the runs: with 1 every poll leaves
unread whatever is behind the event it reads, and `tick` runs after each event, which
is the most that a limit can separate.  The proofs are about any limit.

In `AgentHost` the log is bounded by `Offered` and by the host's own keys.  A mailbox of
two is full with two events, and an assignment that is not consumed leaves one
of them behind.  One task is enough for what the proofs say of any number of
them; `SessionFollowsLog` is not proved, and with a second task, whose events share the mailbox, it
is false (section 6).  Offered alternatives share a key, so that one of them is committed: the
assignment goes to this robot or to another, the task ends or is stopped once.  One
stop is left out of the instance: that of all robots, which names no task and
only moves the offset.  The second epoch has no assignment of its own here; that an
old one is refused in it is what the run shows.  `coord_live` uses the same device to
post a task with one, two or no role slots.

In `observability` a run does one kind of work between its start and its end, and
emits more than a queue of two holds while the writer waits.  In `services`: two runs and a
page with two messages before the last one; three calls per device with two
keys and other arguments under one of them, two signals; three events, two threads, one
subscriber, two readers with a limit of one; two agents, two claims, one of which
expires, three candidates and two calls from outside (`MemoryBound`: agents write
before the review gets busy); tasks with two slots and one, of which any may be
improper, two robots that can do any part of it, one change of the fleet; a fleet of two, the size of the program; three
backups of two records and thirteen records, so that rotation drops a file and can be
cut short several times.  At these bounds the mutants of every module are found.

`MCBoard`, `MCObservability` and `MCServices` turn deadlock checking off: their systems
stop, when everything offered is on the log, when the writer has ended, and when
runs, log and budgets are used up.

**Fairness** (`FairSpec`).  The process is scheduled (`WF` of its steps).  A
deadline passes and every `poll_once` ends with `tick`, so a round that stays open
is closed by one of them: `SF` of `CloseRound`, since the next poll disables it
until it is done.  A host polls as long as it runs and hands on `TASK_ASSIGNED`
until it is consumed: `WF` of `Decide`, `Submit` and `Report`.  Nothing is assumed
of clues, stops, crashes, intercepts or exits of a robot.

For `ObservationStore` the writer thread is scheduled (`HubFair`): it always does one
of its steps as long as there is one.  Of the disk it is assumed that it fails with the errors
the code catches, and that an emergency write returns; nothing is assumed of the callers or the exporter.

For `AgentHost` none is assumed, and its properties are safety properties:
`AgentProcessSupervisor` does not start a process again, so nothing can be promised of a
robot after a crash.  `IntentAnswered` says that without one the host neither goes on nor
ends before its intent is answered.

No configuration turns deadlock checking off for `Coordinator` or `AgentHost`: the
process can always poll or be started.

## 5. Proofs

What is proved holds for every value of the constants: any tasks, revisions, plans,
events and sizes, a log of any length, any number of crashes.  Every proof has the same
outline: an inductive invariant, TLC's verdict on it on the instances of section 4, one
lemma per action of `Next`, one step per conjunct the action can disturb.

| Module | About | Theorems |
|---|---|---|
| `TaskViewProofs` | `Apply` and `Accepts` | lemmas the next three modules use |
| `BoardProofs` | `Board`, `BoardFold` | `TypeCorrect`, `OnceOnly`, `StaleTerminalNeverBlocks`, `BoardImplementsLifecycle`, `IntentsHaveTheirPlan`, `DoneIsEarnedAlways`, `GateAgreesWithFold`, `CluesConsumedOnce`, `FoldIncremental` |
| `CoordinatorProofs` | `Coordinator` | `CoordinatorType`, `KeysNeverConflict`, `OutputsKept`, `InputsTookEffect`, `RoundsTracked`, `CluesPursued` |
| `HostProofs` | `AgentHost` | `SentAtMostOnce`, `ReportsAreTrue`, `TypeHolds`, `RawKept`, `NoneSkipped`, `IntentsAreAnswered` |
| `ToolProofs` | `ToolAccess` | `IntentRunsOnceAlways`, `StopHoldsAlways` |
| `MemoryProofs` | `MemoryStore` | `OnlyApprovedServed`, `ConsolidatedOnceAlways` |
| `StoreProofs` | `ObservationStore` with its hub | `FlushTellsTruth`, `CriticalAlwaysTraced`, `WrittenOnceAlways`, `ParentsFirst` |
| `ServicesProofs` | `Dashboard`, `EmergencyLog`, `BoardServices` | `StreamsAreComplete`, `NewestAreKept`, `ReadersAreServed`, `SubscribersHearOnce` |

### 5.1 Blackboard

* `CommittedOnce` (`OnceOnly`) is not inductive: that `append` finds an id or key
  taken is a fact about the indexes, so the invariant says that each index lists
  exactly the committed events.
* `TerminalOwnership` (`StaleTerminalNeverBlocks`): an entry of the terminal index and the
  terminal of the view appear in the same step, because a terminal the gate
  accepts is one the fold takes, and neither changes afterwards.
* `ImplementsLifecycle` (`BoardImplementsLifecycle`): a step of the log maps to a step of
  `TaskLifecycle` or to a stutter.  The mapping reads the phase off the view's
  terminal, plan, round and posted flag, in that order, and so needs `PostedFirst`: a
  revision that was never posted has no plan, round or terminal.  There is one lemma
  per event type, from what the gate demands and what the fold does.
* `IntentsUnderCurrentPlan` and `DoneIsEarned` relate a committed event to earlier ones,
  while the gate reads the view.  `PlanInv` closes the gap: the plan of a view and the
  completions it counts come from the log (`PlanFromLog`), no plan or replan of the log
  is ahead of its view (`EpochsBehind`), so that an epoch has one plan
  (`OnePlanPerEpoch`), a round is of the view's epoch (`RoundOfEpoch`) and a posted view was
  posted (`PostedFromLog`).
* `CommittedTakesEffect` (`GateAgreesWithFold`), an action property, follows from the same
  invariant: it is about two programs, the gate and the fold.
* `ClueConsumedOnce` is proved in two halves, that a clue is never forgotten and that it
  is never evidence twice (`NoneForgotten`, `NoneTwice`).  Both need that the ids that are
  pending or were consumed are ids of the log (`EvidenceLogged`): a new clue could
  otherwise carry one of them.
* `FoldIsIncremental`: that the view is the fold from scratch.  The invariant is `LatestIsNewest`
  and `CluesKnown`; the step is that one more event does not change what the prefix
  folds to, in particular not the revision of a legacy clue in it when a newer revision
  is posted.  The provers have no induction over data, so that the recursive function of
  the fold exists is shown with a smallest counterexample (`SmallestOf` in
  `TaskViewProofs`, from the order of the naturals alone).

### 5.2 Coordinator

`NoKeyConflict` says when `append` may answer `KEY_CONFLICT` to the Coordinator, which raises an
exception from `poll_once`: only for a plan, and only after a crash.  For a plan after a crash it does
happen (section 6).  Keys are fixed by content that survives a crash and
ids by key and run, so the danger is an output built twice, in two runs.  The
argument, output by output:

* a *terminal* under a taken key is answered `TERMINAL_CONFLICT`, which is settled;
* a *round* or a *replan* is built from a view that no event of its key can have
  produced: rounds on the log are of the view's epoch at most (`RoundsBehind`), the clue of
  a replan on the log is pending no more (`CausesConsumed`);
* the *completion* of a receipt that is read again still has its file in the outbox,
  which `stage_event` prefers (`CompletionsAnswer`, `CompletionsFiled`), and a file holds what is
  on the log under its key (`FilesAgree`);
* an *assignment* is published by `tick`, for a round of the list.  Without a crash the list grows
  only when an opening is read (`RoundsOpened`), which happens once, and an assignment on the log is of
  an opening that was read (`PlansOpened`); so a round on the list has no assignment yet
  (`RoundsUnplanned`), however much of the log is unread.  Together that is `FirstLife`.  After a
  crash the list comes from the whole log while openings are unread, and this is false;
  such an assignment is `Rebuilt`, and the other parts of the invariant leave it out.

The rest of the invariant gives shapes (`LogShape`, `IndexesOK`, `ViewsOK`, `BaseInv`,
`FilesShape`, `JobShape`, `RoundsShape`) and says what the outputs under way are and what of them is done
(`OutOK`, `FiledOK`, `DoneOK`, `MoreOK`).  `NoOutputLost`, the action property of `OutputsKept`, rests on
`DoneOK`: what `resolve` deletes is on the log, or its task has ended.

`ConsumedTookEffect` (`InputsTookEffect`) compares every input ever consumed with the log of
now, over crashes between any two steps, and needs a second invariant, `EffectInv`:

* `LogTold`: whatever an event of the log did to its view, no later event undoes (`Lasting`).  A
  round was opened in this epoch or an earlier one, a completion counts or its plan
  was replaced, a terminal ended the revision.  The fold keeps no more than that: a completed
  assignment is forgotten with its plan.
* `Handled` and `InHand`: `TookBy(n, F)` says that input `n` has had its effect once the outputs `F`
  are published.  The handler builds outputs for which this is true (`HandlerTakes`), each
  output that is appended, or found to be on the log already, takes one out of `F`
  (`TookLess`), nothing that others append undoes the effect (`TookStays`), and an offset is saved when `F` is empty.
  A receipt that the handler ignores is one of a plan that was replaced: that a receipt
  is of a plan the view had (`InPlan`) goes back to the gate for the intent it reports.
* `PostedKnown`: a stop for all devices goes over `_known_tasks`, which is memory.  Every task revision
  whose posting was read is in it or has ended, and `recover_control_state` restores that.
* `PlansNamed`: a completion carries the plan of its receipt, or the fold would ignore it.

`OpenRoundTracked` (`RoundsTracked`) is about `_active_rounds`, which is memory, is rebuilt from the log
after a crash, and is the only reason why `tick` ever closes a round.  It is false with two live
revisions of a task, because the list is filed under the task alone, and so it
is proved under `OneRevision`.  Its invariant, `TrackInv`:

* `RoundsInTurn`: openings, assignments and replans of a task revision are on the log in the order
  of their epochs.  Hence, while a round is open, no event behind its opening sets
  or clears the entry of its task (`LastSets`), which serves both the handlers and
  `recover_control_state`, where the last such event decides;
* `Tracked`: the property, up to the input in hand, at every label.  Others append
  meanwhile, but only the opening leads into an open round (`OpenBefore`), and it is on the
  log once (`RoundOpenedOnce`);
* `TickInv`: an entry is deleted when `resolve` is through.  By then the assignment, or the end
  of the task, is on the log, so that the round deleted is not open.  What `close_bid_round` refuses
  and deletes at once is a round the task left behind.

`CluePursued` (`CluesPursued`) is proved for any number of clues, actions and intercepts as long as
nothing has crashed, and under `OneRevision`; without either it is false, see section 6.  The first run of the process
is what `crashes = 0` in the property stands for.  That a
clue is in good hands between two polls has four reasons, and `ClueInv` says which one holds at
every label:

* `Covered`: up to the offset, a pending clue of a task without a plan is unread, and one of a
  task with a plan is unread or leaves it to an action in flight, or to a report of the current plan that is unread (`Expected`).
  What others append keeps that: a report ends the flight and is itself unread, a plan goes only with a
  replan (`PlanStays`), a new clue is unread (`CoveredCommit`);
* `Owed`: up to the input in hand, a replan that is still to be published may take the place of it, or
  a receipt that is to be followed up, or a report whose handler ends the task.  The handlers of clue and receipt ask the same
  question, is an action in flight, and if the answer is yes `Covered` holds and nobody need
  publish (`ReplanOwed`);
* `Answers`: between the handler and the append of a replan others append clues.  The replan does
  not cite them, and takes the plan away; but they are unread, and their own turn comes;
* `ReplansFiled`: the file under the key of a replan is the replan in hand.  `stage_event` would prefer an older file, and
  here is where a crash breaks the property.

At `save` nothing is owed: a report that ends the task has ended it by then (`InHand` of `EffectInv`).

### 5.3 Agent host

`AtMostOnce` would be simple if events were handled in log order.  They are not
(`host_fifo`): after an assignment that had to wait, the host reads rounds and replans again
that it consumed long ago, and such an event can clear the session that
remembers what was sent.  The argument of `SentAtMostOnce`: an event that could clear it lies
before the assignment of the action (`MovesInTurn`), so it was consumed when the
action was planned (`MovesConsumed`), and whenever it waits once more, either the
assignment was consumed (`HomeConsumed`), and `save_consumer_offset` ends the process because the
offset would move backwards before the assignment is reached, or it is not
there.  `Remembered` carries this to the session on disk, `RememberedAfter` to the one about to be
saved, `AheadIsNew` to the moment of dispatch.  The theorem assumes one revision per task;
with two it is false, see section 6.

`ReportsWhatHappened` (`ReportsAreTrue`) compares the log with what the robot did, but a
receipt may reach the log a crash and a replay of the outbox later.  `ReportInv` follows
it: whatever is being published (`PublishInv`) or lies in the outbox (`OutboxInv`) is the host's
own, an intent of one of its assignments, an intercept of an announced action or a receipt of
one that was carried out and turned out no worse (`Own`, `Says`, `Earned`).  `stage_event`
prefers what the outbox holds under the key to what the loop has just built, so that
what is appended before a dispatch could be the intent of something else.  It is not:
an epoch has one plan, so a key has one intent (`OneIntent`).  It holds with any revisions.

`AssignmentHandled` (`NoneSkipped`) has to hold although `host_fifo` shows that inputs are handled out of
order.  `InTurn` says what survives: whatever lies before the offset, before the input in
hand or before an input of the mailbox was dealt with, is in hand, or is in the
mailbox further ahead.  An assignment is ignored where the session knows of a later
epoch or of an action begun; `SessionsGrounded` says that the log knows of it too, so that what
is ignored is over.  `PlanOfLog` and `RoundsBehind` tie the view, which the loop asks for a replan under
way, to the log.

`TypeOK` (`TypeHolds`) adds sizes and positions to the shapes the other proofs need (`SizeInv`).
One of them is not obvious: the mailbox never overflows, because the batch a poll reads is cut
to the room that is left (`BatchFits`).

`RawReceiptKept` (`RawKept`) is an action property of the one step that consumes an input
after its raw receipt was marked stale.  `StaleInv` follows the mark: while it stands, the RECEIPT
of the action is being published or is on the log.  It cannot be another event of the same key,
because an epoch has one plan and so a key has one action (`OneReceipt`).  No bound on the revisions
is needed.

`IntentAnswered` (`IntentsAreAnswered`) says that an announced action gets its answer in the same
run of the process, whatever the others append.  `AnswerDue`: an intent of this host is answered or
is the action of the job.  The answer is not refused, because the gate is about
intents and not about receipts or intercepts (`OnlyIntentsRefused`), and not lost: what is
found under its key is an answer to the same action (`JobAnswers`, `NamesInv`).  Nor does an intent
reach the log where nobody is about to answer it, out of the outbox (`IntentsStaged`): only a crash
leaves one there.  With a crash the property is false by design, which `crashes = 0` says; the
hypothesis is `OwnNames`.

### 5.4 Tools, memory, observability

* `RunsOnce`: what was answered under a key is what is remembered of it, nothing is
  remembered of a key while it is being executed, and a device that executed it is
  about to answer or its result is remembered.  `StopKept`: a device that executed after
  the stop is stopped since, and is idle or about to return.
* `FactsInv`: facts were approved (`ApprovedFirst`), a fact that another one replaces is
  retired (`ReplacedRetired`) and a content has one fact (`OneFactOfContent`).  `EpisodesInv`: a row is
  found by its key and the episodes are there as far as consolidation has come
  (`ToldSoFar`), which makes doing it again harmless.
* `StoreInv`, for `FlushMeansSettled`, `WrittenOnce` and `CriticalTraced` (`CriticalAlwaysTraced`): a queue holds records of its tier, each once, nothing is anywhere that was not
  offered, and the writer lets go of a batch only when it was committed or given up
  (`SettledBatch`), which means in the file or counted as lost.  That nothing is offered twice is the hub's part, `HubInv`: a record is of
  a call that was made, and is offered, in a thread's hands or in the exporter's
  hands, in one of these only.
* `OrderInv`, for `ParentFirst` (`ParentsFirst`): a run hands its start over before anything else of
  it, even through the exporter thread (`StartHandedFirst`); in the critical queue and in a batch no
  record comes before the start of its run, and no batch holds a record whose start still waits,
  because the writer takes critical records first (`StartWrittenFirst`).  A batch is one transaction, a
  fold; what it does to the table is shown record by record (`TransactionDone`,
  `TransactionFailed`), again with a smallest counterexample in place of an induction.

### 5.5 Streams

* `StreamComplete`: `PageTrue` says that a page holds all messages up to the last number it knows,
  which needs that `Send` takes consecutive ones from the store although it is filled out of
  order (`SentIs`), and that a handler past its check knows the run is done.  When it is,
  nothing more is published (`RunsTrue`), so that the last look is the last.
* `NewestKept`: `Cuts(b)` says that there are bounds which cut the records kept into the files,
  oldest first, some of them empty; `EmergencyInv` adds that the place the next rename goes to is
  free.  Writing moves the last bound, a rename moves one bound onto its neighbour, removing
  the oldest file moves the first.  A rotation cut short leaves an empty file and no gap, and
  the next one starts from there.  The files laid end to end are a recursive function,
  for which there is a smallest counterexample once more (`FlattenIs`).
* `ReaderServed`: `ReaderTrue`: what a reader was given lists what it wants up to its last offset,
  which is the offset of the last event returned and not of the last one looked at.  A page is the
  beginning of what it has not read (`ListsFirst`), appended to what it has (`ListsJoin`).  A look and the
  wait after it are one step, and an append wakes all.
* `SubscriberHearsOnce`: `CallsInv` says that a call is to be made at one place by one thread, and that
  a subscriber was told what it is owed (`Due`) or is to be called with it, never both.  The offset of a
  new event is in no call yet, because calls are owed and what is owed is on the log.

### 5.6 Assumptions

| Assumption | Why the code justifies it |
|---|---|
| `RevsAssumption`, `NoneAssumption`, `AbsentAssumption` | revisions are counted from 1; the absent value, Python's `None`, is none of the data |
| `OfferedAssumption` of `Board`, `HostAssumption` | offered events are schema-valid; a mailbox has room for one; receipts and intercepts of a robot's assignments come from its own host only |
| `OfferedAssumption` of `Coordinator` | posts, clues and stops come from ingress and the harness, whose keys and ids have prefixes of their own |
| `CoordinatorAssumption`, `HostEventsAssumption` | types; there is an id and a key for what a process publishes |
| `RequestsAssumption` | the key of a request is the intent, which names its device; arguments are never empty |
| `AgentsAssumption`, `StoreAssumption` | there are finitely many agents; records carry the tier and run the hub gives them |
| `NamesAvailable` | a hypothesis of the theorems about the Coordinator and not an `ASSUME`, because it speaks of every epoch and run: every key, id and plan id the code can build is in `Keys`, `EventIds`, `PlanIds`.  Strings are unbounded, so the code always has one; sets that contain them exist, but are infinite |
| `OneRevision` | a hypothesis of the theorems about what is filed under the task alone (`_active_rounds`, `_session`) or has no revision (a legacy clue): no task has a second revision.  The code does not enforce it; every task it posts itself has revision 1, the default of `task_package_to_v2_content` (`ingress/task_gen.py`), which the runtime never overrides |
| `OwnNames` | a hypothesis of `IntentsAreAnswered`: nobody else announces the actions of this robot, or uses the keys and ids of their events, which are made of task, assignment and epoch under prefixes of their own |
| `DashAssumption`, `LogAssumption`, `ServicesAssumption` | no run is `None`; there is a backup (five by default); `read_since` refuses a limit below 1 |

### 5.7 What stays with TLC

Liveness, which rests on fairness and ENABLED, in all modules.  `GroupPlanning`, whose
augmenting paths are RECURSIVE: what a recursive definition computes for every input is
induction over data.  `SessionFollowsLog`, which is false with two tasks (section 6).  `ResultTrue` of `Driver`: the
script and the fleet of two are the program's, so that the instance TLC checks is the only one
there is; with a third robot `_assert_closed_loop` would not hold.

## 6. Disagreements found

* **`coord_reopen`.**  `TASK_POSTED` handled again after a crash computes the
  next epoch from a view that its first handling changed.  The round of epoch 2 is
  refused and quarantined, and every later poll stops at it, although the comment in
  `stage_event` says that a restart reuses what was persisted first.
* **`coord_half_replan`.**  After a crash between `TASK_REPLAN` and its
  `BID_ROUND_OPENED` the clue is no longer pending when its event is handled
  again; no round follows and the task stays in `replanning`.
* **`coord_stale_stop`.**  A `SAFETY_INTERCEPT` of a replaced epoch yields a
  `TASK_FAILED` of that epoch.  The gate refuses it, as it should, but the
  publisher quarantines the key that all terminals of the task share, so the
  task can never be ended.
* **`coord_lost_clue`.**  A replan for clue 2 is staged and the process crashes; clue 1
  arrives, and the intent of an action that was decided before.  After the restart clue 2 is consumed
  without a replan, because the action is in flight.  The action ends, and clue 1 asks for a
  replan of both.  The key of a replan is that of its oldest clue, clue 2, so `stage_event` returns the
  file of the first run, which cites clue 2 alone.  Clue 1 is consumed and stays pending,
  and the round that follows the replan is dropped by `tick` because a replan is pending
  (`_planning_input`).  The receipt is of a plan that was replaced; no input is left that would ask for
  the next replan, and the task has no plan until another clue comes.  What the file keeps is an
  answer to a view that is gone; the documents promise one replan for every clue.
* **`host_fifo`.**  `poll_once` drops the event that is not consumed and keeps the ones
  behind it; the next poll reads it again, behind them.  Later events are
  handled first, although the header of the module promises FIFO, and when the
  assignment is consumed at last the consumer offset would move backwards, an exception
  that ends the process.  `AssignmentHandled` holds all the same: the replan
  that was pending replaces the assignment.
* **`host_redo`.**  After a crash between staging a RECEIPT and appending it, the
  receipt is not replayed, because its input is not consumed, and the input
  does not produce it again, because the session says `dispatching`.  The Coordinator
  waits for a receipt that stays in the outbox until the next start.

Five more have no run of their own.

First, a plan that is made twice: the exception in `NoKeyConflict`; without it TLC finds the property violated
with one clue, one crash and batches of one event.  After a restart with more unread events than one poll
reads, `recover_control_state` has put a round on the list whose opening is unread, and the first
`tick` plans it and removes the outbox file.  A later poll reads the opening, and not yet the
plan behind it; the round is on the list again, `tick` plans it a second time, and there is no
file left that `stage_event` could prefer.  The append ends in a key conflict, an
exception out of `poll_once`, until the plan is read.  Its file stays in the outbox, where
it cuts the replay of every later start short.  The second planning may also find no team: its `TASK_FAILED` has another
key, is of the current epoch, and the gate accepts it although robots are at work.

Second, `MockEmergencyStopBus.signal` gives the events of one scope the same id,
`estop-<scope>`.  The second stop of a scope is a duplicate for the Blackboard (or a conflict, with
another reason) and leaves no event of its own, lifted in between or not (`Trail` in
`ToolAccess`), although the header of `safety/estop.py` says that a stop leaves its trace and the
Blackboard document demands ids that tell stops apart.

The third was found by proof, because the instances keep to one
revision.  With two revisions of one task `AtMostOnce` is false, although the comment
in `_handle_envelope_impl` says that a replayed `TASK_ASSIGNED` never sends an action twice.  The
session is filed under the task alone.  A replan of revision 2 is pending, so its
assignment is not consumed and what follows it in the mailbox is read again, as in
`host_fifo`; revision 1 is assigned and its action sent; the terminal of
revision 2 removes the session; the assignment of revision 1, read again, finds none and is
carried out again.  `AssignmentHandled` is false then, too: a replan of revision 1 lifts the epoch of
the session, so the loop takes the assignment of revision 2, of epoch 1, for an old one
(`session.coordination_epoch > epoch` in `agent_loop.py`) and it is consumed without an
action.  So `SentAtMostOnce` and `NoneSkipped` have the hypothesis that a task has one revision.

The fourth was found on the way to a proof of `CluePursued`.  Without a crash it takes
two revisions to violate it: revision 1, a clue without revision and revision 2 are on the log
before the Coordinator starts.  The fold counts the clue for revision 1, the newest at its place;
`recover_control_state` makes both revisions known, so the handler asks for a replan of
revision 2, which needs none.  `CluesPursued` has `OneRevision` as a hypothesis, and the property is
about the time before the first crash.

The last is about `SessionFollowsLog`, which the run checks with one task.  With a second
task that shares the mailbox, in `MCAgentHost` two tasks and the events of both, TLC finds it violated.
The assignment of the first task waits for a replan, as in `host_fifo`, and behind it the whole
of the second task is handled: round and assignment of epoch 1, clue, replan, round and assignment
of epoch 2.  All that is read again.  The old round sets the session of the second task back
to epoch 1, beside an action of epoch 2, `save_session` writes that, and then
`save_consumer_offset` ends the process because the offset would move backwards.  After the
restart session and action disagree.  No action is repeated and none is lost, since
`SentAtMostOnce` and `NoneSkipped` hold with any number of tasks.

## 7. Not modelled

Coordinator and host are checked each with the other as an environment, not composed
yet, and with one live revision of a task.  A stop for a single device is left
out of both.  A lease is one entry of a dictionary, taken and returned under the lock; an
agent snapshot is a fold of the log that the bids read, in `GroupPlanning` a condition.

Mode selection, the safety checks, redaction, the capability matcher and the schemas are
functions without state; where their verdict matters it is an open choice.  The
LLM client, HTTP, HTML, queries and ranking, storage formats, device simulations,
ingress parsing, the skill library, the walking skeleton and the harness are input and
output, plain data without a protocol or demonstrations.  `PROJECT.json` lists
the hazards, the ones no property covers with the reason.
