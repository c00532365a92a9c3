------------------------------- MODULE Driver --------------------------------
(***************************************************************************)
(* CoordinationRuntime: one task from the user's words to a result, in one *)
(* thread, which polls the Coordinator and the hosts in a fixed order, as  *)
(* often as a task without trouble is meant to need, and then checks what  *)
(* is on the Blackboard.                                                   *)
(*                                                                         *)
(* The task has one slot.  How a component handles an event is its own     *)
(* module's; here it is the events it answers with.                        *)
(***************************************************************************)
EXTENDS Naturals, Sequences, SequencesExt

CONSTANT Fleet     \* the devices, in order

Units == {Fleet[i] : i \in DOMAIN Fleet}

VARIABLES
    stage,       \* how far _run_chain is in its script
    board,       \* events: [type, by]
    offset,      \* what each consumer has read
    sessions,    \* hosts with a session for the task
    willing,     \* hosts whose bid accepts the slot
    winner,
    moved,       \* history: how often each device was moved
    trouble,     \* history: something went wrong
    outcome

driverVars == <<stage, board, offset, sessions, willing, winner, moved, trouble, outcome>>

DriverInit ==
    /\ stage = 1 /\ board = << >>
    /\ offset = [c \in Units \cup {"coordinator"} |-> 0]
    /\ sessions = {} /\ willing = {} /\ winner = "none"
    /\ moved = [d \in Units |-> 0]
    /\ trouble = FALSE /\ outcome = "running"

\* Mutant: the Coordinator is not polled after the execution.
Script_Short ==
    <<"post", "coordinator">> \o Fleet \o <<"coordinator", "tick">>
    \o SelectSeq(Fleet, LAMBDA d : d # winner) \o <<winner>>
    \o Fleet \o <<"assert">>

\* _run_chain: the losers first, then the winner; the tail is not reached
\* without one.
Script ==
    <<"post", "coordinator">> \o Fleet \o <<"coordinator", "tick">>
    \o SelectSeq(Fleet, LAMBDA d : d # winner) \o <<winner>>
    \o <<"coordinator">> \o Fleet \o <<"assert">>

Turn(who) == outcome = "running" /\ Script[stage] = who
GoOn == stage' = stage + 1 /\ UNCHANGED outcome
Raise == outcome' = "raised" /\ UNCHANGED stage

Events(types, by) == [i \in DOMAIN types |-> [type |-> types[i], by |-> by]]
Fresh(c) == {board[i].type : i \in (offset[c] + 1) .. Len(board)}
Consume(c) == offset' = [offset EXCEPT ![c] = Len(board)]

\* The task is made and posted; a model that fails, or a task the gate refuses,
\* ends the run.
Post ==
    /\ Turn("post")
    /\ \/ board' = board \o Events(<<"task_posted">>, "ingress") /\ GoOn /\ UNCHANGED trouble
       \/ Raise /\ trouble' = TRUE /\ UNCHANGED board
    /\ UNCHANGED <<offset, sessions, willing, winner, moved>>

\* Coordinator.poll_once.
Reaction(unread) ==
    CASE "task_posted" \in unread                           -> <<"bid_round_opened">>
      [] "receipt_ok" \in unread                            -> <<"assignment_completed", "task_done">>
      [] unread \cap {"receipt_bad", "safety_intercept"} # {} -> <<"task_failed">>
      [] OTHER                                              -> << >>

PollCoordinator ==
    /\ Turn("coordinator")
    /\ board' = board \o Events(Reaction(Fresh("coordinator")), "coordinator")
    /\ Consume("coordinator") /\ GoOn
    /\ UNCHANGED <<sessions, willing, winner, moved, trouble>>

\* The bid window is over: a team, or TASK_FAILED and the end of the run.
Tick ==
    /\ Turn("tick")
    /\ IF willing = {}
       THEN /\ board' = board \o Events(<<"task_failed">>, "coordinator")
            /\ Raise /\ UNCHANGED winner
       ELSE /\ winner' \in willing
            /\ board' = board \o Events(<<"task_assigned">>, "coordinator")
            /\ GoOn
    /\ UNCHANGED <<offset, sessions, willing, moved, trouble>>

\* What a host does with what it has not read: bid, act, or forget the task.
Bids(d) ==
    /\ "bid_round_opened" \in Fresh(d)
    /\ board' = board \o Events(<<"bid">>, d)
    /\ sessions' = sessions \cup {d}
    /\ \/ willing' = willing \cup {d} /\ UNCHANGED trouble
       \/ trouble' = TRUE /\ UNCHANGED willing
    /\ UNCHANGED moved

Acts(d) ==
    /\ "task_assigned" \in Fresh(d) /\ d = winner
    /\ \/ /\ board' = board \o Events(<<"action_intent", "receipt_ok">>, d)
          /\ moved' = [moved EXCEPT ![d] = @ + 1]
          /\ UNCHANGED trouble
       \/ /\ board' = board \o Events(<<"action_intent", "receipt_bad">>, d)
          /\ moved' \in {moved, [moved EXCEPT ![d] = @ + 1]}
          /\ trouble' = TRUE
       \/ /\ board' = board \o Events(<<"action_intent", "safety_intercept">>, d)
          /\ trouble' = TRUE
          /\ UNCHANGED moved
    /\ UNCHANGED <<sessions, willing>>

Closes(d) ==
    /\ Fresh(d) \cap {"task_done", "task_failed"} # {}
    /\ sessions' = sessions \ {d}
    /\ UNCHANGED <<board, willing, moved, trouble>>

Watches(d) ==
    /\ Fresh(d) \cap {"bid_round_opened", "task_done", "task_failed"} = {}
    /\ "task_assigned" \in Fresh(d) => d # winner
    /\ UNCHANGED <<board, sessions, willing, moved, trouble>>

PollHost(d) ==
    /\ Turn(d)
    /\ Bids(d) \/ Acts(d) \/ Closes(d) \/ Watches(d)
    /\ Consume(d) /\ GoOn
    /\ UNCHANGED winner

\* An event that cannot be handled now stays unread: the poll ends before it.
HostStops(d) ==
    /\ Turn(d) /\ Fresh(d) # {}
    /\ trouble' = TRUE /\ GoOn
    /\ UNCHANGED <<board, offset, sessions, willing, winner, moved>>

\* _assert_closed_loop, with the very sequence of a run without trouble.
Closed ==
    /\ sessions = {}
    /\ [i \in DOMAIN board |-> board[i].type] =
         <<"task_posted", "bid_round_opened", "bid", "bid", "task_assigned",
           "action_intent", "receipt_ok", "assignment_completed", "task_done">>

Judge ==
    /\ Turn("assert")
    /\ outcome' = IF Closed THEN "ok" ELSE "raised"
    /\ UNCHANGED <<stage, board, offset, sessions, willing, winner, moved, trouble>>

DriverNext ==
    \/ Post \/ PollCoordinator \/ Tick \/ Judge
    \/ \E d \in Units : PollHost(d) \/ HostStops(d)

DriverSpec == DriverInit /\ [][DriverNext]_driverVars

-----------------------------------------------------------------------------
(* Properties.                                                             *)

\* The result is true.  The fixed script is long enough: unless something went
\* wrong, the run does not end with an error; and a run that is reported a
\* success moved one device, once, and the one that won, whatever went wrong on
\* the way.
ResultTrue ==
    /\ outcome = "raised" => trouble
    /\ outcome = "ok" =>
         /\ \A d \in Units : moved[d] = IF d = winner THEN 1 ELSE 0
         /\ Last(board).type = "task_done"
=============================================================================
