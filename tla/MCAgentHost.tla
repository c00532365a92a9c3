----------------------------- MODULE MCAgentHost -----------------------------
(* Small instances of AgentHost for TLC: one task; assignment "a1" is for   *)
(* its robot, "a2" for another one.                                         *)
EXTENDS AgentHost

PlanOf(ep) == <<"plan", ep>>

Base(type, k) == [type |-> type, task |-> "t", rev |-> 1, id |-> k, key |-> k]

Posted  == Base("task_posted", <<"posted", "t">>)
RoundOpened(ep) == Base("bid_round_opened", <<"round", "t", ep>>) @@ [epoch |-> ep, number |-> 1]
\* The same key: the Coordinator chooses this robot or another one.
AssignedTo(ep, S) ==
    Base("task_assigned", <<"assignment", "t", ep>>)
        @@ [epoch |-> ep, plan |-> PlanOf(ep), asgs |-> S, refs |-> {}]
Assigned(ep) == AssignedTo(ep, Mine)
Clue == Base("clue", <<"clue", "t">>)
Replan == Base("task_replan", <<"replan", "t">>)
            @@ [from |-> 1, cause |-> <<"clue", "t">>, refs |-> {<<"clue", "t">>}]
Completed(ep) ==
    Base("assignment_completed", <<"completed", "t", ep>>)
        @@ [epoch |-> ep, plan |-> PlanOf(ep), asg |-> "a1"]
\* The same key: the task ends, or is stopped once.
End(type) == [Base(type, <<"end", "t">>) EXCEPT !.id = <<type, "t">>]
Failed(ep) == End("task_failed") @@ [epoch |-> ep]
Done(ep)   == End("task_done") @@ [epoch |-> ep, plan |-> PlanOf(ep), done |-> Mine]
Stop       == End("estop")

OnePlan     == {Posted, RoundOpened(1), Assigned(1)}
Undisturbed == OnePlan \cup {Clue, Replan}
Disturbed   == Undisturbed \cup {AssignedTo(1, {"a2"}), Completed(1), Done(1), Failed(1), Stop}

MCKeys ==
    {e.key : e \in Offered}
    \cup {<<"bid", "t", 1, ep, 1>> : ep \in 1 .. 2}
    \cup {<<k, "t", 1, ep, "a1", p>> : ep \in 1 .. 2, p \in {"", "pre", "post"},
             k \in {"action_intent", "safety_intercept", "receipt"}}

MCIds == {e.id : e \in Offered} \cup MCKeys
           \cup {<<"bid", "t", 1, ep, 1, c>> : ep \in 1 .. 2, c \in BidContents}
MCPlans == {PlanOf(ep) : ep \in 1 .. 2}
=============================================================================
