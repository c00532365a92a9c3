---------------------------- MODULE TaskLifecycle ----------------------------
(***************************************************************************)
(* What the Blackboard promises about one task revision, without its log,  *)
(* indexes, evidence or plans: the phases a task goes through and the      *)
(* coordination epoch, which fences everything a replaced plan left behind.*)
(***************************************************************************)
EXTENDS Naturals

CONSTANT Revisions      \* the task revisions

VARIABLES phase, epoch

lifecycle == <<phase, epoch>>

Phases == {"absent", "idle", "bidding", "planned", "done", "failed"}

Open == {"idle", "bidding", "planned"}

Init ==
    /\ phase = [r \in Revisions |-> "absent"]
    /\ epoch = [r \in Revisions |-> 0]

Move(r, from, to, ep) ==
    /\ phase[r] \in from
    /\ phase' = [phase EXCEPT ![r] = to]
    /\ epoch' = [epoch EXCEPT ![r] = ep]

Post(r) == Move(r, {"absent"}, "idle", epoch[r])

\* The first round opens epoch 1; a later round stays in its epoch.
OpenRound(r) ==
    Move(r, {"idle", "bidding"}, "bidding",
         IF epoch[r] = 0 THEN 1 ELSE epoch[r])

Assign(r) == Move(r, {"bidding"}, "planned", epoch[r])

\* The only step that enters a new epoch leaves without round and plan.
Replan(r) == Move(r, Open, "idle", epoch[r] + 1)

Finish(r) == Move(r, {"planned"}, "done", epoch[r])

Fail(r) == Move(r, Open, "failed", epoch[r])

Next == \E r \in Revisions :
    Post(r) \/ OpenRound(r) \/ Assign(r) \/ Replan(r) \/ Finish(r) \/ Fail(r)

Spec == Init /\ [][Next]_lifecycle
=============================================================================
