---------------------------- MODULE MCCoordinator ----------------------------
(* Small instances of Coordinator for TLC: one task.                        *)
EXTENDS Coordinator

\* The same key: one task is posted, "t", "u" or "w".
Posted(t) == [type |-> "task_posted", task |-> t, rev |-> 1,
              id |-> <<<<"posted", t>>, 0>>, key |-> <<"posted">>]
Clue(n, r) == [type |-> "clue", task |-> "t", rev |-> r,
               id |-> <<<<"clue", n>>, 0>>, key |-> <<"clue", "t", n>>]
Estop(t) == [type |-> "estop", task |-> t, rev |-> None,
             id |-> <<<<"estop", t>>, 0>>, key |-> <<"estop", "t", 1>>]

JustPosted == {Posted("t")}
OneClue    == {Posted("t"), Clue(1, 1)}
TwoClues   == OneClue \cup {Clue(2, None)}
\* One key again, so either the first clue or the stop arrives.
Stop       == [Estop("t") EXCEPT !.key = Clue(1, 1).key]
Offers     == TwoClues \cup {Stop}
Disturbed ==
    {Posted(t) : t \in Tasks} \cup {Estop("t"), Estop("w")}
    \cup {[Clue(1, 1) EXCEPT !.key = Estop("t").key]}

\* "t" has one role slot, "u" two and "w" none.
Slots ==
    [tr \in Tasks \X Revs |->
        CASE tr[1] = "t" -> {"a1"} [] tr[1] = "u" -> {"a1", "a2"} [] OTHER -> {}]

\* Crashes, intercepts, exits and stops are checked with one clue, the second without
\* them.  CluePursued is about behaviours without a crash anyway.
SecondClueAlone ==
    byId[Clue(2, None).id] # 0 =>
        crashes = 0 /\ byId[Stop.id] = 0 /\ job.from # "exit"
        /\ \A n \in DOMAIN log : log[n].type # "safety_intercept"

MCClues  == {e.id : e \in {x \in Offered : x.type = "clue"}}
MCEpochs == 1 .. Cardinality(MCClues) + 2
MCStamps == 0 .. MaxCrashes
MCPlans  == {PlanOf(tr, ep) : tr \in TaskRevs, ep \in MCEpochs}

MCKeys ==
    {e.key : e \in Offered}
    \cup {TerminalKey(tr) : tr \in TaskRevs}
    \cup {<<"bid-round", t, r, ep, 1>> : t \in Tasks, r \in Revs, ep \in MCEpochs}
    \cup {<<"assignment", t, r, ep>> : t \in Tasks, r \in Revs, ep \in MCEpochs}
    \cup {<<k, t, r, ep, a>> : t \in Tasks, r \in Revs, ep \in MCEpochs, a \in AssignmentIds,
             k \in {"assignment-completed", "action_intent", "receipt",
                    "safety_intercept"}}
    \cup {<<"replan", "t", r, c>> : r \in Revs, c \in MCClues}

MCIds ==
    {e.id : e \in Offered}
    \cup {<<k, c>> : k \in {x \in MCKeys : x[1] \notin {"task-terminal", "replan"}},
                     c \in MCStamps}
    \cup {<<TerminalKey(tr), <<d, c, n>>>> :
             tr \in TaskRevs, d \in {"done", "failed"}, c \in MCStamps, n \in 0 .. 20}
    \cup {<<<<"replan", "t", r, c>>, <<ep, p>>>> :
             r \in Revs, c \in MCClues, ep \in MCEpochs, p \in SUBSET MCClues}
=============================================================================
