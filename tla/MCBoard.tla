------------------------------- MODULE MCBoard -------------------------------
(* Small instances of BoardFold for TLC.                                   *)
EXTENDS BoardFold, TLC

\* Ids and keys are <<kind, revision, number>>.
Hdr(kind, r, n) == [type |-> kind, task |-> "t", rev |-> r, id |-> <<kind, r, n>>]

With(h, key, body) == h @@ [key |-> key] @@ body

Posted(r) == With(Hdr("task_posted", r, 0), <<"task_posted", r, 0>>, << >>)
RoundEv(r, ep, n) ==
    With(Hdr("bid_round_opened", r, 10 * ep + n), <<"bid-round", r, 10 * ep + n>>,
         [epoch |-> ep, number |-> n])
Assigned(r, ep, p, asgs, refs, n) ==
    With(Hdr("task_assigned", r, 10 * ep + n), <<"assignment", r, ep>>,
         [epoch |-> ep, plan |-> p, asgs |-> asgs, refs |-> refs])
Work(ty, r, ep, p, a, n) ==
    With(Hdr(ty, r, 10 * ep + n), <<ty, r, 10 * ep + n>>,
         [epoch |-> ep, plan |-> p, asg |-> a])
Clue(r, n) == [Hdr("clue", r, n) EXCEPT !.id = <<"clue", 0, n>>]
                 @@ [key |-> <<"clue", 0, n>>]
Replan(r, from, cause, refs, n) ==
    With(Hdr("task_replan", r, 100 * cause[3] + 10 * from + n), <<"replan", r, cause[3]>>,
         [from |-> from, cause |-> cause, refs |-> refs])
Done(r, ep, p, done) ==
    With(Hdr("task_done", r, 10 * ep + Cardinality(done)), <<"task-terminal", r, 0>>,
         [epoch |-> ep, plan |-> p, done |-> done])
Failed(r, ep) ==
    With(Hdr("task_failed", r, ep), <<"task-terminal", r, 0>>, [epoch |-> ep])

C1 == <<"clue", 0, 1>>
C2 == <<"clue", 0, 2>>

\* One revision, a plan and a rival one without key in each epoch, one replan,
\* stale events of both epochs.
ReplanOffered ==
    {Posted(1), RoundEv(1, 1, 1), RoundEv(1, 1, 2), RoundEv(1, 2, 1)}
    \cup {Assigned(1, ep, "p1", {"a1"}, {}, 1) : ep \in {1, 2}}
    \cup {[Assigned(1, ep, "p2", {"a1"}, {}, 2) EXCEPT !.key = None] : ep \in {1, 2}}
    \cup {Work(ty, 1, ep, "p1", "a1", 1) :
             ty \in {"action_intent", "assignment_completed"}, ep \in {1, 2}}
    \cup {Clue(1, 1), Replan(1, 1, C1, {C1}, 1)}
    \cup {Done(1, ep, "p1", {"a1"}) : ep \in {1, 2}}
    \cup {Failed(1, ep) : ep \in {0, 1, 2}}

\* Two revisions, a clue of its own revision and a legacy one, several plans.
MixedOffered ==
    {Posted(1), Posted(2), RoundEv(1, 1, 1), RoundEv(1, 1, 2), RoundEv(2, 1, 1)}
    \cup {Assigned(1, 1, "p1", {"a1", "a2"}, refs, Cardinality(refs)) :
             refs \in {{}, {C1}}}
    \cup {Assigned(1, 1, "p2", {"a1"}, {}, 3)}
    \cup {Work("assignment_completed", 1, 1, "p1", a, IF a = "a1" THEN 1 ELSE 2) :
             a \in {"a1", "a2"}}
    \cup {Work("action_intent", 1, 1, p, "a2", IF p = "p1" THEN 1 ELSE 2) :
             p \in {"p1", "p2"}}
    \cup {Clue(1, 1), Clue(None, 2), [Clue(1, 1) EXCEPT !.id = <<"clue", 0, 3>>]}
    \cup {Replan(r, from, c, refs, Cardinality(refs) + (IF refs = {C2} THEN 2 ELSE 0)) :
             r \in {1, 2}, from \in {0, 1}, c \in {C1, C2}, refs \in {{C1}, {C2}, {C1, C2}}}
    \cup {Done(1, 1, "p1", d) : d \in {{"a1"}, {"a1", "a2"}}}
    \cup {Failed(1, 1), Failed(2, 0)}

\* The second instance is about another task; no behaviour has both, and the
\* log of the second one is shorter.
AllOffered == ReplanOffered \cup {[e EXCEPT !.task = "u"] : e \in MixedOffered}

OneInstance(e) ==
    /\ \A i \in DOMAIN log : log[i].task = e.task
    /\ e.task = "u" => Len(log) < 6

MCSpec == Init /\ [][\E e \in AllOffered : OneInstance(e) /\ Offer(e)]_vars

MCIds  == {e.id : e \in AllOffered}
MCKeys == {e.key : e \in AllOffered} \ {None}
=============================================================================
