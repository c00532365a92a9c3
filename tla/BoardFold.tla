------------------------------ MODULE BoardFold ------------------------------
(***************************************************************************)
(* What the Blackboard computes from scratch on every query: the fold of   *)
(* the whole log, with the positional resolution of legacy clues.          *)
(***************************************************************************)
EXTENDS Board, SequencesExt, FiniteSetsExt

\* Mutant: the newest revision of the whole stream, instead of the prefix.
RevAt_StreamWide(n) ==
    IF log[n].rev # None THEN log[n].rev
    ELSE Max({1} \cup {log[m].rev : m \in
                 {k \in Committed : log[k].type = "task_posted"
                                      /\ log[k].task = log[n].task}})

\* _effective_task_revisions at position n of the stream.
RevAt(n) ==
    IF log[n].rev # None THEN log[n].rev
    ELSE Max({1} \cup {log[m].rev : m \in
                 {k \in 1 .. n : log[k].type = "task_posted"
                                   /\ log[k].task = log[n].task}})

TargetAt(n) == <<log[n].task, RevAt(n)>>

\* _task_coordination_view of the committed log, from the empty view.
FoldOf(tr) ==
    FoldLeft(LAMBDA v, n : IF TargetAt(n) = tr THEN Apply(v, log[n]) ELSE v,
             EmptyView,
             [n \in 1 .. Len(log) |-> n])

\* A view never changes retroactively: folding the whole log gives the view
\* obtained by folding each event once, when it was committed.  In particular
\* posting a newer revision never moves an old clue (the docstring of
\* _effective_task_revisions).
FoldIsIncremental == \A tr \in TaskRevs : view[tr] = FoldOf(tr)

\* The evidence a replan consumes.
Consumed(n) == log[n].refs \cup {log[n].cause}

\* A clue is evidence exactly once.  None is forgotten: until the task is
\* terminal a committed clue is pending, or a later replan or plan names it as
\* consumed.  And none triggers two replans (the acceptance list of the
\* Blackboard document asks for exactly that), however many producers act on it.
ClueConsumedOnce ==
    /\ \A n \in Committed : log[n].type = "clue" =>
          LET tr == TargetAt(n)
          IN  \/ view[tr].terminal # None
              \/ log[n].id \in view[tr].pending
              \/ \E m \in n + 1 .. Len(log) :
                   \/ Is(m, "task_replan", tr) /\ log[n].id \in Consumed(m)
                   \/ Is(m, "task_assigned", tr) /\ log[n].id \in log[m].refs
    /\ \A tr \in TaskRevs : \A m, n \in Committed :
          /\ Is(m, "task_replan", tr)
          /\ Is(n, "task_replan", tr)
          /\ m # n
          => Consumed(m) \cap Consumed(n) = {}
=============================================================================
