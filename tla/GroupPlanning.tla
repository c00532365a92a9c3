---------------------------- MODULE GroupPlanning ----------------------------
(***************************************************************************)
(* Which team gets a task: robots bid by the rules of EligibilityBidEngine *)
(* on their public state, the group policy (a language model, or code)     *)
(* proposes a team, the validator checks it against what is read when the  *)
(* policy has answered, and the maximum matching stands in for it.  The    *)
(* event is appended afterwards, a step of its own: no lock is held over   *)
(* the reads and the append, and the gate looks at no snapshot.            *)
(*                                                                         *)
(* One Coordinator closes the rounds of all tasks, one after the other.    *)
(* Bids that come after the deadline of a round do not count, so between   *)
(* its reads only the robots change.  Slots and robots are numbered in the *)
(* order of their names.                                                   *)
(***************************************************************************)
EXTENDS Naturals, Sequences, FiniteSets, FiniteSetsExt, SequencesExt

CONSTANTS
    Jobs,      \* tasks
    SlotsOf,   \* role slots of each task
    Robots,
    MaxDrifts  \* bound on changes of the robots' state

AllSlots == UNION {SlotsOf[t] : t \in Jobs}

(* What a snapshot says of a robot.  "unfit": offline, unhealthy, low on     *)
(* battery or endurance, or not fit for the space.  "unready": its state is  *)
(* old, or its execution channel is not there; only a bid asks for that.     *)
Conditions == {"fit", "unfit", "unready"}

VARIABLES
    able,      \* slots a robot has the capabilities and the verb for
    proper,    \* slots whose verb is among their allowed actions and whose
               \* completion rule is receipt_success; as posted
    cond,
    bids,      \* bids_by_device of the round of each task: offered slots
    round,
    first,     \* the planning input the policy was given
    choice,    \* what was decided, and from which input; not appended yet
    team,      \* current plan: robot of each slot
    clue,      \* a clue waits for the task to be replanned
    drifts

planVars == <<able, proper, cond, bids, round, first, choice, team, clue, drifts>>

NoTeam == << >>
NoBids == [r \in {} |-> {}]
NoChoice == [outcome |-> "none", team |-> NoTeam, input |-> << >>]

PlanInit ==
    /\ able \in [Robots -> SUBSET AllSlots]
    /\ proper \in SUBSET AllSlots
    /\ cond = [r \in Robots |-> "fit"]
    /\ bids = [t \in Jobs |-> NoBids]
    /\ round = [t \in Jobs |-> "bidding"]
    /\ first = << >> /\ choice = NoChoice
    /\ team = [t \in Jobs |-> NoTeam]
    /\ clue = [t \in Jobs |-> FALSE]
    /\ drifts = 0

Members(f) == {f[s] : s \in DOMAIN f}

\* _active_assignment_map: the plan of another task makes a robot busy.
Busy(t, r) == \E u \in Jobs \ {t} : r \in Members(team[u])

\* A robot's state, or what it can do, changes.
Drift(r) ==
    /\ drifts < MaxDrifts
    /\ drifts' = drifts + 1
    /\ \/ \E c \in Conditions \ {cond[r]} : cond' = [cond EXCEPT ![r] = c] /\ UNCHANGED able
       \/ able' = [able EXCEPT ![r] = {}] /\ UNCHANGED cond
    /\ UNCHANGED <<proper, bids, round, first, choice, team, clue>>

\* evaluate_slot: the slots a bid accepts; it does not look at `proper`.
Offer(t, r) == IF cond[r] = "fit" /\ ~Busy(t, r) THEN able[r] \cap SlotsOf[t] ELSE {}

Bid(t, r) ==
    /\ round[t] = "bidding" /\ r \notin DOMAIN bids[t]
    /\ bids' = [bids EXCEPT ![t] =
                  [x \in DOMAIN @ \cup {r} |-> IF x = r THEN Offer(t, r) ELSE @[x]]]
    /\ UNCHANGED <<able, proper, cond, round, first, choice, team, clue, drifts>>

-----------------------------------------------------------------------------
(* deterministic_maximum_matching.                                         *)

Bidders(t, s) == {r \in DOMAIN bids[t] : s \in bids[t][r]}

\* Mutant: a robot that has a slot keeps it.
RECURSIVE Augment_Greedy(_, _, _)
Augment_Greedy(t, s, w) ==
    LET untried == Bidders(t, s) \ w.visited
        r    == Min(untried)
        seen == [w EXCEPT !.visited = @ \cup {r}]
    IN  IF untried = {} THEN [w EXCEPT !.found = FALSE]
        ELSE IF w.slot[r] = 0 THEN [seen EXCEPT !.found = TRUE, !.slot[r] = s]
        ELSE Augment_Greedy(t, s, seen)

\* augment, on w.slot (device_to_slot, 0 for none) and w.visited.
RECURSIVE Augment(_, _, _)
Augment(t, s, w) ==
    LET untried == Bidders(t, s) \ w.visited
        r    == Min(untried)
        seen == [w EXCEPT !.visited = @ \cup {r}]
        move == IF w.slot[r] = 0 THEN [seen EXCEPT !.found = TRUE]
                ELSE Augment(t, w.slot[r], seen)
    IN  IF untried = {} THEN [w EXCEPT !.found = FALSE]
        ELSE IF move.found THEN [move EXCEPT !.slot[r] = s]
        ELSE Augment(t, s, move)

RECURSIVE MatchFrom(_, _, _)
MatchFrom(t, todo, w) ==
    IF todo = {} \/ ~w.found THEN w
    ELSE MatchFrom(t, todo \ {Min(todo)}, Augment(t, Min(todo), [w EXCEPT !.visited = {}]))

\* The robot of each slot, or no team at all.
Matching(t) ==
    LET w == MatchFrom(t, SlotsOf[t],
                       [slot |-> [r \in Robots |-> 0], visited |-> {}, found |-> TRUE])
    IN  IF w.found THEN [s \in SlotsOf[t] |-> CHOOSE r \in Robots : w.slot[r] = s]
        ELSE NoTeam

-----------------------------------------------------------------------------
(* MinimalPlanValidator.validate, on a list of assignments.                *)

\* The assignment cites its robot's bid, which accepts the slot, and the robot
\* can still do it.
Holds(t, a) ==
    /\ a.backed /\ a.robot \in DOMAIN bids[t] /\ a.slot \in bids[t][a.robot]
    /\ cond[a.robot] # "unfit" /\ ~Busy(t, a.robot) /\ a.slot \in able[a.robot]

Valid(t, plan) ==
    /\ \A s \in SlotsOf[t] : Cardinality({i \in DOMAIN plan : plan[i].slot = s}) = 1
    /\ \A i \in DOMAIN plan : plan[i].slot \in SlotsOf[t] \cap proper /\ Holds(t, plan[i])
    /\ \A i, j \in DOMAIN plan : plan[i].robot = plan[j].robot => i = j

TeamOf(t, plan) ==
    [s \in SlotsOf[t] |-> (CHOOSE a \in {plan[i] : i \in DOMAIN plan} : a.slot = s).robot]

PlanOf(t, f) ==
    LET slots == SetToSortSeq(SlotsOf[t], <)
    IN  [i \in DOMAIN slots |-> [slot |-> slots[i], robot |-> f[slots[i]], backed |-> TRUE]]

-----------------------------------------------------------------------------
(* close_bid_round.                                                        *)

Input(t) == [r \in DOMAIN bids[t] |->
    [offer |-> bids[t][r], cond |-> cond[r], able |-> able[r], busy |-> Busy(t, r)]]

\* The Coordinator is not closing a round.
Free == \A u \in Jobs : round[u] \notin {"asked", "decided"}

\* The first read.  The task view refuses a round with a clue that waits.
CloseRound(t) ==
    /\ round[t] = "bidding" /\ Free
    /\ round' = [round EXCEPT ![t] = IF clue[t] THEN "dropped" ELSE "asked"]
    /\ first' = IF clue[t] THEN first ELSE Input(t)
    /\ UNCHANGED <<able, proper, cond, bids, choice, team, clue, drifts>>

\* What a policy may return: any list, also with wrong slots, robots and bids.
Candidates == UNION {[1 .. n -> [slot : AllSlots, robot : Robots, backed : BOOLEAN]] :
                        n \in 0 .. Cardinality(AllSlots)}

\* Mutant: the answer to the current input is taken as it is.
Accepted_Unchecked(t, plan) ==
    /\ first = Input(t)
    /\ {plan[i].slot : i \in DOMAIN plan} = SlotsOf[t]

\* An answer is dropped when its input has changed meanwhile.
Accepted(t, plan) == first = Input(t) /\ Valid(t, plan)

\* The second read, and all that is computed from it.
Choose(t, outcome, f) ==
    /\ round[t] = "asked" /\ ~clue[t]
    /\ round' = [round EXCEPT ![t] = "decided"]
    /\ choice' = [outcome |-> outcome, team |-> f, input |-> Input(t)]
    /\ first' = << >>
    /\ UNCHANGED <<able, proper, cond, bids, team, clue, drifts>>

UsePolicy(t) ==
    \E plan \in Candidates : Accepted(t, plan) /\ Choose(t, "assigned", TeamOf(t, plan))

\* The policy failed, timed out, or its answer was refused.
UseMatching(t) ==
    IF Matching(t) # NoTeam /\ Valid(t, PlanOf(t, Matching(t)))
    THEN Choose(t, "assigned", Matching(t))
    ELSE Choose(t, "failed", NoTeam)

LeaveRound(t) ==
    /\ round[t] = "asked" /\ clue[t]
    /\ round' = [round EXCEPT ![t] = "dropped"]
    /\ first' = << >>
    /\ UNCHANGED <<able, proper, cond, bids, choice, team, clue, drifts>>

\* The append: the gate takes the event also when a clue came meanwhile.
PublishChoice(t) ==
    /\ round[t] = "decided"
    /\ round' = [round EXCEPT ![t] = choice.outcome]
    /\ team' = [team EXCEPT ![t] = choice.team]
    /\ choice' = NoChoice
    /\ UNCHANGED <<able, proper, cond, bids, first, clue, drifts>>

\* A robot reports a clue; the Coordinator replans, with a new round.
Clue(t) ==
    /\ round[t] \in {"bidding", "asked", "decided", "assigned"}
    /\ drifts < MaxDrifts /\ drifts' = drifts + 1
    /\ clue' = [clue EXCEPT ![t] = TRUE]
    /\ UNCHANGED <<able, proper, cond, bids, round, first, choice, team>>

Reopen(t) ==
    /\ round[t] \in {"dropped", "assigned"} /\ clue[t] /\ Free
    /\ round' = [round EXCEPT ![t] = "bidding"]
    /\ bids' = [bids EXCEPT ![t] = NoBids]
    /\ team' = [team EXCEPT ![t] = NoTeam]
    /\ clue' = [clue EXCEPT ![t] = FALSE]
    /\ UNCHANGED <<able, proper, cond, first, choice, drifts>>

\* The task is done, or failed.
Finish(t) ==
    /\ round[t] = "assigned" /\ Free
    /\ round' = [round EXCEPT ![t] = "over"]
    /\ team' = [team EXCEPT ![t] = NoTeam]
    /\ UNCHANGED <<able, proper, cond, bids, first, choice, clue, drifts>>

PlanNext ==
    \/ \E r \in Robots : Drift(r) \/ \E t \in Jobs : Bid(t, r)
    \/ \E t \in Jobs :
          \/ CloseRound(t) \/ UsePolicy(t) \/ UseMatching(t) \/ LeaveRound(t)
          \/ PublishChoice(t) \/ Clue(t) \/ Reopen(t) \/ Finish(t)

PlanSpec == PlanInit /\ [][PlanNext]_planVars

-----------------------------------------------------------------------------
(* Properties.                                                             *)

\* Teams of t, as a definition and not as a search.
Teams(t, edge(_, _)) ==
    {f \in [SlotsOf[t] -> Robots] :
        /\ \A s, x \in SlotsOf[t] : f[s] = f[x] => s = x
        /\ \A s \in SlotsOf[t] : edge(s, f[s])}

\* A team that is committed fits its slots by the bids and by the last reading of
\* its members' state, whatever the policy answered and whatever changed while it
\* was thinking; what changes after that reading is not noticed.  And when it is
\* committed no member is in the team of another task.
CommittedTeamFits ==
    [][\A t \in Jobs : team'[t] # team[t] /\ team'[t] # NoTeam =>
          /\ team'[t] \in Teams(t, LAMBDA s, r :
                 /\ s \in proper /\ r \in DOMAIN choice.input
                 /\ s \in choice.input[r].offer /\ s \in choice.input[r].able
                 /\ choice.input[r].cond # "unfit")
          /\ \A r \in Members(team'[t]) : ~Busy(t, r)]_planVars

\* A round of proper slots fails only when there is no team, as long as the bids
\* still say what the robots are: then the validator refuses nothing a bid
\* offers, and the matching finds a team whenever there is one.
FailsWithoutTeam ==
    [][\A t \in Jobs :
          (/\ round'[t] = "decided" /\ choice'.outcome = "failed" /\ choice # choice'
           /\ SlotsOf[t] \subseteq proper
           /\ DOMAIN bids[t] = Robots /\ \A r \in Robots : bids[t][r] = Offer(t, r)) =>
          Teams(t, LAMBDA s, r : s \in able[r] /\ cond[r] = "fit" /\ ~Busy(t, r)) = {}]_planVars
=============================================================================
