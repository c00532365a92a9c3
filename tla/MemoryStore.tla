----------------------------- MODULE MemoryStore -----------------------------
(***************************************************************************)
(* Long-term memory: what each agent keeps for itself, the candidates that *)
(* a person reviews, the facts all agents share, and the consolidation of  *)
(* a finished task into these, which may be cut short and done again.      *)
(*                                                                         *)
(* A call of the store is one transaction; one that raises an error is     *)
(* rolled back and is not a step.  A content stands for its text, a hash   *)
(* for what it is computed from.  Contents in Expiring have an expiry      *)
(* date, the same for all, after which `late` holds.                       *)
(***************************************************************************)
EXTENDS Naturals, Sequences, FiniteSets

CONSTANTS
    Agents,        \* participants of the task
    Notes,         \* contents of private memories that agents write
    Claims,        \* contents of candidates and facts
    Expiring,      \* claims with an expiry date
    MaxAsked,      \* bound on calls from outside
    MaxCandidates

ASSUME AgentsAssumption == IsFiniteSet(Agents)

Kinds == {"working", "episodic"}
FactEvidence == {"receipt"}           \* _FACT_EVIDENCE_TYPES, one for all
Sources == FactEvidence \cup {"prose"}

VARIABLES
    private,      \* table private_memories
    candidates,   \* table memory_candidates, in the order of insertion
    facts,        \* table shared_facts, in the order of insertion
    recorded,     \* trace_asset_consolidations of the task's asset
    progress,     \* next step of the consolidation under way, 0 without
    asset,        \* the quality gate's verdict on the asset, its proposals
    late,
    asked         \* calls made from outside

memoryVars == <<private, candidates, facts, recorded, progress, asset, late, asked>>

MemoryInit ==
    /\ private = {} /\ candidates = << >> /\ facts = << >>
    /\ recorded = "no" /\ progress = 0
    /\ asset \in [accepted : BOOLEAN, claim : Claims, source : Sources]
    /\ late = FALSE /\ asked = 0

Asked == asked < MaxAsked /\ asked' = asked + 1

-----------------------------------------------------------------------------
(* Private memories.                                                       *)

\* Mutant: each call makes a row of its own.
Hash_PerCall(agent, kind, content) == <<agent, kind, content, Cardinality(private)>>

\* The key of a row: agent, kind and a digest of both, the task and content.
Hash(agent, kind, content) == <<agent, kind, content>>

Nothing == << >>

CanSupersede(agent, old) ==
    old = Nothing \/ \E p \in private : p.id = old /\ p.id[1] = agent

\* put_private: what it supersedes is retired, then INSERT OR IGNORE.
PutPrivate(agent, kind, content, old) ==
    LET id   == Hash(agent, kind, content)
        kept == {IF p.id = old THEN [p EXCEPT !.retired = TRUE] ELSE p : p \in private}
    IN  /\ CanSupersede(agent, old)
        /\ private' = IF \E p \in private : p.id = id THEN kept
                      ELSE kept \cup {[id |-> id, over |-> old, retired |-> FALSE]}

Write(agent, kind, note) ==
    /\ Asked
    /\ \E old \in {Nothing} \cup {p.id : p \in private} : PutPrivate(agent, kind, note, old)
    /\ UNCHANGED <<candidates, facts, recorded, progress, asset, late>>

\* A row that another supersedes is held by its foreign key: nothing is deleted.
ClearWorking(agent) ==
    LET doomed == {p \in private : p.id[1] = agent /\ p.id[2] = "working"}
    IN  /\ Asked
        /\ \A p \in private \ doomed : p.over \notin {q.id : q \in doomed}
        /\ private' = private \ doomed
        /\ UNCHANGED <<candidates, facts, recorded, progress, asset, late>>

-----------------------------------------------------------------------------
(* Candidates and their review.                                            *)

\* add_candidate: one that is pending with this content is returned as it is.
AddCandidate(type, claim, source, over) ==
    IF \E i \in DOMAIN candidates :
          /\ candidates[i].type = type /\ candidates[i].claim = claim
          /\ candidates[i].status = "pending"
    THEN UNCHANGED candidates
    ELSE /\ Len(candidates) < MaxCandidates
         /\ candidates' = Append(candidates,
               [type |-> type, claim |-> claim, status |-> "pending", over |-> over,
                eligible |-> type = "fact" /\ source \in FactEvidence])

Submit(type, claim, source, over) ==
    /\ Asked
    /\ AddCandidate(type, claim, source, over)
    /\ UNCHANGED <<private, facts, recorded, progress, asset, late>>

Expired(claim) == late /\ claim \in Expiring

Retire(i) == [j \in DOMAIN facts |-> IF j = i THEN [facts[j] EXCEPT !.retired = TRUE]
                                     ELSE facts[j]]

\* _promote_fact: content that is a fact already is left as it is, even retired.
Promote(c) ==
    \/ /\ \E i \in DOMAIN facts : facts[i].claim = c.claim
       /\ UNCHANGED facts
    \/ /\ \A i \in DOMAIN facts : facts[i].claim # c.claim
       /\ c.over \in {0} \cup DOMAIN facts
       /\ facts' = Append(Retire(c.over), [claim |-> c.claim, over |-> c.over, retired |-> FALSE])

\* Mutant: any pending fact may be approved.
Approve_Any(i) ==
    LET c == candidates[i]
    IN  /\ c.status = "pending" /\ ~Expired(c.claim)
        /\ IF c.type = "fact" THEN Promote(c) ELSE UNCHANGED facts
        /\ candidates' = [candidates EXCEPT ![i].status = "approved"]

Approve(i) ==
    LET c == candidates[i]
    IN  /\ c.status = "pending" /\ ~Expired(c.claim)
        /\ IF c.type = "fact" THEN c.eligible /\ Promote(c) ELSE UNCHANGED facts
        /\ candidates' = [candidates EXCEPT ![i].status = "approved"]

Reject(i) ==
    /\ candidates[i].status = "pending"
    /\ candidates' = [candidates EXCEPT ![i].status = "rejected"]
    /\ UNCHANGED facts

\* decide_candidate, by the people behind the dashboard.
Decide(i) ==
    /\ Approve(i) \/ Reject(i)
    /\ UNCHANGED <<private, recorded, progress, asset, late, asked>>

DatesPass ==
    /\ late' = TRUE
    /\ UNCHANGED <<private, candidates, facts, recorded, progress, asset, asked>>

RetireExpired ==
    /\ facts' = [i \in DOMAIN facts |->
          IF Expired(facts[i].claim) THEN [facts[i] EXCEPT !.retired = TRUE] ELSE facts[i]]
    /\ candidates' = [i \in DOMAIN candidates |->
          IF candidates[i].status = "pending" /\ Expired(candidates[i].claim)
          THEN [candidates[i] EXCEPT !.status = "archived"] ELSE candidates[i]]
    /\ UNCHANGED <<private, recorded, progress, asset, late, asked>>

\* search_facts, which retrieve_context is built on.
Served == {facts[i].claim : i \in {j \in DOMAIN facts :
              ~facts[j].retired /\ ~Expired(facts[j].claim)}}

-----------------------------------------------------------------------------
(* MemoryConsolidator.consolidate.                                         *)

Participants == CHOOSE s \in [1 .. Cardinality(Agents) -> Agents] :
                   \A i, j \in DOMAIN s : i # j => s[i] # s[j]

\* Nothing to do when the asset is recorded; a refused asset is recorded at once.
StartConsolidation ==
    /\ progress = 0 /\ recorded = "no"
    /\ IF asset.accepted THEN progress' = 1 /\ UNCHANGED recorded
       ELSE recorded' = "rejected" /\ UNCHANGED progress
    /\ UNCHANGED <<private, candidates, facts, asset, late, asked>>

KeepEpisode ==
    /\ progress \in DOMAIN Participants
    /\ PutPrivate(Participants[progress], "episodic", "episode", Nothing)
    /\ progress' = progress + 1
    /\ UNCHANGED <<candidates, facts, recorded, asset, late, asked>>

\* Prose is never a fact, but a skill may come of it.
Propose ==
    /\ progress = Len(Participants) + 1
    /\ IF asset.source \in FactEvidence THEN AddCandidate("fact", asset.claim, asset.source, 0)
       ELSE AddCandidate("skill", asset.claim, asset.source, 0)
    /\ progress' = progress + 1
    /\ UNCHANGED <<private, facts, recorded, asset, late, asked>>

Record ==
    /\ progress = Len(Participants) + 2
    /\ recorded' = "approved"
    /\ progress' = 0
    /\ UNCHANGED <<private, candidates, facts, asset, late, asked>>

\* The process ends, or a call of the store fails; the run may be done again.
CutShort ==
    /\ progress > 0
    /\ progress' = 0
    /\ UNCHANGED <<private, candidates, facts, recorded, asset, late, asked>>

MemoryNext ==
    \/ StartConsolidation \/ KeepEpisode \/ Propose \/ Record \/ CutShort
    \/ DatesPass \/ RetireExpired
    \/ \E i \in DOMAIN candidates : Decide(i)
    \/ \E agent \in Agents : ClearWorking(agent)
    \/ \E agent \in Agents, kind \in Kinds, note \in Notes : Write(agent, kind, note)
    \/ \E type \in {"fact", "skill"}, claim \in Claims, source \in Sources,
          over \in {0} \cup DOMAIN facts : Submit(type, claim, source, over)

MemorySpec == MemoryInit /\ [][MemoryNext]_memoryVars

-----------------------------------------------------------------------------
(* Properties.                                                             *)

\* What all agents are served was approved by a person and has evidence that is
\* not prose, whichever way its content was submitted, several times perhaps;
\* the approval stands, and what an approved fact replaced is not served.
ServedIsApproved ==
    \A i \in DOMAIN facts :
        /\ \E j \in DOMAIN candidates :
             /\ candidates[j].type = "fact" /\ candidates[j].claim = facts[i].claim
             /\ candidates[j].status = "approved" /\ candidates[j].eligible
        /\ facts[i].over # 0 => facts[facts[i].over].claim \notin Served

\* However often a consolidation is cut short and repeated, it leaves at most
\* one episode with an agent, one with each participant when it is recorded, and
\* one fact of a content, although it proposes again what may be approved.
ConsolidatedOnce ==
    /\ \A agent \in Agents :
          LET episodes == {p \in private : p.id[1] = agent /\ p.id[2] = "episodic"
                                            /\ p.id[3] = "episode"}
          IN  /\ Cardinality(episodes) <= 1
              /\ recorded = "approved" => episodes # {}
    /\ \A i, j \in DOMAIN facts : facts[i].claim = facts[j].claim => i = j
=============================================================================
