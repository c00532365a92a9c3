----------------------------- MODULE MemoryProofs -----------------------------
(***************************************************************************)
(* What the agents are served was approved, and a task is consolidated     *)
(* once, for any number of agents, contents, candidates and calls.         *)
(***************************************************************************)
EXTENDS MemoryStore, FiniteSetTheorems, SequenceTheorems, TLAPS

Contents == Notes \cup {"episode"}

Ids == Agents \X Kinds \X Contents

PrivateRows == [id : Ids, over : Ids \cup {Nothing}, retired : BOOLEAN]

CandidateRows == [type : {"fact", "skill"}, claim : Claims, over : Nat, eligible : BOOLEAN,
                  status : {"pending", "approved", "rejected", "archived"}]

FactRows == [claim : Claims, over : Nat, retired : BOOLEAN]

MemoryTypeOK ==
    /\ private \subseteq PrivateRows
    /\ candidates \in Seq(CandidateRows) /\ facts \in Seq(FactRows)
    /\ recorded \in {"no", "rejected", "approved"} /\ progress \in Nat
    /\ asset \in [accepted : BOOLEAN, claim : Claims, source : Sources]
    /\ late \in BOOLEAN

-----------------------------------------------------------------------------
(* The strengthening for the facts: a fact that another one replaced is    *)
(* retired, and there is one fact of a content.                            *)

Approved(claim) ==
    \E j \in DOMAIN candidates :
        /\ candidates[j].type = "fact" /\ candidates[j].claim = claim
        /\ candidates[j].status = "approved" /\ candidates[j].eligible

ApprovedFirst == \A i \in DOMAIN facts : Approved(facts[i].claim)

ReplacedRetired ==
    \A i \in DOMAIN facts : facts[i].over # 0 =>
        facts[i].over \in DOMAIN facts /\ facts[facts[i].over].retired

OneFactOfContent ==
    \A i, j \in DOMAIN facts : facts[i].claim = facts[j].claim => i = j

\* For the consolidation: a row is found by its key, and the episodes are
\* there as far as it has come.
OneRowOfKey == \A p, q \in private : p.id = q.id => p = q

Told(agent) == \E p \in private : p.id = <<agent, "episodic", "episode">>

ToldSoFar ==
    /\ \A k \in DOMAIN Participants : k < progress => Told(Participants[k])
    /\ recorded = "approved" => \A agent \in Agents : Told(agent)

FactsInv == ApprovedFirst /\ ReplacedRetired /\ OneFactOfContent

EpisodesInv == OneRowOfKey /\ ToldSoFar

MemoryInv == MemoryTypeOK /\ FactsInv /\ EpisodesInv

-----------------------------------------------------------------------------
(* Private memories.                                                       *)

\* Every agent is a participant.
LEMMA ParticipantsAll ==
    /\ Participants \in Seq(Agents) /\ Len(Participants) = Cardinality(Agents)
    /\ DOMAIN Participants = 1 .. Cardinality(Agents)
    /\ \A agent \in Agents : \E k \in DOMAIN Participants : Participants[k] = agent
<1> DEFINE N == Cardinality(Agents)
<1>1. N \in Nat /\ ExistsBijection(1 .. N, Agents)
  BY FS_CardinalityType, AgentsAssumption
<1>2. PICK f \in [1 .. N -> Agents] : \A i, j \in DOMAIN f : i # j => f[i] # f[j]
  BY <1>1 DEF ExistsBijection, Bijection, Injection, IsInjective
<1>3. /\ Participants \in [1 .. N -> Agents]
      /\ \A i, j \in DOMAIN Participants : i # j => Participants[i] # Participants[j]
  BY <1>2 DEF Participants
<1>4. Participants \in Injection(1 .. N, Agents)
  BY <1>3 DEF Injection, IsInjective
<1>5. IsFiniteSet(1 .. N) /\ Cardinality(1 .. N) = N
  BY <1>1, FS_Interval
<1>6. Participants \in Surjection(1 .. N, Agents)
  BY <1>4, <1>5, FS_Injection, AgentsAssumption
<1>7. QED
  BY <1>1, <1>3, <1>6 DEF Surjection

\* Writing a memory loses none, and makes no second row of one key.
LEMMA PutKeeps ==
    ASSUME private \subseteq PrivateRows, OneRowOfKey,
           NEW agent \in Agents, NEW kind \in Kinds, NEW content \in Contents,
           NEW old \in Ids \cup {Nothing}, PutPrivate(agent, kind, content, old)
    PROVE  /\ private' \subseteq PrivateRows /\ OneRowOfKey'
           /\ \A p \in private : \E q \in private' : q.id = p.id
           /\ \E q \in private' : q.id = <<agent, kind, content>>
<1> DEFINE id == Hash(agent, kind, content)
           Kept(p) == IF p.id = old THEN [p EXCEPT !.retired = TRUE] ELSE p
           kept == {Kept(p) : p \in private}
           new == [id |-> id, over |-> old, retired |-> FALSE]
<1>1. \A p \in private : Kept(p) \in PrivateRows /\ Kept(p).id = p.id
  BY DEF PrivateRows
<1>2. id = <<agent, kind, content>> /\ id \in Ids /\ new \in PrivateRows
  BY DEF Hash, Ids, PrivateRows
<1>3. kept \subseteq PrivateRows /\ \A p, q \in kept : p.id = q.id => p = q
  <2>1. \A p, q \in private : Kept(p).id = Kept(q).id => p = q
    BY <1>1 DEF OneRowOfKey
  <2>2. QED
    <3>1. ASSUME NEW p \in kept, NEW q \in kept, p.id = q.id PROVE p = q
      <4>1. PICK a \in private : p = Kept(a)
        OBVIOUS
      <4>2. PICK b \in private : q = Kept(b)
        OBVIOUS
      <4>3. a = b
        BY <2>1, <3>1, <4>1, <4>2
      <4>4. QED
        BY <4>1, <4>2, <4>3
    <3>2. QED
      BY <1>1, <3>1
<1>4. \A p \in private : \E q \in kept : q.id = p.id
  BY <1>1
<1>5. CASE \E p \in private : p.id = id
  <2>1. private' = kept
    BY <1>5 DEF PutPrivate
  <2>2. QED
    BY <1>2, <1>3, <1>4, <1>5, <2>1 DEF OneRowOfKey
<1>6. CASE ~ \E p \in private : p.id = id
  <2>1. private' = kept \cup {new}
    BY <1>6 DEF PutPrivate
  <2>2. \A p \in kept : p.id # new.id
    BY <1>1, <1>6
  <2>3. new.id = id
    OBVIOUS
  <2>4. OneRowOfKey'
    BY <1>3, <2>1, <2>2 DEF OneRowOfKey
  <2>5. QED
    BY <1>2, <1>3, <1>4, <2>1, <2>3, <2>4
<1>7. QED
  BY <1>5, <1>6

-----------------------------------------------------------------------------
(* Candidates and facts.                                                   *)

LEMMA AddType ==
    ASSUME candidates \in Seq(CandidateRows), NEW type \in {"fact", "skill"},
           NEW claim \in Claims, NEW source \in Sources, NEW over \in Nat,
           AddCandidate(type, claim, source, over)
    PROVE  /\ candidates' \in Seq(CandidateRows)
           /\ \A j \in DOMAIN candidates : j \in DOMAIN candidates' /\ candidates'[j] = candidates[j]
<1> DEFINE c == [type |-> type, claim |-> claim, status |-> "pending", over |-> over,
                 eligible |-> type = "fact" /\ source \in FactEvidence]
<1>1. CASE UNCHANGED candidates
  BY <1>1
<1>2. CASE candidates' = Append(candidates, c)
  <2>1. (type = "fact" /\ source \in FactEvidence) \in BOOLEAN
    OBVIOUS
  <2>2. c \in CandidateRows
    BY <2>1 DEF CandidateRows
  <2>3. QED
    BY <1>2, <2>2
<1>3. QED
  BY <1>1, <1>2 DEF AddCandidate

\* A fact stays a fact: only that it is retired may change.
SameFacts ==
    /\ facts' \in Seq(FactRows) /\ DOMAIN facts' = DOMAIN facts
    /\ \A i \in DOMAIN facts :
          /\ facts'[i].claim = facts[i].claim /\ facts'[i].over = facts[i].over
          /\ facts[i].retired => facts'[i].retired

LEMMA SameFactsKept ==
    ASSUME MemoryTypeOK, FactsInv, SameFacts, \A claim : Approved(claim) => Approved(claim)'
    PROVE  FactsInv'
<1>1. ApprovedFirst'
  BY DEF FactsInv, ApprovedFirst, SameFacts
<1>2. ReplacedRetired'
  BY DEF FactsInv, ReplacedRetired, SameFacts
<1>3. OneFactOfContent'
  BY DEF FactsInv, OneFactOfContent, SameFacts
<1>4. QED
  BY <1>1, <1>2, <1>3 DEF FactsInv

LEMMA UnchangedFacts ==
    ASSUME MemoryTypeOK, UNCHANGED facts PROVE SameFacts
BY DEF MemoryTypeOK, SameFacts

\* Approval: content that is new becomes a fact, and retires what it replaces.
LEMMA PromoteKeeps ==
    ASSUME MemoryTypeOK, FactsInv, NEW c \in CandidateRows, Promote(c),
           \A claim : Approved(claim) => Approved(claim)', Approved(c.claim)'
    PROVE  facts' \in Seq(FactRows) /\ FactsInv'
<1>1. CASE UNCHANGED facts
  BY <1>1, UnchangedFacts, SameFactsKept DEF MemoryTypeOK
<1>2. CASE /\ \A i \in DOMAIN facts : facts[i].claim # c.claim
           /\ c.over \in {0} \cup DOMAIN facts
           /\ facts' = Append(Retire(c.over), [claim |-> c.claim, over |-> c.over,
                                               retired |-> FALSE])
  <2> DEFINE new == [claim |-> c.claim, over |-> c.over, retired |-> FALSE]
             n == Len(facts)
  <2>1. facts \in Seq(FactRows) /\ n \in Nat /\ DOMAIN facts = 1 .. n
    BY DEF MemoryTypeOK
  <2>2. new \in FactRows /\ new.claim = c.claim /\ new.over = c.over
    BY DEF CandidateRows, FactRows
  <2>3. /\ Retire(c.over) \in Seq(FactRows) /\ Len(Retire(c.over)) = n
        /\ \A i \in 1 .. n : /\ Retire(c.over)[i].claim = facts[i].claim
                             /\ Retire(c.over)[i].over = facts[i].over
                             /\ facts[i].retired => Retire(c.over)[i].retired
                             /\ i = c.over => Retire(c.over)[i].retired
    <3>1. \A i \in 1 .. n : facts[i] \in FactRows
      BY <2>1
    <3>2. \A i \in 1 .. n : /\ Retire(c.over)[i] \in FactRows
                            /\ Retire(c.over)[i].claim = facts[i].claim
                            /\ Retire(c.over)[i].over = facts[i].over
                            /\ facts[i].retired => Retire(c.over)[i].retired
                            /\ i = c.over => Retire(c.over)[i].retired
      BY <2>1, <3>1 DEF Retire, FactRows
    <3>3. /\ DOMAIN Retire(c.over) = 1 .. n
          /\ Retire(c.over) = [i \in 1 .. n |-> Retire(c.over)[i]]
      BY <2>1 DEF Retire
    <3>4. QED
      BY <2>1, <3>2, <3>3
  <2>4. /\ facts' \in Seq(FactRows) /\ DOMAIN facts' = 1 .. (n + 1) /\ facts'[n + 1] = new
        /\ \A i \in 1 .. n : facts'[i] = Retire(c.over)[i]
    BY <1>2, <2>1, <2>2, <2>3
  <2>5. ApprovedFirst'
    BY <2>1, <2>2, <2>3, <2>4 DEF FactsInv, ApprovedFirst
  <2>6. ReplacedRetired'
    <3>1. ASSUME NEW i \in 1 .. n, facts[i].over # 0
          PROVE  facts'[i].over \in 1 .. n /\ facts'[facts'[i].over].retired
      <4>1. facts[i].over \in 1 .. n /\ facts[facts[i].over].retired
        BY <2>1, <3>1 DEF FactsInv, ReplacedRetired
      <4>2. QED
        BY <2>3, <2>4, <4>1
    <3>2. c.over # 0 => c.over \in 1 .. n /\ facts'[c.over].retired
      BY <1>2, <2>1, <2>3, <2>4
    <3>3. \A i \in 1 .. n : facts'[i].over = facts[i].over
      BY <2>3, <2>4
    <3>4. n + 1 \in Nat /\ \A i \in 1 .. n + 1 : i \in 1 .. n \/ i = n + 1
      BY <2>1
    <3>5. \A i \in 1 .. n : i \in 1 .. n + 1
      BY <2>1
    <3>6. QED
      BY <2>2, <2>4, <3>1, <3>2, <3>3, <3>4, <3>5 DEF ReplacedRetired
  <2>7. OneFactOfContent'
    BY <1>2, <2>1, <2>2, <2>3, <2>4 DEF FactsInv, OneFactOfContent
  <2>8. QED
    BY <2>4, <2>5, <2>6, <2>7 DEF FactsInv
<1>3. QED
  BY <1>1, <1>2 DEF Promote

-----------------------------------------------------------------------------
(* The steps.                                                              *)

\* Whatever leaves the memories alone, and the consolidation, keeps episodes.
LEMMA EpisodesKept ==
    ASSUME EpisodesInv, UNCHANGED <<private, recorded, progress>> PROVE EpisodesInv'
BY DEF EpisodesInv, OneRowOfKey, ToldSoFar, Told

LEMMA ApprovedKept ==
    ASSUME \A j \in DOMAIN candidates : j \in DOMAIN candidates' /\ candidates'[j] = candidates[j]
    PROVE  \A claim : Approved(claim) => Approved(claim)'
BY DEF Approved

LEMMA WriteStep ==
    ASSUME MemoryInv, NEW agent \in Agents, NEW kind \in Kinds, NEW note \in Notes,
           Write(agent, kind, note)
    PROVE  MemoryInv'
<1>1. private \subseteq PrivateRows /\ OneRowOfKey
  BY DEF MemoryInv, MemoryTypeOK, EpisodesInv
<1>2. PICK old \in {Nothing} \cup {p.id : p \in private} : PutPrivate(agent, kind, note, old)
  BY DEF Write
<1>3. old \in Ids \cup {Nothing} /\ note \in Contents
  BY <1>1, <1>2 DEF PrivateRows, Contents
<1>4. /\ private' \subseteq PrivateRows /\ OneRowOfKey'
      /\ \A p \in private : \E q \in private' : q.id = p.id
  BY <1>1, <1>2, <1>3, PutKeeps
<1>5. UNCHANGED <<candidates, facts, recorded, progress, asset, late>>
  BY DEF Write
<1>6. EpisodesInv'
  BY <1>4, <1>5 DEF MemoryInv, EpisodesInv, ToldSoFar, Told
<1>7. MemoryTypeOK' /\ FactsInv'
  BY <1>4, <1>5 DEF MemoryInv, MemoryTypeOK, FactsInv, ApprovedFirst, ReplacedRetired,
                    OneFactOfContent, Approved
<1>8. QED
  BY <1>6, <1>7 DEF MemoryInv

\* Only working memories are cleared.
LEMMA ClearStep ==
    ASSUME MemoryInv, NEW agent \in Agents, ClearWorking(agent) PROVE MemoryInv'
<1>1. /\ private' = private \ {p \in private : p.id[1] = agent /\ p.id[2] = "working"}
      /\ UNCHANGED <<candidates, facts, recorded, progress, asset, late>>
  BY DEF ClearWorking
<1>2. \A a \in Agents : Told(a) => Told(a)'
  BY <1>1 DEF Told
<1>3. ToldSoFar'
  BY <1>1, <1>2, ParticipantsAll DEF MemoryInv, EpisodesInv, ToldSoFar
<1>4. OneRowOfKey'
  BY <1>1 DEF MemoryInv, EpisodesInv, OneRowOfKey
<1>5. MemoryTypeOK' /\ FactsInv'
  BY <1>1 DEF MemoryInv, MemoryTypeOK, FactsInv, ApprovedFirst, ReplacedRetired,
              OneFactOfContent, Approved
<1>6. QED
  BY <1>3, <1>4, <1>5 DEF MemoryInv, EpisodesInv

LEMMA SubmitStep ==
    ASSUME MemoryInv, NEW type \in {"fact", "skill"}, NEW claim \in Claims,
           NEW source \in Sources, NEW over \in {0} \cup DOMAIN facts,
           Submit(type, claim, source, over)
    PROVE  MemoryInv'
<1>1. over \in Nat /\ candidates \in Seq(CandidateRows)
  BY DEF MemoryInv, MemoryTypeOK
<1>2. /\ AddCandidate(type, claim, source, over)
      /\ UNCHANGED <<private, facts, recorded, progress, asset, late>>
  BY DEF Submit
<1>3. /\ candidates' \in Seq(CandidateRows)
      /\ \A j \in DOMAIN candidates : j \in DOMAIN candidates' /\ candidates'[j] = candidates[j]
  BY <1>1, <1>2, AddType
<1>4. FactsInv'
  BY <1>2, <1>3, ApprovedKept, UnchangedFacts, SameFactsKept DEF MemoryInv
<1>5. MemoryTypeOK' /\ EpisodesInv'
  BY <1>2, <1>3, EpisodesKept DEF MemoryInv, MemoryTypeOK
<1>6. QED
  BY <1>4, <1>5 DEF MemoryInv

\* A decision takes its candidate from pending; no approval is taken back.
LEMMA DecideStep ==
    ASSUME MemoryInv, NEW i \in DOMAIN candidates, Decide(i) PROVE MemoryInv'
<1>0. PICK c : c = candidates[i]
  OBVIOUS
<1>1. /\ candidates \in Seq(CandidateRows) /\ c \in CandidateRows /\ c = candidates[i]
      /\ UNCHANGED <<private, recorded, progress, asset, late>> /\ c.status = "pending"
  BY <1>0 DEF Decide, Approve, Reject, MemoryInv, MemoryTypeOK
<1>2. ASSUME NEW s \in {"approved", "rejected"},
             candidates' = [candidates EXCEPT ![i].status = s]
      PROVE  /\ candidates' \in Seq(CandidateRows)
             /\ \A claim : Approved(claim) => Approved(claim)'
             /\ s = "approved" /\ c.type = "fact" /\ c.eligible => Approved(c.claim)'
  <2>1. [c EXCEPT !.status = s] \in CandidateRows
    BY <1>1 DEF CandidateRows
  <2>2. candidates' \in Seq(CandidateRows) /\ DOMAIN candidates' = DOMAIN candidates
    BY <1>1, <1>2, <2>1
  <2>3. /\ candidates'[i].type = c.type /\ candidates'[i].claim = c.claim
        /\ candidates'[i].status = s /\ candidates'[i].eligible = c.eligible
        /\ \A j \in DOMAIN candidates \ {i} : candidates'[j] = candidates[j]
    BY <1>1, <1>2 DEF CandidateRows
  <2>4. QED
    BY <1>1, <2>2, <2>3 DEF Approved
<1>3. facts' \in Seq(FactRows) /\ FactsInv' /\ candidates' \in Seq(CandidateRows)
  <2>1. CASE candidates' = [candidates EXCEPT ![i].status = "rejected"] /\ UNCHANGED facts
    <3>1. candidates' \in Seq(CandidateRows) /\ \A claim : Approved(claim) => Approved(claim)'
      BY <1>2, <2>1
    <3>2. QED
      BY <2>1, <3>1, UnchangedFacts, SameFactsKept DEF MemoryInv, SameFacts
  <2>2. CASE /\ candidates' = [candidates EXCEPT ![i].status = "approved"]
             /\ UNCHANGED facts
    <3>1. candidates' \in Seq(CandidateRows) /\ \A claim : Approved(claim) => Approved(claim)'
      BY <1>2, <2>2
    <3>2. QED
      BY <2>2, <3>1, UnchangedFacts, SameFactsKept DEF MemoryInv, SameFacts
  <2>3. CASE /\ candidates' = [candidates EXCEPT ![i].status = "approved"]
             /\ c.type = "fact" /\ c.eligible /\ Promote(c)
    <3>1. /\ candidates' \in Seq(CandidateRows) /\ Approved(c.claim)'
          /\ \A claim : Approved(claim) => Approved(claim)'
      BY <1>2, <2>3
    <3>2. QED
      BY <1>1, <2>3, <3>1, PromoteKeeps DEF MemoryInv
  <2>4. QED
    BY <1>1, <2>1, <2>2, <2>3 DEF Decide, Approve, Reject, CandidateRows
<1>4. MemoryTypeOK' /\ EpisodesInv'
  BY <1>1, <1>3, EpisodesKept DEF MemoryInv, MemoryTypeOK
<1>5. QED
  BY <1>3, <1>4 DEF MemoryInv

LEMMA RetireExpiredStep == ASSUME MemoryInv, RetireExpired PROVE MemoryInv'
<1>1. /\ candidates \in Seq(CandidateRows) /\ facts \in Seq(FactRows)
      /\ UNCHANGED <<private, recorded, progress, asset, late>>
  BY DEF RetireExpired, MemoryInv, MemoryTypeOK
<1>2. SameFacts
  <2>1. \A i \in DOMAIN facts : facts[i] \in FactRows
    BY <1>1
  <2>2. /\ DOMAIN facts' = DOMAIN facts
        /\ \A i \in DOMAIN facts :
              facts'[i] = IF Expired(facts[i].claim) THEN [facts[i] EXCEPT !.retired = TRUE]
                          ELSE facts[i]
    BY DEF RetireExpired
  <2>3. \A i \in DOMAIN facts :
          /\ facts'[i] \in FactRows
          /\ facts'[i].claim = facts[i].claim /\ facts'[i].over = facts[i].over
          /\ facts[i].retired => facts'[i].retired
    BY <2>1, <2>2 DEF FactRows
  <2>4. facts' = [i \in DOMAIN facts |-> facts'[i]]
    BY DEF RetireExpired
  <2>5. facts' \in Seq(FactRows)
    BY <1>1, <2>2, <2>3, <2>4
  <2>6. QED
    BY <2>2, <2>3, <2>5 DEF SameFacts
<1>3. candidates' \in Seq(CandidateRows) /\ \A claim : Approved(claim) => Approved(claim)'
  <2>1. \A i \in DOMAIN candidates : candidates[i] \in CandidateRows
    BY <1>1
  <2>2. /\ DOMAIN candidates' = DOMAIN candidates
        /\ candidates' = [i \in DOMAIN candidates |-> candidates'[i]]
        /\ \A i \in DOMAIN candidates :
              candidates'[i] =
                 IF candidates[i].status = "pending" /\ Expired(candidates[i].claim)
                 THEN [candidates[i] EXCEPT !.status = "archived"] ELSE candidates[i]
    BY DEF RetireExpired
  <2>3. \A i \in DOMAIN candidates :
          /\ candidates'[i] \in CandidateRows
          /\ candidates[i].status = "approved" => candidates'[i] = candidates[i]
    BY <2>1, <2>2 DEF CandidateRows
  <2>4. candidates' \in Seq(CandidateRows)
    BY <1>1, <2>2, <2>3
  <2>5. QED
    BY <2>2, <2>3, <2>4 DEF Approved
<1>4. FactsInv'
  BY <1>2, <1>3, SameFactsKept DEF MemoryInv
<1>5. MemoryTypeOK' /\ EpisodesInv'
  BY <1>1, <1>2, <1>3, EpisodesKept DEF MemoryInv, MemoryTypeOK, SameFacts
<1>6. QED
  BY <1>4, <1>5 DEF MemoryInv

-----------------------------------------------------------------------------
(* The consolidation.                                                      *)

LEMMA KeepEpisodeStep == ASSUME MemoryInv, KeepEpisode PROVE MemoryInv'
<1> DEFINE agent == Participants[progress]
<1>1. /\ progress \in DOMAIN Participants /\ progress' = progress + 1
      /\ PutPrivate(agent, "episodic", "episode", Nothing)
      /\ UNCHANGED <<candidates, facts, recorded, asset, late>>
  BY DEF KeepEpisode
<1>2. agent \in Agents /\ "episodic" \in Kinds /\ "episode" \in Contents
  BY <1>1, ParticipantsAll DEF Kinds, Contents
<1>3. private \subseteq PrivateRows /\ OneRowOfKey /\ progress \in Nat /\ ToldSoFar
  BY DEF MemoryInv, MemoryTypeOK, EpisodesInv
<1>4. /\ private' \subseteq PrivateRows /\ OneRowOfKey'
      /\ \A p \in private : \E q \in private' : q.id = p.id
      /\ \E q \in private' : q.id = <<agent, "episodic", "episode">>
  BY <1>1, <1>2, <1>3, PutKeeps
<1>5. \A a : Told(a) => Told(a)'
  BY <1>4 DEF Told
<1>6. ToldSoFar'
  <2>1. ASSUME NEW k \in DOMAIN Participants, k < progress + 1 PROVE Told(Participants[k])'
    <3>1. k \in Nat /\ progress \in Nat
      BY <1>3, ParticipantsAll, FS_CardinalityType, AgentsAssumption
    <3>2. CASE k < progress
      BY <1>3, <1>5, <3>2 DEF ToldSoFar
    <3>3. CASE k = progress
      BY <1>4, <3>3 DEF Told
    <3>4. QED
      BY <2>1, <3>1, <3>2, <3>3
  <2>2. QED
    BY <1>1, <1>3, <1>5, <2>1 DEF ToldSoFar
<1>7. MemoryTypeOK' /\ FactsInv'
  BY <1>1, <1>3, <1>4 DEF MemoryInv, MemoryTypeOK, FactsInv, ApprovedFirst, ReplacedRetired,
                    OneFactOfContent, Approved
<1>8. QED
  BY <1>4, <1>6, <1>7 DEF MemoryInv, EpisodesInv

LEMMA ProposeStep == ASSUME MemoryInv, Propose PROVE MemoryInv'
<1>1. /\ progress = Len(Participants) + 1 /\ progress' = progress + 1
      /\ UNCHANGED <<private, facts, recorded, asset, late>>
      /\ candidates \in Seq(CandidateRows) /\ progress \in Nat
      /\ asset.claim \in Claims /\ asset.source \in Sources
  BY DEF Propose, MemoryInv, MemoryTypeOK
<1>2. \/ AddCandidate("fact", asset.claim, asset.source, 0)
      \/ AddCandidate("skill", asset.claim, asset.source, 0)
  BY DEF Propose
<1>3. /\ candidates' \in Seq(CandidateRows)
      /\ \A j \in DOMAIN candidates : j \in DOMAIN candidates' /\ candidates'[j] = candidates[j]
  BY <1>1, <1>2, AddType
<1>4. FactsInv'
  BY <1>1, <1>3, ApprovedKept, UnchangedFacts, SameFactsKept DEF MemoryInv
<1>5. EpisodesInv'
  <2>1. \A k \in DOMAIN Participants : k < progress
    BY <1>1, ParticipantsAll
  <2>2. QED
    BY <1>1, <2>1 DEF MemoryInv, EpisodesInv, OneRowOfKey, ToldSoFar, Told
<1>6. MemoryTypeOK'
  BY <1>1, <1>3 DEF MemoryInv, MemoryTypeOK
<1>7. QED
  BY <1>4, <1>5, <1>6 DEF MemoryInv

\* The steps that leave the tables alone.
LEMMA ProgressStep ==
    ASSUME MemoryInv, StartConsolidation \/ Record \/ CutShort \/ DatesPass
                      \/ UNCHANGED memoryVars
    PROVE  MemoryInv'
<1>1. /\ UNCHANGED <<private, candidates, facts, asset>>
      /\ progress \in Nat /\ ToldSoFar /\ MemoryTypeOK /\ FactsInv /\ OneRowOfKey
  BY DEF StartConsolidation, Record, CutShort, DatesPass, memoryVars, MemoryInv,
         MemoryTypeOK, EpisodesInv
<1>2. FactsInv' /\ OneRowOfKey'
  <2>1. \A claim : Approved(claim) => Approved(claim)'
    BY <1>1 DEF Approved
  <2>2. QED
    BY <1>1, <2>1, UnchangedFacts, SameFactsKept DEF OneRowOfKey
<1>3. MemoryTypeOK'
  <2>1. recorded' \in {"no", "rejected", "approved"} /\ progress' \in Nat
    BY <1>1 DEF StartConsolidation, Record, CutShort, DatesPass, memoryVars, MemoryTypeOK
  <2>2. late' \in {late, TRUE}
    BY DEF StartConsolidation, Record, CutShort, DatesPass, memoryVars
  <2>3. late' \in BOOLEAN
    BY <1>1, <2>2 DEF MemoryTypeOK
  <2>4. QED
    BY <1>1, <2>1, <2>3 DEF MemoryTypeOK
<1>4. ToldSoFar'
  <2>1. \A a : Told(a)' <=> Told(a)
    BY <1>1 DEF Told
  <2>2. DOMAIN Participants \subseteq Nat \ {0}
    BY ParticipantsAll, FS_CardinalityType, AgentsAssumption
  <2>3. CASE Record
    <3>1. \A k \in DOMAIN Participants : k < progress
      BY <2>3, ParticipantsAll, FS_CardinalityType, AgentsAssumption DEF Record
    <3>2. \A k \in DOMAIN Participants : Told(Participants[k])
      BY <1>1, <3>1 DEF ToldSoFar
    <3>3. \A agent \in Agents : Told(agent)
      BY <3>2, ParticipantsAll
    <3>4. QED
      BY <2>1, <2>2, <2>3, <3>3 DEF ToldSoFar, Record
  <2>4. CASE StartConsolidation
    BY <1>1, <2>1, <2>2, <2>4 DEF ToldSoFar, StartConsolidation
  <2>5. CASE CutShort \/ DatesPass \/ UNCHANGED memoryVars
    BY <1>1, <2>1, <2>2, <2>5 DEF ToldSoFar, CutShort, DatesPass, memoryVars
  <2>6. QED
    BY <2>3, <2>4, <2>5
<1>5. QED
  BY <1>1, <1>2, <1>3, <1>4 DEF MemoryInv, EpisodesInv

LEMMA MemoryStarts == ASSUME MemoryInit PROVE MemoryInv
<1>1. /\ private = {} /\ candidates = << >> /\ facts = << >> /\ recorded = "no" /\ progress = 0
      /\ asset \in [accepted : BOOLEAN, claim : Claims, source : Sources] /\ late = FALSE
  BY DEF MemoryInit
<1>2. DOMAIN Participants \subseteq Nat
  BY ParticipantsAll, FS_CardinalityType, AgentsAssumption
<1>3. MemoryTypeOK
  <2>1. candidates \in Seq(CandidateRows) /\ facts \in Seq(FactRows)
    BY <1>1
  <2>2. QED
    BY <1>1, <2>1 DEF MemoryTypeOK
<1>4. FactsInv
  BY <1>1 DEF FactsInv, ApprovedFirst, ReplacedRetired, OneFactOfContent
<1>5. EpisodesInv
  BY <1>1, <1>2 DEF EpisodesInv, OneRowOfKey, ToldSoFar
<1>6. QED
  BY <1>3, <1>4, <1>5 DEF MemoryInv

LEMMA MemoryStep == MemoryInv /\ [MemoryNext]_memoryVars => MemoryInv'
<1>1. SUFFICES ASSUME MemoryInv, [MemoryNext]_memoryVars PROVE MemoryInv'
  OBVIOUS
<1>2. CASE KeepEpisode
  BY <1>1, <1>2, KeepEpisodeStep
<1>3. CASE Propose
  BY <1>1, <1>3, ProposeStep
<1>4. CASE StartConsolidation \/ Record \/ CutShort \/ DatesPass \/ UNCHANGED memoryVars
  BY <1>1, <1>4, ProgressStep
<1>5. CASE RetireExpired
  BY <1>1, <1>5, RetireExpiredStep
<1>6. ASSUME NEW i \in DOMAIN candidates, Decide(i) PROVE MemoryInv'
  BY <1>1, <1>6, DecideStep
<1>7. ASSUME NEW agent \in Agents, ClearWorking(agent) PROVE MemoryInv'
  BY <1>1, <1>7, ClearStep
<1>8. ASSUME NEW agent \in Agents, NEW kind \in Kinds, NEW note \in Notes,
             Write(agent, kind, note)
      PROVE  MemoryInv'
  BY <1>1, <1>8, WriteStep
<1>9. ASSUME NEW type \in {"fact", "skill"}, NEW claim \in Claims, NEW source \in Sources,
             NEW over \in {0} \cup DOMAIN facts, Submit(type, claim, source, over)
      PROVE  MemoryInv'
  BY <1>1, <1>9, SubmitStep
<1>10. QED
  BY <1>1, <1>2, <1>3, <1>4, <1>5, <1>6, <1>7, <1>8, <1>9 DEF MemoryNext

-----------------------------------------------------------------------------
\* What is served was approved by a person, on evidence that is not prose, and
\* what an approved fact replaced is not served: for any number of submissions,
\* decisions and consolidations in any order.
THEOREM OnlyApprovedServed == MemorySpec => []ServedIsApproved
<1>1. MemoryInit => MemoryInv
  BY MemoryStarts
<1>2. MemoryInv /\ [MemoryNext]_memoryVars => MemoryInv'
  BY MemoryStep
<1>3. MemoryInv => ServedIsApproved
  <2>1. SUFFICES ASSUME MemoryInv PROVE ServedIsApproved
    OBVIOUS
  <2>2. ASSUME NEW i \in DOMAIN facts, facts[i].over # 0
        PROVE  facts[facts[i].over].claim \notin Served
    <3>1. facts[i].over \in DOMAIN facts /\ facts[facts[i].over].retired
      BY <2>1, <2>2 DEF MemoryInv, FactsInv, ReplacedRetired
    <3>2. \A j \in DOMAIN facts : facts[j].claim = facts[facts[i].over].claim => facts[j].retired
      BY <2>1, <3>1 DEF MemoryInv, FactsInv, OneFactOfContent
    <3>3. QED
      BY <3>2 DEF Served
  <2>3. QED
    BY <2>1, <2>2 DEF MemoryInv, FactsInv, ApprovedFirst, Approved, ServedIsApproved
<1>4. QED
  BY <1>1, <1>2, <1>3, PTL DEF MemorySpec

\* A consolidation that is cut short and repeated any number of times leaves one
\* episode with each agent and one fact of a content.
THEOREM ConsolidatedOnceAlways == MemorySpec => []ConsolidatedOnce
<1>1. MemoryInit => MemoryInv
  BY MemoryStarts
<1>2. MemoryInv /\ [MemoryNext]_memoryVars => MemoryInv'
  BY MemoryStep
<1>3. MemoryInv => ConsolidatedOnce
  <2>1. SUFFICES ASSUME MemoryInv PROVE ConsolidatedOnce
    OBVIOUS
  <2>2. ASSUME NEW agent \in Agents
        PROVE  LET episodes == {p \in private : p.id[1] = agent /\ p.id[2] = "episodic"
                                                /\ p.id[3] = "episode"}
               IN  /\ Cardinality(episodes) <= 1
                   /\ recorded = "approved" => episodes # {}
    <3> DEFINE episodes == {p \in private : p.id[1] = agent /\ p.id[2] = "episodic"
                                            /\ p.id[3] = "episode"}
    <3>1. \A p \in private : p.id \in Ids
      BY <2>1 DEF MemoryInv, MemoryTypeOK, PrivateRows
    <3>2. \A p \in episodes : p.id = <<agent, "episodic", "episode">>
      BY <3>1 DEF Ids
    <3>3. \A p, q \in episodes : p = q
      BY <2>1, <3>2 DEF MemoryInv, EpisodesInv, OneRowOfKey
    <3>4. ASSUME NEW p \in episodes PROVE episodes = {p}
      BY <3>3
    <3>5. Cardinality(episodes) <= 1
      <4>1. CASE episodes = {}
        <5>1. Cardinality({}) = 0
          BY FS_EmptySet
        <5>2. Cardinality(episodes) = 0
          BY <4>1, <5>1, Zenon
        <5>3. QED
          BY <5>2
      <4>2. ASSUME NEW p \in episodes PROVE Cardinality(episodes) = 1
        BY <3>4, FS_Singleton
      <4>3. QED
        BY <4>1, <4>2
    <3>6. recorded = "approved" => episodes # {}
      <4>1. \A p \in private : p.id = <<agent, "episodic", "episode">> => p \in episodes
        OBVIOUS
      <4>2. QED
        BY <2>1, <4>1 DEF MemoryInv, EpisodesInv, ToldSoFar, Told
    <3>7. QED
      BY <3>5, <3>6
  <2>3. QED
    BY <2>1, <2>2, Zenon DEF MemoryInv, FactsInv, OneFactOfContent, ConsolidatedOnce
<1>4. QED
  BY <1>1, <1>2, <1>3, PTL DEF MemorySpec
=============================================================================
