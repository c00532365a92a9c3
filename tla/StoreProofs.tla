------------------------------ MODULE StoreProofs ------------------------------
(***************************************************************************)
(* The queue and the writer of the observation store, under everything the *)
(* hub enqueues: what flush promises, that no critical record is shed      *)
(* without a trace, that no record is in two places, and that no row       *)
(* overtakes the run it refers to; for any number of runs, any capacity    *)
(* and size of a batch.                                                    *)
(***************************************************************************)
EXTENDS ObservabilityHub, SequenceTheorems, FiniteSetTheorems, TLAPS

TierSet == {"critical", "normal", "debug"}

Names == {"run_start", "started", "run_update", "payload", "event", "span", "log", "exception",
          "ended", "run_end"}

Recs == [kind : Kinds, run : RunIds, tier : TierSet, name : Names, seq : {0}]

-----------------------------------------------------------------------------
(* The invariant of the store.                                             *)

StoreShape ==
    /\ queued \in [TierSet -> Seq(Recs)] /\ batch \in Seq(Recs)
    /\ writer \in {"take", "write", "settle", "exited"}

\* A queue holds records of its tier, each once.
TierKept == \A t \in TierSet : \A x \in Range(queued[t]) : x.tier = t

NoTwins == \A t \in TierSet : IsInjective(queued[t])

\* Nothing is anywhere that was not offered; the writer lets go of a batch only
\* when it was committed or given up.
AllOffered ==
    /\ Waiting \cup Range(batch) \cup written \cup emerged \cup lost \subseteq offered
    /\ offered \subseteq Recs

SettledBatch == writer = "settle" => Range(batch) \subseteq written \cup emerged \cup lost

StoreInv ==
    /\ StoreShape /\ TierKept /\ NoTwins /\ AllOffered /\ SettledBatch
    /\ FlushMeansSettled /\ CriticalTraced /\ WrittenOnce

-----------------------------------------------------------------------------
(* Sequences.                                                              *)

LEMMA TailKeeps ==
    ASSUME NEW S, NEW s \in Seq(S), s # << >>
    PROVE  /\ Head(s) \in S /\ Tail(s) \in Seq(S) /\ Len(Tail(s)) = Len(s) - 1
           /\ Range(s) = Range(Tail(s)) \cup {Head(s)}
           /\ IsInjective(s) => IsInjective(Tail(s)) /\ Head(s) \notin Range(Tail(s))
<1>1. /\ Len(s) \in Nat \ {0} /\ Head(s) = s[1] /\ DOMAIN s = 1 .. Len(s)
      /\ Tail(s) \in Seq(S) /\ Len(Tail(s)) = Len(s) - 1 /\ DOMAIN Tail(s) = 1 .. Len(s) - 1
      /\ \A i \in 1 .. Len(s) - 1 : Tail(s)[i] = s[i + 1]
  OBVIOUS
<1>2. Range(s) = Range(Tail(s)) \cup {Head(s)}
  <2>1. \A i \in DOMAIN Tail(s) : Tail(s)[i] \in Range(s)
    BY <1>1 DEF Range
  <2>2. \A i \in DOMAIN s : s[i] = Head(s) \/ s[i] \in Range(Tail(s))
    <3>1. ASSUME NEW i \in DOMAIN s, i # 1 PROVE s[i] \in Range(Tail(s))
      <4>1. i - 1 \in 1 .. Len(s) - 1 /\ Tail(s)[i - 1] = s[(i - 1) + 1]
        BY <1>1, <3>1
      <4>2. Tail(s)[i - 1] = s[i]
        BY <1>1, <4>1
      <4>3. QED
        BY <1>1, <4>1, <4>2 DEF Range
    <3>2. QED
      BY <1>1, <3>1
  <2>3. QED
    BY <1>1, <2>1, <2>2 DEF Range
<1>3. ASSUME IsInjective(s) PROVE IsInjective(Tail(s)) /\ Head(s) \notin Range(Tail(s))
  <2>1. \A i, j \in 1 .. Len(s) : s[i] = s[j] => i = j
    BY <1>1, <1>3 DEF IsInjective
  <2>2. \A i, j \in 1 .. Len(s) - 1 : s[i + 1] = s[j + 1] => i = j
    BY <1>1, <2>1
  <2>3. \A i \in 1 .. Len(s) - 1 : s[i + 1] # s[1]
    BY <1>1, <2>1
  <2>4. QED
    BY <1>1, <2>2, <2>3 DEF IsInjective, Range
<1>4. QED
  BY <1>1, <1>2, <1>3

LEMMA AppendKeeps ==
    ASSUME NEW S, NEW s \in Seq(S), NEW x \in S
    PROVE  /\ Append(s, x) \in Seq(S) /\ Len(Append(s, x)) = Len(s) + 1
           /\ Range(Append(s, x)) = Range(s) \cup {x}
           /\ IsInjective(s) /\ x \notin Range(s) => IsInjective(Append(s, x))
<1>1. /\ Append(s, x) \in Seq(S) /\ Len(s) \in Nat
      /\ DOMAIN s = 1 .. Len(s) /\ DOMAIN Append(s, x) = 1 .. Len(s) + 1
      /\ Len(Append(s, x)) = Len(s) + 1 /\ Append(s, x)[Len(s) + 1] = x
      /\ \A i \in 1 .. Len(s) : Append(s, x)[i] = s[i]
  OBVIOUS
<1>2. \A i \in 1 .. Len(s) + 1 : i \in 1 .. Len(s) \/ i = Len(s) + 1
  BY <1>1
<1>3. Range(Append(s, x)) = Range(s) \cup {x}
  BY <1>1, <1>2 DEF Range
<1>4. ASSUME IsInjective(s), x \notin Range(s) PROVE IsInjective(Append(s, x))
  BY <1>1, <1>2, <1>4 DEF IsInjective, Range
<1>5. QED
  BY <1>1, <1>3, <1>4

LEMMA RangeType == ASSUME NEW S, NEW s \in Seq(S) PROVE Range(s) \subseteq S
BY DEF Range

LEMMA EmptyRange == Range(<< >>) = {} /\ IsInjective(<< >>)
BY DEF Range, IsInjective

\* A record and a second one, which is another.
LEMMA PairShape ==
    ASSUME NEW S, NEW x \in S, NEW y \in S, x # y
    PROVE  <<x, y>> \in Seq(S) /\ Range(<<x, y>>) = {x, y} /\ IsInjective(<<x, y>>)
BY DEF Range, IsInjective

LEMMA OneShape ==
    ASSUME NEW S, NEW x \in S
    PROVE  <<x>> \in Seq(S) /\ Range(<<x>>) = {x} /\ IsInjective(<<x>>)
BY DEF Range, IsInjective

-----------------------------------------------------------------------------
(* Where a record is.                                                      *)

LEMMA TierRange == Range(Tiers) = TierSet
BY DEF Tiers, TierSet, Range

LEMMA WaitingIs == \A x : x \in Waiting <=> \E t \in TierSet : x \in Range(queued[t])
BY TierRange DEF Waiting

LEMMA SizeType ==
    ASSUME queued \in [TierSet -> Seq(Recs)] PROVE Size \in Nat
BY DEF Size, TierSet

LEMMA SumOne ==
    ASSUME NEW q, NEW p, NEW t \in TierSet, NEW k \in Int,
           \A u \in TierSet : Len(q[u]) \in Nat /\ Len(p[u]) \in Nat,
           Len(p[t]) = Len(q[t]) + k, \A u \in TierSet \ {t} : p[u] = q[u]
    PROVE  Len(p["critical"]) + Len(p["normal"]) + Len(p["debug"])
             = Len(q["critical"]) + Len(q["normal"]) + Len(q["debug"]) + k
<1>0. \A u \in TierSet : u # t => Len(p[u]) = Len(q[u])
  OBVIOUS
<1> DEFINE a == Len(q["critical"])
           b == Len(q["normal"])
           c == Len(q["debug"])
           d == Len(p["critical"])
           e == Len(p["normal"])
           f == Len(p["debug"])
<1>1. t \in {"critical", "normal", "debug"} /\ a \in Nat /\ b \in Nat /\ c \in Nat /\ d \in Nat /\ e \in Nat /\ f \in Nat
  BY DEF TierSet
<1>2. d + e + f = a + b + c + k
  <2>1. \/ d = a + k /\ e = b /\ f = c
        \/ d = a /\ e = b + k /\ f = c
        \/ d = a /\ e = b /\ f = c + k
    <3>1. CASE t = "critical" BY <1>0, <3>1 DEF TierSet
    <3>2. CASE t = "normal" BY <1>0, <3>2 DEF TierSet
    <3>3. CASE t = "debug" BY <1>0, <3>3 DEF TierSet
    <3> QED BY <1>1, <3>1, <3>2, <3>3
  <2> HIDE DEF a, b, c, d, e, f
  <2> QED BY <1>1, <2>1
<1>5. QED
  BY <1>2

\* The first tier that is not empty is one of them.
LEMMA FirstIsQueued ==
    ASSUME NEW tiers \in {<<"critical", "normal", "debug">>, <<"debug", "normal">>, <<"debug">>},
           AnyQueued(tiers)
    PROVE  \E i \in DOMAIN tiers : FirstQueued(tiers) = tiers[i] /\ queued[tiers[i]] # << >>
<1> DEFINE First(i) == /\ queued[tiers[i]] # << >>
                       /\ \A j \in DOMAIN tiers : queued[tiers[j]] # << >> => i <= j
<1>1. \E i \in DOMAIN tiers : First(i)
  <2>1. DOMAIN tiers \in {1 .. 3, 1 .. 2, 1 .. 1}
    OBVIOUS
  <2>2. PICK k \in DOMAIN tiers : queued[tiers[k]] # << >>
    BY DEF AnyQueued
  <2>3. k \in {1, 2, 3}
    BY <2>1, <2>2
  <2>4. CASE 1 \in DOMAIN tiers /\ queued[tiers[1]] # << >>
    BY <2>1, <2>4
  <2>5. CASE queued[tiers[1]] = << >> /\ 2 \in DOMAIN tiers /\ queued[tiers[2]] # << >>
    BY <2>1, <2>5
  <2>6. CASE queued[tiers[1]] = << >> /\ (2 \in DOMAIN tiers => queued[tiers[2]] = << >>)
    BY <2>1, <2>2, <2>3, <2>6
  <2>7. 1 \in DOMAIN tiers
    BY <2>1
  <2>8. QED
    BY <2>4, <2>5, <2>6, <2>7
<1>2. QED
  BY <1>1 DEF FirstQueued

LEMMA VictimIs ==
    ASSUME NEW x \in Recs, AnyQueued(Victims(x.tier))
    PROVE  LET v == FirstQueued(Victims(x.tier))
           IN  v \in {"normal", "debug"} /\ v # x.tier /\ queued[v] # << >>
<1>1. x.tier \in TierSet
  BY DEF Recs
<1>2. CASE x.tier = "critical"
  <2>1. Victims(x.tier) = <<"debug", "normal">>
    BY <1>2 DEF Victims
  <2>2. QED
    BY <1>2, <2>1, FirstIsQueued
<1>3. CASE x.tier = "normal"
  <2>1. Victims(x.tier) = <<"debug">>
    BY <1>3 DEF Victims
  <2>2. QED
    BY <1>3, <2>1, FirstIsQueued
<1>4. CASE x.tier = "debug"
  <2>1. Victims(x.tier) = << >>
    BY <1>4 DEF Victims
  <2>2. QED
    BY <2>1 DEF AnyQueued
<1>5. QED
  BY <1>1, <1>2, <1>3, <1>4 DEF TierSet

LEMMA TakenIs ==
    ASSUME queued \in [TierSet -> Seq(Recs)], Size > 0
    PROVE  Next1 \in TierSet /\ queued[Next1] # << >>
<1>1. \E t \in TierSet : queued[t] # << >>
  BY DEF Size, TierSet
<1>2. AnyQueued(Tiers)
  <2>1. Tiers = <<"critical", "normal", "debug">> /\ DOMAIN Tiers = 1 .. 3
    BY DEF Tiers
  <2>2. \A t \in TierSet : \E i \in DOMAIN Tiers : Tiers[i] = t
    BY <2>1 DEF TierSet
  <2>3. QED
    BY <1>1, <2>2 DEF AnyQueued
<1>3. \E i \in DOMAIN Tiers : FirstQueued(Tiers) = Tiers[i] /\ queued[Tiers[i]] # << >>
  BY <1>2, FirstIsQueued DEF Tiers
<1>4. QED
  BY <1>3 DEF Next1, Tiers, TierSet

-----------------------------------------------------------------------------
(* What happens to the queues.                                             *)

\* A record joins the queue of its tier.
LEMMA JoinQueue ==
    ASSUME NEW s \in Seq(Recs), NEW x \in Recs, IsInjective(s), x \notin Range(s),
           \A y \in Range(s) : y.tier = x.tier
    PROVE  LET q == Append(s, x)
           IN  /\ q \in Seq(Recs) /\ IsInjective(q) /\ \A y \in Range(q) : y.tier = x.tier
               /\ Range(q) = Range(s) \cup {x} /\ Len(q) = Len(s) + 1 /\ x.tier \in TierSet
<1>1. x.tier \in TierSet
  BY DEF Recs
<1>2. QED
  BY <1>1, AppendKeeps

\* The oldest record of a tier leaves it.
LEMMA LeaveQueue ==
    ASSUME NEW s \in Seq(Recs), s # << >>, IsInjective(s), NEW v, \A y \in Range(s) : y.tier = v
    PROVE  /\ Tail(s) \in Seq(Recs) /\ Head(s) \in Recs /\ Head(s).tier = v
           /\ IsInjective(Tail(s)) /\ \A y \in Range(Tail(s)) : y.tier = v
           /\ Len(Tail(s)) = Len(s) - 1 /\ Range(s) = Range(Tail(s)) \cup {Head(s)}
           /\ Head(s) \notin Range(Tail(s))
BY TailKeeps

\* What the queues do for the places of records.
LEMMA QueuesAre ==
    ASSUME StoreInv
    PROVE  /\ queued \in [TierSet -> Seq(Recs)] /\ batch \in Seq(Recs) /\ Size \in Nat
           /\ Len(batch) \in Nat /\ unfinished = Size + Len(batch)
           /\ \A t \in TierSet : IsInjective(queued[t]) /\ \A y \in Range(queued[t]) : y.tier = t
           /\ \A t \in TierSet : \A y \in Range(queued[t]) : y \in offered
BY SizeType, WaitingIs DEF StoreInv, StoreShape, TierKept, NoTwins, AllOffered, FlushMeansSettled

-----------------------------------------------------------------------------
(* Enqueueing.                                                             *)

LEMMA AdmitStep ==
    ASSUME StoreInv, NEW x \in Recs, x \notin offered, Admit(x), offered' = offered \cup {x},
           UNCHANGED <<writer, batch, written>>
    PROVE  StoreInv'
<1>1. /\ queued' = [queued EXCEPT ![x.tier] = Append(queued[x.tier], x)]
      /\ unfinished' = unfinished + 1 /\ UNCHANGED <<emerged, lost>>
  BY DEF Admit, emergency
<1>2. /\ queued' \in [TierSet -> Seq(Recs)] /\ x.tier \in TierSet
      /\ \A t \in TierSet : IsInjective(queued'[t]) /\ \A y \in Range(queued'[t]) : y.tier = t
      /\ Range(queued'[x.tier]) = Range(queued[x.tier]) \cup {x}
      /\ Len(queued'[x.tier]) = Len(queued[x.tier]) + 1
      /\ \A t \in TierSet \ {x.tier} : queued'[t] = queued[t]
  <2>1. x.tier \in TierSet
    BY DEF Recs
  <2>2. PICK s \in Seq(Recs) : s = queued[x.tier]
    BY <2>1, QueuesAre
  <2>3. IsInjective(s) /\ x \notin Range(s) /\ \A y \in Range(s) : y.tier = x.tier
    BY <2>1, <2>2, QueuesAre
  <2>4. /\ Append(s, x) \in Seq(Recs) /\ IsInjective(Append(s, x))
        /\ \A y \in Range(Append(s, x)) : y.tier = x.tier
        /\ Range(Append(s, x)) = Range(s) \cup {x} /\ Len(Append(s, x)) = Len(s) + 1
    BY <2>3, JoinQueue
  <2>5. /\ queued'[x.tier] = Append(s, x) /\ \A t \in TierSet \ {x.tier} : queued'[t] = queued[t]
        /\ queued' \in [TierSet -> Seq(Recs)]
    <3>1. queued \in [TierSet -> Seq(Recs)]
      BY QueuesAre
    <3>2. queued' = [queued EXCEPT ![x.tier] = Append(s, x)]
      BY <1>1, <2>2
    <3>3. QED
      BY <2>1, <2>4, <3>1, <3>2
  <2>6. QED
    BY <2>1, <2>2, <2>4, <2>5, QueuesAre
<1>3. Size' = Size + 1
  <2>1. \A t \in TierSet : Len(queued[t]) \in Nat /\ Len(queued'[t]) \in Nat
    BY <1>2, QueuesAre
  <2>2. QED
    <3>1. 1 \in Int
      OBVIOUS
    <3>2. x.tier \in TierSet /\ Len(queued'[x.tier]) = Len(queued[x.tier]) + 1
      BY <1>2
    <3>3. \A t \in TierSet \ {x.tier} : queued'[t] = queued[t]
      BY <1>2
    <3>4. QED
      BY <2>1, <3>1, <3>2, <3>3, SumOne, Zenon DEF Size
<1>4. Waiting' = Waiting \cup {x}
  <2>1. \A y : y \in Waiting' <=> \E t \in TierSet : y \in Range(queued'[t])
    BY TierRange DEF Waiting
  <2>2. QED
    BY <1>2, <2>1, WaitingIs
<1>5. StoreShape' /\ TierKept' /\ NoTwins' /\ FlushMeansSettled'
  BY <1>1, <1>2, <1>3, QueuesAre DEF StoreInv, StoreShape, TierKept, NoTwins, FlushMeansSettled
<1>6. AllOffered' /\ SettledBatch' /\ CriticalTraced'
  BY <1>1, <1>4 DEF StoreInv, AllOffered, SettledBatch, CriticalTraced
<1>7. WrittenOnce'
  BY <1>1, <1>4 DEF StoreInv, AllOffered, WrittenOnce
<1>8. QED
  BY <1>5, <1>6, <1>7 DEF StoreInv

\* A record takes the place of an older one, which is not critical.
LEMMA DisplaceStep ==
    ASSUME StoreInv, NEW x \in Recs, x \notin offered, Displace(x), offered' = offered \cup {x},
           UNCHANGED <<writer, batch, written>>
    PROVE  StoreInv'
<1>1. PICK v : v = FirstQueued(Victims(x.tier))
  OBVIOUS
<1>2. PICK s \in Seq(Recs) : s = queued[v]
  <2>1. v \in TierSet
    BY <1>1, VictimIs DEF Displace, TierSet
  <2>2. QED
    BY <2>1, QueuesAre
<1>3. /\ queued' = [[queued EXCEPT ![v] = Tail(s)] EXCEPT ![x.tier] = Append(queued[x.tier], x)]
      /\ unfinished' = unfinished /\ UNCHANGED <<emerged, lost>>
      /\ v \in TierSet \ {"critical", x.tier} /\ s # << >> /\ x.tier \in TierSet
  BY <1>1, <1>2, VictimIs DEF Displace, Replaced, TierSet, Recs, emergency
<1>4. PICK h : h = Head(s)
  OBVIOUS
<1>5. /\ Tail(s) \in Seq(Recs) /\ h.tier = v /\ IsInjective(Tail(s))
      /\ \A y \in Range(Tail(s)) : y.tier = v
      /\ Len(Tail(s)) = Len(s) - 1 /\ Range(s) = Range(Tail(s)) \cup {h}
  BY <1>2, <1>3, <1>4, QueuesAre, LeaveQueue
<1>6. PICK p \in Seq(Recs) : p = queued[x.tier]
  BY <1>3, QueuesAre
<1>7. /\ Append(p, x) \in Seq(Recs) /\ IsInjective(Append(p, x))
      /\ \A y \in Range(Append(p, x)) : y.tier = x.tier
      /\ Range(Append(p, x)) = Range(p) \cup {x} /\ Len(Append(p, x)) = Len(p) + 1
  <2>1. IsInjective(p) /\ x \notin Range(p) /\ \A y \in Range(p) : y.tier = x.tier
    BY <1>3, <1>6, QueuesAre
  <2>2. QED
    BY <2>1, JoinQueue
<1>8. /\ queued' \in [TierSet -> Seq(Recs)]
      /\ queued'[v] = Tail(s) /\ queued'[x.tier] = Append(p, x)
      /\ \A t \in TierSet \ {v, x.tier} : queued'[t] = queued[t]
  <2>1. queued \in [TierSet -> Seq(Recs)]
    BY QueuesAre
  <2>2. PICK a : a = Append(p, x)
    OBVIOUS
  <2>3. queued' = [[queued EXCEPT ![v] = Tail(s)] EXCEPT ![x.tier] = a]
    BY <1>3, <1>6, <2>2
  <2>4. a \in Seq(Recs) /\ Tail(s) \in Seq(Recs)
    BY <1>5, <1>7, <2>2
  <2>5. PICK q : q = [queued EXCEPT ![v] = Tail(s)]
    OBVIOUS
  <2>6. /\ q \in [TierSet -> Seq(Recs)] /\ q[v] = Tail(s)
        /\ \A t \in TierSet \ {v} : q[t] = queued[t]
    BY <1>3, <2>1, <2>4, <2>5
  <2>7. /\ queued' \in [TierSet -> Seq(Recs)] /\ queued'[x.tier] = a
        /\ \A t \in TierSet \ {x.tier} : queued'[t] = q[t]
    <3>1. queued' = [q EXCEPT ![x.tier] = a]
      BY <2>3, <2>5
    <3>2. QED
      BY <1>3, <2>4, <2>6, <3>1
  <2>8. QED
    BY <1>3, <2>2, <2>6, <2>7
<1>9. Size' = Size
  <2>1. PICK q : q = [queued EXCEPT ![v] = Tail(s)]
    OBVIOUS
  <2>2. /\ q[v] = Tail(s) /\ \A t \in TierSet \ {v} : q[t] = queued[t]
        /\ \A t \in TierSet \ {x.tier} : queued'[t] = q[t]
    BY <1>3, <1>8, <2>1, QueuesAre
  <2>3. \A t \in TierSet : Len(queued[t]) \in Nat /\ Len(q[t]) \in Nat /\ Len(queued'[t]) \in Nat
    <3>1. \A t \in TierSet : queued[t] \in Seq(Recs) /\ queued'[t] \in Seq(Recs)
      BY <1>8, QueuesAre
    <3>2. \A t \in TierSet : q[t] \in Seq(Recs)
      BY <1>5, <2>2, <3>1
    <3>3. QED
      BY <3>1, <3>2
  <2>4. Len(q["critical"]) + Len(q["normal"]) + Len(q["debug"]) = Size + (-1)
    <3>1. Len(q[v]) = Len(queued[v]) + (-1)
      BY <1>2, <1>3, <1>5, <2>2, <2>3
    <3>2. -1 \in Int /\ v \in TierSet /\ \A t \in TierSet : Len(queued[t]) \in Nat /\ Len(q[t]) \in Nat
      BY <1>3, <2>3
    <3>3. QED
      BY <2>2, <3>1, <3>2, SumOne, Zenon DEF Size
  <2>5. Size' = Len(q["critical"]) + Len(q["normal"]) + Len(q["debug"]) + 1
    <3>1. Len(queued'[x.tier]) = Len(q[x.tier]) + 1
      BY <1>3, <1>6, <1>7, <1>8, <2>2
    <3>2. 1 \in Int /\ \A t \in TierSet : Len(q[t]) \in Nat /\ Len(queued'[t]) \in Nat
      BY <2>3
    <3>3. x.tier \in TierSet /\ \A t \in TierSet \ {x.tier} : queued'[t] = q[t]
      BY <1>3, <2>2
    <3>4. QED
      BY <3>1, <3>2, <3>3, SumOne, Zenon DEF Size
  <2>6. Size \in Int
    BY QueuesAre
  <2>7. Size' = Size + (-1) + 1
    BY <2>4, <2>5, Zenon
  <2>8. QED
    BY <2>6, <2>7
<1>10. /\ Waiting' \subseteq Waiting \cup {x} /\ x \in Waiting'
      /\ \A y \in Waiting : y.tier = "critical" => y \in Waiting'
  <2>1. \A y : y \in Waiting' <=> \E t \in TierSet : y \in Range(queued'[t])
    BY TierRange DEF Waiting
  <2>2. \A t \in TierSet : Range(queued'[t]) \subseteq Range(queued[t]) \cup {x}
    BY <1>2, <1>3, <1>5, <1>6, <1>7, <1>8
  <2>3. ASSUME NEW y, NEW t \in TierSet, y \in Range(queued[t]), y.tier = "critical"
        PROVE  y \in Range(queued'[t])
    <3>1. t = "critical" /\ t # v
      BY <1>3, <2>3, QueuesAre
    <3>2. CASE t = x.tier
      BY <1>6, <1>7, <1>8, <2>3, <3>2
    <3>3. CASE t # x.tier
      BY <1>8, <2>3, <3>1, <3>3
    <3>4. QED
      BY <3>2, <3>3
  <2>4. x \in Range(queued'[x.tier])
    BY <1>7, <1>8
  <2>5. QED
    BY <1>3, <2>1, <2>2, <2>3, <2>4, WaitingIs
<1>11. \A t \in TierSet : IsInjective(queued'[t]) /\ \A y \in Range(queued'[t]) : y.tier = t
  BY <1>3, <1>5, <1>7, <1>8, QueuesAre
<1>12. StoreShape' /\ TierKept' /\ NoTwins' /\ FlushMeansSettled'
  BY <1>3, <1>8, <1>9, <1>11, QueuesAre DEF StoreInv, StoreShape, TierKept, NoTwins, FlushMeansSettled
<1>13. AllOffered' /\ SettledBatch' /\ CriticalTraced'
  BY <1>3, <1>10 DEF StoreInv, AllOffered, SettledBatch, CriticalTraced
<1>14. WrittenOnce'
  BY <1>3, <1>10 DEF StoreInv, AllOffered, WrittenOnce
<1>15. QED
  BY <1>12, <1>13, <1>14 DEF StoreInv

LEMMA RefuseStep ==
    ASSUME StoreInv, NEW x \in Recs, x \notin offered, Refuse(x), offered' = offered \cup {x},
           UNCHANGED <<writer, batch, written>>
    PROVE  StoreInv'
<1>1. /\ UNCHANGED <<queued, unfinished>>
      /\ \E kept \in SUBSET {y \in {x} : y.tier = "critical"} :
            /\ emerged' = emerged \cup kept
            /\ lost' = lost \cup ({y \in {x} : y.tier = "critical"} \ kept)
  BY DEF Refuse, WriteEmergency
<1>2. Waiting' = Waiting /\ Size' = Size
  BY <1>1 DEF Waiting, Size
<1>3. StoreShape' /\ TierKept' /\ NoTwins' /\ FlushMeansSettled'
  BY <1>1, <1>2 DEF StoreInv, StoreShape, TierKept, NoTwins, FlushMeansSettled
<1>4. AllOffered' /\ SettledBatch' /\ CriticalTraced'
  BY <1>1, <1>2 DEF StoreInv, AllOffered, SettledBatch, CriticalTraced
<1>5. WrittenOnce'
  BY <1>1, <1>2 DEF StoreInv, AllOffered, WrittenOnce
<1>6. QED
  BY <1>3, <1>4, <1>5 DEF StoreInv

LEMMA EnqueueStep ==
    ASSUME StoreInv, NEW x \in Recs, x \notin offered, Enqueue(x)
    PROVE  StoreInv'
BY AdmitStep, DisplaceStep, RefuseStep DEF Enqueue, tables

-----------------------------------------------------------------------------
(* The writer.                                                             *)

LEMMA TakeStep == ASSUME StoreInv, Take PROVE StoreInv'
<1>1. PICK v : v = Next1
  OBVIOUS
<1>2. PICK h : h = Head(queued[v])
  OBVIOUS
<1>3. /\ batch' = Append(batch, h) /\ queued' = [queued EXCEPT ![v] = Tail(queued[v])]
      /\ UNCHANGED <<unfinished, writer, written, emerged, lost, offered>>
      /\ writer = "take" /\ v \in TierSet /\ queued[v] # << >>
  BY <1>1, <1>2, QueuesAre, TakenIs DEF Take, tables, emergency, histories
<1>4. /\ queued' \in [TierSet -> Seq(Recs)] /\ h \in Recs
      /\ \A t \in TierSet : IsInjective(queued'[t]) /\ \A y \in Range(queued'[t]) : y.tier = t
      /\ Len(queued'[v]) = Len(queued[v]) - 1 /\ \A t \in TierSet \ {v} : queued'[t] = queued[t]
      /\ Range(queued[v]) = Range(queued'[v]) \cup {h}
      /\ \A t \in TierSet : h \notin Range(queued'[t])
  <2>1. PICK s \in Seq(Recs) : s = queued[v]
    BY <1>3, QueuesAre
  <2>2. /\ Tail(s) \in Seq(Recs) /\ h \in Recs /\ h.tier = v /\ IsInjective(Tail(s))
        /\ \A y \in Range(Tail(s)) : y.tier = v
        /\ Len(Tail(s)) = Len(s) - 1 /\ Range(s) = Range(Tail(s)) \cup {h}
    BY <1>2, <1>3, <2>1, QueuesAre, LeaveQueue
  <2>3. h \notin Range(Tail(s))
    BY <1>2, <1>3, <2>1, QueuesAre, LeaveQueue
  <2>4. /\ queued' \in [TierSet -> Seq(Recs)] /\ queued'[v] = Tail(s)
        /\ \A t \in TierSet \ {v} : queued'[t] = queued[t]
    BY <1>3, <2>1, <2>2, QueuesAre
  <2>5. \A t \in TierSet \ {v} : h \notin Range(queued[t])
    BY <2>2, QueuesAre
  <2>6. QED
    BY <1>3, <2>1, <2>2, <2>3, <2>4, <2>5, QueuesAre
<1>5. /\ batch' \in Seq(Recs) /\ Len(batch') = Len(batch) + 1
      /\ Range(batch') = Range(batch) \cup {h}
  BY <1>3, <1>4, QueuesAre, AppendKeeps
<1>6. Size' = Size - 1
  <2>1. \A t \in TierSet : Len(queued[t]) \in Nat /\ Len(queued'[t]) \in Nat
    BY <1>4, QueuesAre
  <2>2. Len(queued'[v]) = Len(queued[v]) + (-1)
    BY <1>3, <1>4, <2>1
  <2>3. Size' = Size + (-1)
    <3>1. -1 \in Int
      OBVIOUS
    <3>2. v \in TierSet /\ \A t \in TierSet \ {v} : queued'[t] = queued[t]
      BY <1>3, <1>4
    <3>3. QED
      BY <2>1, <2>2, <3>1, <3>2, SumOne, Zenon DEF Size
  <2>4. QED
    BY <2>3, QueuesAre
<1>7. Waiting = Waiting' \cup {h} /\ h \notin Waiting'
  <2>1. \A y : y \in Waiting' <=> \E t \in TierSet : y \in Range(queued'[t])
    BY TierRange DEF Waiting
  <2>2. \A y : (\E t \in TierSet : y \in Range(queued[t])) <=>
                 y = h \/ \E t \in TierSet : y \in Range(queued'[t])
    BY <1>3, <1>4
  <2>3. QED
    BY <1>4, <2>1, <2>2, WaitingIs
<1>8. StoreShape' /\ TierKept' /\ NoTwins'
  BY <1>3, <1>4, <1>5 DEF StoreInv, StoreShape, TierKept, NoTwins
<1>9. FlushMeansSettled'
  BY <1>3, <1>5, <1>6, QueuesAre DEF FlushMeansSettled
<1>10. AllOffered' /\ SettledBatch' /\ CriticalTraced'
  BY <1>3, <1>5, <1>7 DEF StoreInv, AllOffered, SettledBatch, CriticalTraced
<1>11. WrittenOnce'
  BY <1>3, <1>5, <1>7 DEF StoreInv, WrittenOnce
<1>12. QED
  BY <1>8, <1>9, <1>10, <1>11 DEF StoreInv

\* The steps of the writer that leave the queues alone.
LEMMA WriterStep ==
    ASSUME StoreInv, Seal \/ Commit \/ GiveUp \/ Settle \/ Exit PROVE StoreInv'
<1>1. UNCHANGED <<queued, offered>> /\ Waiting' = Waiting /\ Size' = Size
  BY DEF Seal, Commit, GiveUp, Settle, Exit, tables, histories, Waiting, Size
<1>2. TierKept' /\ NoTwins'
  BY <1>1 DEF StoreInv, TierKept, NoTwins
<1>3. CASE Seal \/ Exit
  <2>1. /\ UNCHANGED <<unfinished, batch, written, emerged, lost>>
        /\ writer' \in {"write", "exited"} /\ writer = "take"
    BY <1>3 DEF Seal, Exit, tables, emergency
  <2>2. StoreShape' /\ FlushMeansSettled'
    BY <1>1, <2>1 DEF StoreInv, StoreShape, FlushMeansSettled
  <2>3. AllOffered' /\ SettledBatch' /\ CriticalTraced' /\ WrittenOnce'
    BY <1>1, <2>1 DEF StoreInv, AllOffered, SettledBatch, CriticalTraced, WrittenOnce
  <2>4. QED
    BY <1>2, <2>2, <2>3 DEF StoreInv
<1>4. CASE Commit \/ GiveUp
  <2>1. /\ UNCHANGED <<unfinished, batch>> /\ writer = "write" /\ writer' = "settle"
        /\ \/ written' = written \cup Range(batch) /\ UNCHANGED <<emerged, lost>>
           \/ /\ written' = written
              /\ \E kept \in SUBSET Range(batch) :
                    emerged' = emerged \cup kept /\ lost' = lost \cup (Range(batch) \ kept)
    BY <1>4 DEF Commit, GiveUp, WriteEmergency, tables, emergency
  <2>2. StoreShape' /\ FlushMeansSettled'
    BY <1>1, <2>1 DEF StoreInv, StoreShape, FlushMeansSettled
  <2>3. AllOffered' /\ SettledBatch' /\ CriticalTraced' /\ WrittenOnce'
    BY <1>1, <2>1 DEF StoreInv, AllOffered, SettledBatch, CriticalTraced, WrittenOnce
  <2>4. QED
    BY <1>2, <2>2, <2>3 DEF StoreInv
<1>5. CASE Settle
  <2>1. /\ unfinished' = IF unfinished > Len(batch) THEN unfinished - Len(batch) ELSE 0
        /\ batch' = << >> /\ writer = "settle" /\ writer' = "take"
        /\ UNCHANGED <<written, emerged, lost>>
    BY <1>5 DEF Settle, tables, emergency
  <2>2. Len(batch') = 0 /\ Range(batch') = {}
    BY <2>1, EmptyRange
  <2>3. FlushMeansSettled'
    BY <1>1, <2>1, <2>2, QueuesAre DEF FlushMeansSettled
  <2>4. StoreShape'
    BY <1>1, <2>1 DEF StoreInv, StoreShape
  <2>5. AllOffered' /\ SettledBatch' /\ CriticalTraced' /\ WrittenOnce'
    BY <1>1, <2>1, <2>2 DEF StoreInv, AllOffered, SettledBatch, CriticalTraced, WrittenOnce
  <2>6. QED
    BY <1>2, <2>3, <2>4, <2>5 DEF StoreInv
<1>6. QED
  BY <1>3, <1>4, <1>5

LEMMA OtherStep ==
    ASSUME StoreInv,
           UNCHANGED <<queued, unfinished, writer, batch, written, emerged, lost, offered>>
    PROVE  StoreInv'
<1>1. Waiting' = Waiting /\ Size' = Size
  BY DEF Waiting, Size
<1>2. StoreShape' /\ TierKept' /\ NoTwins' /\ FlushMeansSettled'
  BY <1>1 DEF StoreInv, StoreShape, TierKept, NoTwins, FlushMeansSettled
<1>3. AllOffered' /\ SettledBatch' /\ CriticalTraced' /\ WrittenOnce'
  BY <1>1 DEF StoreInv, AllOffered, SettledBatch, CriticalTraced, WrittenOnce
<1>4. QED
  BY <1>2, <1>3 DEF StoreInv

LEMMA StoreWorksStep == ASSUME StoreInv, StoreWorks PROVE StoreInv'
<1>1. CASE Take BY <1>1, TakeStep
<1>2. CASE Seal \/ Commit \/ GiveUp \/ Settle \/ Exit BY <1>2, WriterStep
<1>3. CASE Keep
  BY <1>3, OtherStep DEF Keep, Retain, emergency, histories
<1>4. CASE CloseQueue
  BY <1>4, OtherStep DEF CloseQueue, tables, emergency, histories
<1>5. QED
  BY <1>1, <1>2, <1>3, <1>4 DEF StoreWorks, Write

LEMMA StoreStarts == ASSUME StoreInit PROVE StoreInv
<1>1. /\ queued = [t \in TierSet |-> << >>] /\ unfinished = 0 /\ writer = "take"
      /\ batch = << >> /\ written = {} /\ emerged = {} /\ lost = {} /\ offered = {}
  BY TierRange DEF StoreInit
<1>2. \A t \in TierSet : queued[t] = << >> /\ Range(queued[t]) = {} /\ IsInjective(queued[t])
  BY <1>1, EmptyRange
<1>3. Size = 0 /\ Waiting = {} /\ Range(batch) = {} /\ Len(batch) = 0
  BY <1>1, <1>2, EmptyRange, WaitingIs DEF Size, TierSet
<1>4. StoreShape
  BY <1>1 DEF StoreShape
<1>5. QED
  BY <1>1, <1>2, <1>3, <1>4 DEF StoreInv, TierKept, NoTwins, AllOffered, SettledBatch,
     FlushMeansSettled, CriticalTraced, WrittenOnce

-----------------------------------------------------------------------------
(* What the hub gives to the store: every record once.                     *)

HubShape ==
    /\ phase \in [RunIds -> {"new", "running", "ending", "over"}]
    /\ did \in [RunIds -> SUBSET {"update", "event", "span"}]
    /\ todo \in [RunIds -> Seq(Recs)] /\ exporter \in Seq(Recs)

\* The names of the records that the calls of a run have made so far.
Made(r) ==
    (IF phase[r] # "new" THEN {"run_start", "started"} ELSE {})
    \cup (IF "update" \in did[r] THEN {"run_update"} ELSE {})
    \cup (IF "event" \in did[r] THEN {"payload", "event"} ELSE {})
    \cup (IF "span" \in did[r] THEN {"span", "log", "exception"} ELSE {})
    \cup (IF phase[r] \in {"ending", "over"} THEN {"ended", "run_end"} ELSE {})

\* A record is of a call that was made, and is offered, or in a thread's or the
\* exporter's hands, but in one of these only.
OfferedMade == \A x \in offered : x.name \in Made(x.run)

TodoFresh ==
    \A r \in RunIds :
        /\ IsInjective(todo[r])
        /\ \A x \in Range(todo[r]) : /\ x.run = r /\ x.name \in Made(r)
                                     /\ x \notin offered /\ x \notin Range(exporter)

ExporterFresh ==
    /\ IsInjective(exporter)
    /\ \A x \in Range(exporter) : x.name \in Made(x.run) /\ x \notin offered

HubInv == StoreInv /\ HubShape /\ OfferedMade /\ TodoFresh /\ ExporterFresh

LEMMA RecType ==
    ASSUME NEW r \in RunIds
    PROVE  /\ \A kind \in Kinds \cap Names, tier \in TierSet :
                 Rec(kind, r, tier) \in Recs /\ Rec(kind, r, tier).run = r
                 /\ Rec(kind, r, tier).name = kind
           /\ \A tier \in TierSet, name \in Names :
                 Row(r, tier, name, 0) \in Recs /\ Row(r, tier, name, 0).run = r
                 /\ Row(r, tier, name, 0).name = name
BY DEF Rec, Row, Recs, Kinds

\* A call of a run hands new records to its thread, and a span to the exporter.
LEMMA CallStep ==
    ASSUME HubInv, NEW r \in RunIds, NEW q \in Seq(Recs), IsInjective(q),
           todo' = [todo EXCEPT ![r] = q], UNCHANGED storeVars,
           phase' \in [RunIds -> {"new", "running", "ending", "over"}],
           did' \in [RunIds -> SUBSET {"update", "event", "span"}],
           \A s \in RunIds : Made(s) \subseteq Made(s)',
           \A x \in Range(q) : x.run = r /\ x.name \in Made(r)' /\ x.name \notin Made(r),
           \/ exporter' = exporter
           \/ \E y \in Recs : /\ y.run = r /\ y.name \in Made(r)' /\ y.name \notin Made(r)
                              /\ y \notin Range(q) /\ exporter' = Append(exporter, y)
    PROVE  HubInv'
<1>1. UNCHANGED <<queued, unfinished, writer, batch, written, emerged, lost, offered>>
  BY DEF storeVars, tables, emergency, histories
<1>2. StoreInv' /\ OfferedMade'
  <2>1. \A x \in offered : x.run \in RunIds
    BY DEF HubInv, StoreInv, AllOffered, Recs
  <2>2. QED
    BY <1>1, <2>1, OtherStep DEF HubInv, OfferedMade
<1>3. /\ todo' \in [RunIds -> Seq(Recs)] /\ todo'[r] = q
      /\ \A s \in RunIds \ {r} : todo'[s] = todo[s]
  BY DEF HubInv, HubShape
<1>4. /\ exporter' \in Seq(Recs) /\ IsInjective(exporter')
      /\ \A x \in Range(exporter') :
            \/ x \in Range(exporter)
            \/ x.run = r /\ x.name \in Made(r)' /\ x.name \notin Made(r) /\ x \notin Range(q)
  <2>1. exporter \in Seq(Recs) /\ IsInjective(exporter)
    BY DEF HubInv, HubShape, ExporterFresh
  <2>2. ASSUME NEW y \in Recs, y.run = r, y.name \in Made(r)', y.name \notin Made(r),
               y \notin Range(q), exporter' = Append(exporter, y)
        PROVE  /\ exporter' \in Seq(Recs) /\ IsInjective(exporter')
               /\ Range(exporter') = Range(exporter) \cup {y}
    <3>1. y \notin Range(exporter)
      BY <2>2 DEF HubInv, ExporterFresh
    <3>2. QED
      BY <2>1, <2>2, <3>1, AppendKeeps
  <2>3. QED
    BY <2>1, <2>2
<1>5. \A x \in Range(exporter) : x.run \in RunIds
  <2>1. exporter \in Seq(Recs)
    BY DEF HubInv, HubShape
  <2>2. Range(exporter) \subseteq Recs
    BY <2>1, RangeType
  <2>3. QED
    BY <2>2 DEF Recs
<1>6. ExporterFresh'
  <2>1. ASSUME NEW x \in Range(exporter') PROVE x.name \in Made(x.run)' /\ x \notin offered
    <3>1. CASE x \in Range(exporter)
      BY <1>5, <3>1 DEF HubInv, ExporterFresh
    <3>2. CASE x.run = r /\ x.name \in Made(r)' /\ x.name \notin Made(r)
      BY <3>2 DEF HubInv, OfferedMade
    <3>3. QED
      BY <1>4, <2>1, <3>1, <3>2
  <2>2. QED
    BY <1>1, <1>4, <2>1 DEF ExporterFresh
<1>7. TodoFresh'
  <2>1. ASSUME NEW s \in RunIds
        PROVE  /\ IsInjective(todo'[s])
               /\ \A x \in Range(todo'[s]) : /\ x.run = s /\ x.name \in Made(s)'
                                             /\ x \notin offered /\ x \notin Range(exporter')
    <3>1. CASE s = r
      BY <1>3, <1>4, <3>1 DEF HubInv, OfferedMade, ExporterFresh
    <3>2. CASE s # r
      BY <1>3, <1>4, <3>2 DEF HubInv, TodoFresh
    <3>3. QED
      BY <3>1, <3>2
  <2>2. QED
    BY <1>1, <2>1 DEF TodoFresh
<1>8. QED
  BY <1>2, <1>3, <1>4, <1>6, <1>7 DEF HubInv, HubShape

LEMMA StartStep == ASSUME HubInv, NEW r \in RunIds, StartRun(r) PROVE HubInv'
<1> DEFINE x == Rec("run_start", r, "critical")
           y == Row(r, "normal", "started", 0)
<1>1. x \in Recs /\ x.run = r /\ x.name = "run_start" /\ y \in Recs /\ y.run = r /\ y.name = "started"
  BY RecType DEF Kinds, Names, TierSet
<1>2. /\ StartRecords(r) \in Seq(Recs) /\ IsInjective(StartRecords(r))
      /\ Range(StartRecords(r)) = {x, y}
  <2>1. x # y
    BY <1>1
  <2>2. QED
    BY <1>1, <2>1, PairShape DEF StartRecords
<1>3. /\ phase' = [phase EXCEPT ![r] = "running"] /\ phase[r] = "new" /\ did' = did
      /\ todo' = [todo EXCEPT ![r] = StartRecords(r)] /\ exporter' = exporter
      /\ UNCHANGED storeVars /\ HubShape
  BY DEF StartRun, HubInv
<1>4. /\ \A s \in RunIds : Made(s) \subseteq Made(s)'
      /\ \A n \in {"run_start", "started"} : n \in Made(r)' /\ n \notin Made(r)
  BY <1>3 DEF Made, HubShape
<1>5. phase' \in [RunIds -> {"new", "running", "ending", "over"}]
  BY <1>3 DEF HubShape
<1>6. did' \in [RunIds -> SUBSET {"update", "event", "span"}]
  BY <1>3 DEF HubShape
<1>7. \A e \in Range(StartRecords(r)) : e.run = r /\ e.name \in Made(r)' /\ e.name \notin Made(r)
  BY <1>1, <1>2, <1>4
<1>8. UNCHANGED storeVars /\ exporter' = exporter /\ todo' = [todo EXCEPT ![r] = StartRecords(r)]
  BY <1>3
<1>9. QED
  BY <1>2, <1>4, <1>5, <1>6, <1>7, <1>8, CallStep

LEMMA UpdateStep == ASSUME HubInv, NEW r \in RunIds, UpdateRun(r) PROVE HubInv'
<1> DEFINE x == Rec("run_update", r, "critical")
<1>1. x \in Recs /\ x.run = r /\ x.name = "run_update"
  BY RecType DEF Kinds, Names, TierSet
<1>2. <<x>> \in Seq(Recs) /\ IsInjective(<<x>>) /\ Range(<<x>>) = {x}
  BY <1>1, OneShape
<1>3. /\ did' = [did EXCEPT ![r] = did[r] \cup {"update"}] /\ "update" \notin did[r] /\ phase' = phase
      /\ todo' = [todo EXCEPT ![r] = <<x>>] /\ exporter' = exporter
      /\ UNCHANGED storeVars /\ HubShape
  BY DEF UpdateRun, HubInv
<1>4. /\ \A s \in RunIds : Made(s) \subseteq Made(s)'
      /\ "run_update" \in Made(r)' /\ "run_update" \notin Made(r)
  BY <1>3 DEF Made, HubShape
<1>5. did' \in [RunIds -> SUBSET {"update", "event", "span"}]
  BY <1>3 DEF HubShape
<1>6. phase' \in [RunIds -> {"new", "running", "ending", "over"}]
  BY <1>3 DEF HubShape
<1>7. \A e \in Range(<<x>>) : e.run = r /\ e.name \in Made(r)' /\ e.name \notin Made(r)
  BY <1>1, <1>2, <1>4
<1>8. UNCHANGED storeVars /\ exporter' = exporter /\ todo' = [todo EXCEPT ![r] = <<x>>]
  BY <1>3
<1>9. QED
  BY <1>2, <1>4, <1>5, <1>6, <1>7, <1>8, CallStep

LEMMA ObserveStep == ASSUME HubInv, NEW r \in RunIds, Observe(r) PROVE HubInv'
<1> DEFINE x == Row(r, "debug", "payload", 0)
           y == Row(r, "normal", "event", 0)
<1>1. x \in Recs /\ x.run = r /\ x.name = "payload" /\ y \in Recs /\ y.run = r /\ y.name = "event"
  BY RecType DEF Kinds, Names, TierSet
<1>2. /\ EventRecords(r, "normal", 0) \in Seq(Recs) /\ IsInjective(EventRecords(r, "normal", 0))
      /\ Range(EventRecords(r, "normal", 0)) = {x, y}
  <2>1. x # y
    BY <1>1
  <2>2. QED
    BY <1>1, <2>1, PairShape DEF EventRecords
<1>3. /\ did' = [did EXCEPT ![r] = did[r] \cup {"event"}] /\ "event" \notin did[r] /\ phase' = phase
      /\ todo' = [todo EXCEPT ![r] = EventRecords(r, "normal", 0)] /\ exporter' = exporter
      /\ UNCHANGED storeVars /\ HubShape
  BY DEF Observe, HubInv
<1>4. /\ \A s \in RunIds : Made(s) \subseteq Made(s)'
      /\ \A n \in {"payload", "event"} : n \in Made(r)' /\ n \notin Made(r)
  BY <1>3 DEF Made, HubShape
<1>5. did' \in [RunIds -> SUBSET {"update", "event", "span"}]
  BY <1>3 DEF HubShape
<1>6. phase' \in [RunIds -> {"new", "running", "ending", "over"}]
  BY <1>3 DEF HubShape
<1>7. \A e \in Range(EventRecords(r, "normal", 0)) :
         e.run = r /\ e.name \in Made(r)' /\ e.name \notin Made(r)
  BY <1>1, <1>2, <1>4
<1>8. /\ UNCHANGED storeVars /\ exporter' = exporter
      /\ todo' = [todo EXCEPT ![r] = EventRecords(r, "normal", 0)]
  BY <1>3
<1>9. QED
  BY <1>2, <1>4, <1>5, <1>6, <1>7, <1>8, CallStep

LEMMA SpanStep == ASSUME HubInv, NEW r \in RunIds, EndSpan(r) PROVE HubInv'
<1> DEFINE x == Row(r, "critical", "log", 0)
           y == Row(r, "critical", "exception", 0)
           z(tier) == Row(r, tier, "span", 0)
<1>1. /\ x \in Recs /\ x.run = r /\ x.name = "log" /\ y \in Recs /\ y.run = r /\ y.name = "exception"
      /\ \A tier \in TierSet : z(tier) \in Recs /\ z(tier).run = r /\ z(tier).name = "span"
  BY RecType DEF Kinds, Names, TierSet
<1>2. /\ FailRecords(r) \in Seq(Recs) /\ IsInjective(FailRecords(r))
      /\ Range(FailRecords(r)) = {x, y}
  <2>1. x # y
    BY <1>1
  <2>2. QED
    BY <1>1, <2>1, PairShape DEF FailRecords
<1>3. /\ did' = [did EXCEPT ![r] = did[r] \cup {"span"}] /\ "span" \notin did[r] /\ phase' = phase
      /\ UNCHANGED storeVars /\ HubShape /\ todo[r] = << >>
  BY DEF EndSpan, HubInv, Idle
<1>4. /\ \A s \in RunIds : Made(s) \subseteq Made(s)'
      /\ \A n \in {"span", "log", "exception"} : n \in Made(r)' /\ n \notin Made(r)
  BY <1>3 DEF Made, HubShape
<1>5. did' \in [RunIds -> SUBSET {"update", "event", "span"}]
  BY <1>3 DEF HubShape
<1>6. CASE exporter' = Append(exporter, z("normal")) /\ UNCHANGED todo
  <2>1. << >> \in Seq(Recs) /\ IsInjective(<< >>) /\ Range(<< >>) = {}
    BY EmptyRange
  <2>2. todo' = [todo EXCEPT ![r] = << >>]
    BY <1>3, <1>6 DEF HubShape
  <2>3. z("normal") \in Recs /\ z("normal").run = r /\ z("normal").name = "span"
    BY <1>1 DEF TierSet
  <2>4. \E e \in Recs : /\ e.run = r /\ e.name \in Made(r)' /\ e.name \notin Made(r)
                       /\ e \notin Range(<< >>) /\ exporter' = Append(exporter, e)
    BY <1>4, <1>6, <2>1, <2>3
  <2>5. phase' \in [RunIds -> {"new", "running", "ending", "over"}] /\ UNCHANGED storeVars
    BY <1>3 DEF HubShape
  <2>6. \A e \in Range(<< >>) : e.run = r /\ e.name \in Made(r)' /\ e.name \notin Made(r)
    BY <2>1
  <2>7. QED
    BY <1>4, <1>5, <2>1, <2>2, <2>4, <2>5, <2>6, CallStep
<1>7. CASE exporter' = Append(exporter, z("critical")) /\ todo' = [todo EXCEPT ![r] = FailRecords(r)]
  <2>1. /\ z("critical") \in Recs /\ z("critical").run = r /\ z("critical").name = "span"
        /\ z("critical") \notin Range(FailRecords(r))
    BY <1>1, <1>2 DEF TierSet
  <2>2. \E e \in Recs : /\ e.run = r /\ e.name \in Made(r)' /\ e.name \notin Made(r)
                       /\ e \notin Range(FailRecords(r)) /\ exporter' = Append(exporter, e)
    BY <1>4, <1>7, <2>1
  <2>3. phase' \in [RunIds -> {"new", "running", "ending", "over"}] /\ UNCHANGED storeVars
    BY <1>3 DEF HubShape
  <2>4. \A e \in Range(FailRecords(r)) : e.run = r /\ e.name \in Made(r)' /\ e.name \notin Made(r)
    BY <1>1, <1>2, <1>4
  <2>5. todo' = [todo EXCEPT ![r] = FailRecords(r)]
    BY <1>7
  <2>6. QED
    BY <1>2, <1>4, <1>5, <2>2, <2>3, <2>4, <2>5, CallStep
<1>8. QED
  BY <1>6, <1>7 DEF EndSpan

LEMMA EndStep == ASSUME HubInv, NEW r \in RunIds, EndRun(r) PROVE HubInv'
<1> DEFINE x == Row(r, "critical", "ended", 0)
           y == Rec("run_end", r, "critical")
<1>1. x \in Recs /\ x.run = r /\ x.name = "ended" /\ y \in Recs /\ y.run = r /\ y.name = "run_end"
  BY RecType DEF Kinds, Names, TierSet
<1>2. /\ EndRecords(r) \in Seq(Recs) /\ IsInjective(EndRecords(r))
      /\ Range(EndRecords(r)) = {x, y}
  <2>1. x # y
    BY <1>1
  <2>2. QED
    BY <1>1, <2>1, PairShape DEF EndRecords
<1>3. /\ phase' = [phase EXCEPT ![r] = "ending"] /\ phase[r] = "running" /\ did' = did
      /\ todo' = [todo EXCEPT ![r] = EndRecords(r)] /\ exporter' = exporter
      /\ UNCHANGED storeVars /\ HubShape
  BY DEF EndRun, HubInv
<1>4. /\ \A s \in RunIds : Made(s) \subseteq Made(s)'
      /\ \A n \in {"ended", "run_end"} : n \in Made(r)' /\ n \notin Made(r)
  BY <1>3 DEF Made, HubShape
<1>5. phase' \in [RunIds -> {"new", "running", "ending", "over"}]
  BY <1>3 DEF HubShape
<1>6. did' \in [RunIds -> SUBSET {"update", "event", "span"}]
  BY <1>3 DEF HubShape
<1>7. \A e \in Range(EndRecords(r)) : e.run = r /\ e.name \in Made(r)' /\ e.name \notin Made(r)
  BY <1>1, <1>2, <1>4
<1>8. UNCHANGED storeVars /\ exporter' = exporter /\ todo' = [todo EXCEPT ![r] = EndRecords(r)]
  BY <1>3
<1>9. QED
  BY <1>2, <1>4, <1>5, <1>6, <1>7, <1>8, CallStep

LEMMA OverStep == ASSUME HubInv, NEW r \in RunIds, Over(r) PROVE HubInv'
<1>1. /\ phase' = [phase EXCEPT ![r] = "over"] /\ phase[r] = "ending" /\ todo[r] = << >>
      /\ UNCHANGED <<todo, exporter, did, storeVars>> /\ HubShape
  BY DEF Over, HubInv, Idle
<1>2. \A s \in RunIds : Made(s) \subseteq Made(s)'
  BY <1>1 DEF Made, HubShape
<1>3. << >> \in Seq(Recs) /\ IsInjective(<< >>) /\ Range(<< >>) = {}
  BY EmptyRange
<1>4. todo' = [todo EXCEPT ![r] = << >>] /\ did' = did /\ UNCHANGED storeVars
  BY <1>1 DEF HubShape
<1>5. phase' \in [RunIds -> {"new", "running", "ending", "over"}]
  BY <1>1 DEF HubShape
<1>6. /\ \A e \in Range(<< >>) : e.run = r /\ e.name \in Made(r)' /\ e.name \notin Made(r)
      /\ did' \in [RunIds -> SUBSET {"update", "event", "span"}] /\ exporter' = exporter
  BY <1>1, <1>3 DEF HubShape
<1>7. QED
  BY <1>2, <1>3, <1>4, <1>5, <1>6, CallStep

-----------------------------------------------------------------------------
(* Giving a record to the store.                                           *)

LEMMA EmitStep == ASSUME HubInv, NEW r \in RunIds, Emit(r) PROVE HubInv'
<1>1. PICK s \in Seq(Recs) : s = todo[r]
  BY DEF HubInv, HubShape
<1>2. PICK x : x = Head(s)
  OBVIOUS
<1>3. /\ s # << >> /\ Enqueue(x) /\ todo' = [todo EXCEPT ![r] = Tail(s)]
      /\ UNCHANGED <<phase, exporter, did>> /\ offered' = offered \cup {x}
  BY <1>1, <1>2 DEF Emit, Idle, Enqueue
<1>4. /\ x \in Recs /\ Tail(s) \in Seq(Recs) /\ Range(s) = Range(Tail(s)) \cup {x}
      /\ IsInjective(Tail(s)) /\ x \notin Range(Tail(s))
  <2>1. IsInjective(s)
    BY <1>1 DEF HubInv, TodoFresh
  <2>2. QED
    BY <1>2, <1>3, <2>1, TailKeeps
<1>5. x.run = r /\ x.name \in Made(r) /\ x \notin offered /\ x \notin Range(exporter)
  BY <1>1, <1>4 DEF HubInv, TodoFresh
<1>6. \A u : Made(u)' = Made(u)
  BY <1>3 DEF Made
<1>7. /\ todo' \in [RunIds -> Seq(Recs)] /\ todo'[r] = Tail(s)
      /\ \A u \in RunIds \ {r} : todo'[u] = todo[u]
  BY <1>3, <1>4 DEF HubInv, HubShape
<1>8. StoreInv'
  BY <1>3, <1>4, <1>5, EnqueueStep DEF HubInv
<1>9. OfferedMade' /\ ExporterFresh'
  BY <1>3, <1>5, <1>6 DEF HubInv, OfferedMade, ExporterFresh
<1>10. TodoFresh'
  <2>1. ASSUME NEW u \in RunIds
        PROVE  /\ IsInjective(todo'[u])
               /\ \A y \in Range(todo'[u]) : /\ y.run = u /\ y.name \in Made(u)
                                             /\ y \notin offered' /\ y \notin Range(exporter)
    <3>1. CASE u = r
      BY <1>1, <1>3, <1>4, <1>7, <3>1 DEF HubInv, TodoFresh
    <3>2. CASE u # r
      BY <1>3, <1>5, <1>7, <3>2 DEF HubInv, TodoFresh
    <3>3. QED
      BY <3>1, <3>2
  <2>2. QED
    BY <1>3, <1>6, <2>1 DEF TodoFresh
<1>11. QED
  BY <1>3, <1>7, <1>8, <1>9, <1>10 DEF HubInv, HubShape

LEMMA ExportStep == ASSUME HubInv, Export PROVE HubInv'
<1>1. PICK x : x = Head(exporter)
  OBVIOUS
<1>2. /\ exporter # << >> /\ Enqueue(x) /\ exporter' = Tail(exporter)
      /\ UNCHANGED <<phase, todo, did>> /\ offered' = offered \cup {x}
  BY <1>1 DEF Export, Enqueue
<1>3. /\ x \in Recs /\ Tail(exporter) \in Seq(Recs)
      /\ Range(exporter) = Range(Tail(exporter)) \cup {x}
      /\ IsInjective(Tail(exporter)) /\ x \notin Range(Tail(exporter))
  BY <1>1, <1>2, TailKeeps DEF HubInv, HubShape, ExporterFresh
<1>4. x.name \in Made(x.run) /\ x \notin offered
  BY <1>3 DEF HubInv, ExporterFresh
<1>5. \A u : Made(u)' = Made(u)
  BY <1>2 DEF Made
<1>6. StoreInv'
  BY <1>2, <1>3, <1>4, EnqueueStep DEF HubInv
<1>7. OfferedMade' /\ ExporterFresh'
  BY <1>2, <1>3, <1>4, <1>5 DEF HubInv, OfferedMade, ExporterFresh
<1>8. TodoFresh'
  BY <1>2, <1>3, <1>5 DEF HubInv, TodoFresh
<1>9. QED
  BY <1>2, <1>3, <1>6, <1>7, <1>8 DEF HubInv, HubShape

\* Whatever leaves the hub and what was offered alone.
LEMMA OwnKept ==
    ASSUME HubInv, StoreInv', UNCHANGED <<hubOwn, offered>> PROVE HubInv'
BY DEF HubInv, HubShape, OfferedMade, TodoFresh, ExporterFresh, Made, hubOwn

LEMMA HubStep == HubInv /\ [HubNext]_hubVars => HubInv'
<1>1. SUFFICES ASSUME HubInv, [HubNext]_hubVars PROVE HubInv'
  OBVIOUS
<1>2. ASSUME NEW r \in RunIds, Call(r) PROVE HubInv'
  BY <1>1, <1>2, StartStep, UpdateStep, ObserveStep, SpanStep, EndStep, OverStep, EmitStep
     DEF Call
<1>3. CASE Export
  BY <1>1, <1>3, ExportStep
<1>4. CASE Shutdown
  <2>1. UNCHANGED <<hubOwn, queued, unfinished, writer, batch, written, emerged, lost, offered>>
    BY <1>4 DEF Shutdown, Stop, tables, emergency, histories
  <2>2. QED
    BY <1>1, <2>1, OtherStep, OwnKept DEF HubInv
<1>5. CASE StoreWorks
  <2>1. UNCHANGED <<hubOwn, offered>>
    BY <1>5 DEF StoreWorks, Write, Keep, Take, Seal, Commit, GiveUp, Settle, Exit, Retain,
                CloseQueue, histories
  <2>2. QED
    BY <1>1, <1>5, <2>1, StoreWorksStep, OwnKept DEF HubInv
<1>6. CASE UNCHANGED hubVars
  <2>1. UNCHANGED <<hubOwn, queued, unfinished, writer, batch, written, emerged, lost, offered>>
    BY <1>6 DEF hubVars, storeVars, tables, emergency, histories
  <2>2. QED
    BY <1>1, <2>1, OtherStep, OwnKept DEF HubInv
<1>7. QED
  BY <1>1, <1>2, <1>3, <1>4, <1>5, <1>6 DEF HubNext

LEMMA HubStarts == ASSUME HubInit PROVE HubInv
<1>1. /\ phase = [r \in RunIds |-> "new"] /\ todo = [r \in RunIds |-> << >>]
      /\ exporter = << >> /\ did = [r \in RunIds |-> {}] /\ offered = {} /\ StoreInit
  BY DEF HubInit, StoreInit
<1>2. HubShape
  BY <1>1 DEF HubShape
<1>3. OfferedMade /\ TodoFresh /\ ExporterFresh
  BY <1>1, EmptyRange DEF OfferedMade, TodoFresh, ExporterFresh
<1>4. QED
  BY <1>1, <1>2, <1>3, StoreStarts DEF HubInv

LEMMA HubAlways == HubSpec => []HubInv
<1>1. HubInit => HubInv
  BY HubStarts
<1>2. HubInv /\ [HubNext]_hubVars => HubInv'
  BY HubStep
<1>3. QED
  BY <1>1, <1>2, PTL DEF HubSpec

-----------------------------------------------------------------------------
\* The count that flush waits for is what waits and what the writer has in hand,
\* whatever is evicted meanwhile and however a batch ends.
THEOREM FlushTellsTruth == HubSpec => []FlushMeansSettled
<1>1. HubInv => FlushMeansSettled
  BY DEF HubInv, StoreInv
<1>2. QED
  BY <1>1, HubAlways, PTL

\* With any capacity, a critical record waits, was committed, is in the emergency
\* file, or counts among the writes that the emergency file refused; nothing else
\* makes the queue or the writer let go of it.
THEOREM CriticalAlwaysTraced == HubSpec => []CriticalTraced
<1>1. HubInv => CriticalTraced
  BY DEF HubInv, StoreInv
<1>2. QED
  BY <1>1, HubAlways, PTL

\* No record is written twice, nor both written and given up, nor is one that was
\* written or put into the emergency file counted as lost.
THEOREM WrittenOnceAlways == HubSpec => []WrittenOnce
<1>1. HubInv => WrittenOnce
  BY DEF HubInv, StoreInv
<1>2. QED
  BY <1>1, HubAlways, PTL

-----------------------------------------------------------------------------
(* Rows and their runs.                                                    *)

Tables == [RunIds -> {"absent", "running", "ended"}]

StartOf(r) == StartRecords(r)[1]

\* A run hands its start to the store before anything else of it.
StartHandedFirst ==
    /\ \A r \in RunIds : IF phase[r] = "new" THEN todo[r] = << >>
                         ELSE StartOf(r) \in offered \/ (todo[r] # << >> /\ Head(todo[r]) = StartOf(r))
    /\ \A x \in Range(exporter) : StartOf(x.run) \in offered
    /\ \A x \in offered : StartOf(x.run) \in offered

\* In s no record of a run comes before the start of the run.
Ordered(s) == \A i, j \in DOMAIN s : s[j] = StartOf(s[i].run) => j <= i

\* No record overtakes the start of its run on its way to the writer, and a
\* start that was written is in the table until retention deletes the run.
StartWrittenFirst ==
    /\ Ordered(queued["critical"]) /\ Ordered(batch)
    /\ \A x \in Range(batch) : StartOf(x.run) \notin Waiting
    /\ \A r \in RunIds : StartOf(r) \in written => runs[r] # "absent" \/ r \in deleted
    /\ runs \in Tables

OrderInv == StartHandedFirst /\ StartWrittenFirst

-----------------------------------------------------------------------------
(* Induction on positions, from the order of the naturals: the least        *)
(* counterexample.                                                         *)

LEMMA WellFoundedSubsets ==
    ASSUME NEW I, IsFiniteSet(I), NEW T, T \subseteq SUBSET I, T # {}
    PROVE  \E t \in T : \A u \in T : u \subseteq t => u = t
<1>1. FiniteSubsetsOf(I) = SUBSET I
  BY FS_FiniteSubsetsOfFinite
<1>2. IsWellFoundedOn(StrictSubsetOrdering(I), SUBSET I)
  BY <1>1, FS_StrictSubsetOrderingWellFounded
<1>3. PICK t \in T : \A u \in T : ~ (<<u, t>> \in StrictSubsetOrdering(I))
  BY ONLY <1>2, T \subseteq SUBSET I, T # {}, WFMin
<1>4. QED
  BY <1>3 DEF StrictSubsetOrdering

LEMMA SmallestOf ==
    ASSUME NEW n \in Nat, NEW S, S \subseteq 0 .. n, S # {}
    PROVE  \E x \in S : \A y \in S : x <= y
<1> DEFINE Below(x) == {y \in S : y < x}
<1>1. IsFiniteSet(0 .. n)
  BY FS_Interval
<1>2. {Below(x) : x \in S} \subseteq SUBSET (0 .. n) /\ {Below(x) : x \in S} # {}
  OBVIOUS
<1>3. PICK t \in {Below(x) : x \in S} : \A u \in {Below(x) : x \in S} : u \subseteq t => u = t
  <2> DEFINE T == {Below(x) : x \in S}
             I == 0 .. n
  <2>1. T \subseteq SUBSET I /\ T # {} /\ IsFiniteSet(I)
    BY <1>1, <1>2
  <2> HIDE DEF T, I
  <2>2. \E t \in T : \A u \in T : u \subseteq t => u = t
    BY <2>1, WellFoundedSubsets
  <2>3. QED
    BY <2>2 DEF T
<1>4. PICK x \in S : t = Below(x)
  BY <1>3
<1>5. \A y \in S : ~(y < x)
  <2>1. SUFFICES ASSUME NEW y \in S, y < x PROVE FALSE
    OBVIOUS
  <2>2. x \in Int /\ y \in Int /\ \A z \in S : z \in Int
    OBVIOUS
  <2>3. \A z \in S : z < y => z < x
    BY <2>1, <2>2
  <2>4. Below(y) \subseteq Below(x)
    BY <2>3
  <2>5. y \in Below(x) /\ y \notin Below(y)
    BY <2>1, <2>2
  <2>6. Below(y) = Below(x)
    BY <1>3, <1>4, <2>4
  <2>7. QED
    BY <2>5, <2>6
<1>6. QED
  BY <1>5

LEMMA LargestOf ==
    ASSUME NEW n \in Nat, NEW S, S \subseteq 0 .. n, S # {}
    PROVE  \E x \in S : \A y \in S : y <= x
<1> DEFINE T == {n - y : y \in S}
<1>1. T \subseteq 0 .. n /\ T # {}
  <2>1. \A y \in S : n - y \in 0 .. n
    OBVIOUS
  <2>2. QED
    BY <2>1
<1>2. PICK x \in T : \A y \in T : x <= y
  <2> HIDE DEF T
  <2> QED BY <1>1, SmallestOf
<1>3. PICK z \in S : x = n - z
  BY <1>2
<1>4. \A y \in S : y <= z
  BY <1>2, <1>3
<1>5. QED
  BY <1>4

LEMMA MaxIs ==
    ASSUME NEW S, S \subseteq Nat, NEW x \in S, \A y \in S : y <= x
    PROVE  Max(S) = x
<1>1. \A z \in S : z >= x => z = x
  <2>1. SUFFICES ASSUME NEW z \in S, z >= x PROVE z = x
    OBVIOUS
  <2>2. z \in Nat /\ x \in Nat /\ z <= x
    OBVIOUS
  <2>3. QED
    BY <2>1, <2>2
<1>2. \E z \in S : \A y \in S : z >= y
  <2>1. \A y \in S : x >= y
    OBVIOUS
  <2>2. QED
    BY <2>1
<1>3. Max(S) \in S /\ \A y \in S : Max(S) >= y
  BY <1>2 DEF Max
<1>4. QED
  BY <1>1, <1>3

LEMMA MaxOf ==
    ASSUME NEW n \in Nat, NEW s, s \subseteq 1 .. n, s # {}
    PROVE  /\ Max(s) \in s
           /\ \A y \in s : Max(s) >= y
<1>1. \E x \in s : \A y \in s : x >= y
  <2>1. s \subseteq 0 .. n
    OBVIOUS
  <2>2. PICK x \in s : \A y \in s : y <= x
    BY <2>1, LargestOf
  <2>3. \A y \in s : x >= y
    BY <2>2
  <2>4. QED
    BY <2>3
<1>2. QED
  BY <1>1 DEF Max

-----------------------------------------------------------------------------
(* The transaction, record by record.                                      *)

\* g is the recursive function the fold is evaluated by, on the first n records.
FoldsTo(g, rs, n) ==
    g = [s \in SUBSET (1 .. n) |->
            IF s = {} THEN runs ELSE Wrote(g[s \ {Max(s)}], rs[Max(s)])]

LEMMA FoldExtends ==
    ASSUME NEW n \in Nat, n # 0, NEW rs, NEW h, FoldsTo(h, rs, n - 1)
    PROVE  \E g : FoldsTo(g, rs, n)
<1> DEFINE g == [s \in SUBSET (1 .. n) |->
                    IF s = {} THEN runs ELSE Wrote(h[s \ {Max(s)}], rs[Max(s)])]
<1>1. \A s \in SUBSET (1 .. (n - 1)) : g[s] = h[s]
  <2>1. SUBSET (1 .. (n - 1)) \subseteq SUBSET (1 .. n)
    OBVIOUS
  <2>2. QED
    BY <2>1 DEF FoldsTo
<1>2. \A s \in SUBSET (1 .. n) : s # {} => s \ {Max(s)} \in SUBSET (1 .. (n - 1))
  <2>1. SUFFICES ASSUME NEW s \in SUBSET (1 .. n), s # {}, NEW y \in s, y # Max(s)
                 PROVE  y \in 1 .. (n - 1)
    OBVIOUS
  <2>2. Max(s) \in s /\ Max(s) >= y
    BY <2>1, MaxOf
  <2>3. Max(s) \in 1 .. n /\ y \in 1 .. n
    BY <2>2
  <2>4. QED
    BY <2>1, <2>2, <2>3
<1>3. \A s \in SUBSET (1 .. n) : s # {} => g[s \ {Max(s)}] = h[s \ {Max(s)}]
  BY <1>1, <1>2
<1>4. FoldsTo(g, rs, n)
  BY <1>3 DEF FoldsTo
<1>5. QED
  BY <1>4

LEMMA FoldExists ==
    ASSUME NEW n \in Nat, NEW rs
    PROVE  \E g : FoldsTo(g, rs, n)
<1> DEFINE S == {k \in 0 .. n : ~ \E g : FoldsTo(g, rs, k)}
<1>1. SUFFICES ASSUME S # {} PROVE FALSE
  OBVIOUS
<1>2. PICK k \in S : \A y \in S : k <= y
  <2>1. S \subseteq 0 .. n
    OBVIOUS
  <2> HIDE DEF S
  <2>2. QED
    BY <1>1, <2>1, SmallestOf
<1>3. k # 0
  <2>1. SUBSET (1 .. 0) = {{}}
    OBVIOUS
  <2>2. FoldsTo([s \in SUBSET (1 .. 0) |-> runs], rs, 0)
    BY <2>1 DEF FoldsTo
  <2>3. QED
    BY <2>2
<1>4. k \in Nat /\ k - 1 \in 0 .. n /\ k - 1 \notin S
  BY <1>2, <1>3
<1>5. PICK h : FoldsTo(h, rs, k - 1)
  BY <1>4
<1>6. \E g : FoldsTo(g, rs, k)
  BY <1>3, <1>4, <1>5, FoldExtends
<1>7. QED
  BY <1>6

\* The tables along the transaction: V[k] is the table after the first k records.
Along(V, rs) ==
    /\ V[0] = runs
    /\ \A k \in 1 .. Len(rs) : V[k] = Wrote(V[k - 1], rs[k])
    /\ V[Len(rs)] = Transaction(rs)

LEMMA TransactionIs ==
    ASSUME NEW rs \in Seq(Recs)
    PROVE  \E V : Along(V, rs)
<1>1. PICK n \in Nat : n = Len(rs) /\ DOMAIN rs = 1 .. n
  OBVIOUS
<1> DEFINE Evaluates(g) ==
             g = [s \in SUBSET (DOMAIN rs) |->
                    IF s = {} THEN runs ELSE Wrote(g[s \ {Max(s)}], rs[Max(s)])]
           g == CHOOSE f : Evaluates(f)
<1>2. Transaction(rs) = g[DOMAIN rs]
  BY DEF Transaction, FoldLeft, MapThenFoldSet
<1>3. \A f : FoldsTo(f, rs, n) <=> Evaluates(f)
  BY <1>1 DEF FoldsTo
<1>4. \E f : Evaluates(f)
  BY <1>3, FoldExists
<1>5. Evaluates(g)
  BY <1>4
<1>6. FoldsTo(g, rs, n) /\ Transaction(rs) = g[1 .. n]
  <2> HIDE DEF g, Evaluates
  <2> QED
    BY <1>1, <1>2, <1>3, <1>5
<1> HIDE DEF g, Evaluates
<1> DEFINE V == [k \in 0 .. n |-> g[1 .. k]]
<1>7. \A k \in 0 .. n : V[k] = g[1 .. k]
  OBVIOUS
<1>8. V[0] = runs
  <2>1. 1 .. 0 = {} /\ {} \in SUBSET (1 .. n) /\ 0 \in 0 .. n
    OBVIOUS
  <2>2. g[{}] = runs
    BY <1>6, <2>1 DEF FoldsTo
  <2>3. QED
    BY <1>7, <2>1, <2>2
<1>9. ASSUME NEW k \in 1 .. n PROVE V[k] = Wrote(V[k - 1], rs[k])
  <2>1. 1 .. k \in SUBSET (1 .. n) /\ k \in 1 .. k /\ k \in Nat
    OBVIOUS
  <2>2. Max(1 .. k) = k
    <3>1. 1 .. k \subseteq Nat /\ \A y \in 1 .. k : y <= k
      BY <2>1
    <3>2. QED
      BY <2>1, <3>1, MaxIs
  <2>3. (1 .. k) \ {k} = 1 .. (k - 1)
    BY <2>1
  <2>4. g[1 .. k] = Wrote(g[1 .. (k - 1)], rs[k])
    BY <1>6, <2>1, <2>2, <2>3 DEF FoldsTo
  <2>5. k \in 0 .. n /\ k - 1 \in 0 .. n
    OBVIOUS
  <2>6. QED
    BY <1>7, <2>4, <2>5
<1>10. V[n] = Transaction(rs)
  <2>1. n \in 0 .. n
    OBVIOUS
  <2>2. QED
    BY <1>6, <1>7, <2>1
<1> HIDE DEF V
<1>11. Along(V, rs)
  BY <1>1, <1>8, <1>9, <1>10 DEF Along
<1>12. QED
  BY <1>11

LEMMA WroteIs ==
    ASSUME NEW table \in Tables, NEW x \in Recs
    PROVE  /\ Wrote(None, x) = None
           /\ Wrote(table, x) # None =>
                /\ Wrote(table, x) \in Tables
                /\ \A r \in RunIds : Wrote(table, x)[r] = "absent" =>
                                        table[r] = "absent" /\ x # StartOf(r)
           /\ Wrote(table, x) = None => x.kind = "row" /\ table[x.run] = "absent"
<1>1. table # None /\ None \notin RunIds
  BY StoreAssumption DEF Tables
<1>2. x.run \in RunIds /\ x.kind \in Kinds
  BY DEF Recs
<1>3. \A r : StartOf(r).kind = "run_start" /\ StartOf(r).run = r
  BY DEF StartOf, StartRecords, Rec
<1>4. Wrote(None, x) = None
  BY DEF Wrote
<1>5. CASE x.kind = "run_start"
  <2>1. Wrote(table, x) = [table EXCEPT ![x.run] = "running"]
    BY <1>1, <1>5 DEF Wrote
  <2>2. Wrote(table, x) \in Tables /\ None \notin Tables
    BY <1>2, <2>1, StoreAssumption DEF Tables
  <2>3. \A r \in RunIds : Wrote(table, x)[r] = "absent" => r # x.run /\ table[r] = "absent"
    BY <1>2, <2>1 DEF Tables
  <2>4. QED
    BY <1>3, <1>4, <2>2, <2>3
<1>6. CASE x.kind = "run_update"
  BY <1>1, <1>3, <1>4, <1>6 DEF Wrote
<1>7. CASE x.kind = "run_end"
  <2>1. Wrote(table, x) = IF table[x.run] = "absent" THEN table
                          ELSE [table EXCEPT ![x.run] = "ended"]
    BY <1>1, <1>7 DEF Wrote
  <2>2. Wrote(table, x) \in Tables /\ None \notin Tables
    BY <1>2, <2>1, StoreAssumption DEF Tables
  <2>3. \A r \in RunIds : Wrote(table, x)[r] = "absent" => table[r] = "absent"
    BY <1>2, <2>1 DEF Tables
  <2>4. QED
    BY <1>3, <1>4, <1>7, <2>2, <2>3
<1>8. CASE x.kind = "row"
  <2>1. Wrote(table, x) = IF x.run # None /\ table[x.run] = "absent" THEN None ELSE table
    BY <1>1, <1>8 DEF Wrote
  <2>2. QED
    BY <1>1, <1>2, <1>3, <1>4, <1>8, <2>1
<1>9. QED
  BY <1>2, <1>5, <1>6, <1>7, <1>8 DEF Kinds

\* As long as the transaction has not failed, a run that is absent was absent
\* before and was not started by the records so far.
LEMMA AbsentAlong ==
    ASSUME NEW rs \in Seq(Recs), runs \in Tables, NEW V, Along(V, rs),
           NEW n \in 0 .. Len(rs), V[n] # None
    PROVE  /\ V[n] \in Tables
           /\ \A r \in RunIds : V[n][r] = "absent" =>
                 runs[r] = "absent" /\ \A i \in 1 .. n : rs[i] # StartOf(r)
<1> DEFINE Good(k) == /\ V[k] \in Tables
                      /\ \A r \in RunIds : V[k][r] = "absent" =>
                            runs[r] = "absent" /\ \A i \in 1 .. k : rs[i] # StartOf(r)
           S == {k \in 0 .. Len(rs) : V[k] # None /\ ~Good(k)}
<1>1. SUFFICES ASSUME S # {} PROVE FALSE
  OBVIOUS
<1>2. PICK k \in S : \A y \in S : k <= y
  <2>1. S \subseteq 0 .. Len(rs) /\ Len(rs) \in Nat
    OBVIOUS
  <2> HIDE DEF S
  <2>2. QED
    BY <1>1, <2>1, SmallestOf
<1>3. k \in 0 .. Len(rs) /\ V[k] # None /\ ~Good(k)
  OBVIOUS
<1>4. k # 0
  <2>1. V[0] = runs /\ 1 .. 0 = {}
    BY DEF Along
  <2>2. Good(0)
    BY <2>1
  <2>3. QED
    BY <1>3, <2>2
<1>5. PICK j : j = k - 1
  OBVIOUS
<1>6. k \in 1 .. Len(rs) /\ j \in 0 .. Len(rs) /\ j \notin S /\ 1 .. k = (1 .. j) \cup {k}
  <2>1. k \in Nat /\ j \in Nat /\ k \in 1 .. Len(rs) /\ j < k /\ j \in 0 .. Len(rs)
    BY <1>3, <1>4, <1>5
  <2>2. j \notin S
    <3> HIDE DEF S
    <3> QED
      BY <1>2, <2>1
  <2>3. 1 .. k = (1 .. j) \cup {k}
    BY <1>5, <2>1
  <2>4. QED
    BY <2>1, <2>2, <2>3
<1>7. V[k] = Wrote(V[j], rs[k]) /\ rs[k] \in Recs
  BY <1>5, <1>6 DEF Along
<1>8. V[j] # None
  BY <1>3, <1>7, WroteIs
<1>9. Good(j)
  BY <1>6, <1>8
<1>10. V[k] \in Tables /\ \A r \in RunIds : V[k][r] = "absent" => V[j][r] = "absent" /\ rs[k] # StartOf(r)
  BY <1>3, <1>7, <1>9, WroteIs
<1>11. Good(k)
  BY <1>6, <1>9, <1>10
<1>12. QED
  BY <1>3, <1>11

\* What a transaction does to the table.
LEMMA TransactionDone ==
    ASSUME NEW rs \in Seq(Recs), runs \in Tables, Transaction(rs) # None
    PROVE  /\ Transaction(rs) \in Tables
           /\ \A r \in RunIds : Transaction(rs)[r] = "absent" =>
                 runs[r] = "absent" /\ StartOf(r) \notin Range(rs)
<1>1. PICK V : Along(V, rs)
  BY TransactionIs
<1>2. Len(rs) \in 0 .. Len(rs) /\ V[Len(rs)] = Transaction(rs) /\ DOMAIN rs = 1 .. Len(rs)
  BY <1>1 DEF Along
<1>3. QED
  BY <1>1, <1>2, AbsentAlong DEF Range

\* A transaction fails for a row whose run was absent, and was not started before.
LEMMA TransactionFailed ==
    ASSUME NEW rs \in Seq(Recs), runs \in Tables, Transaction(rs) = None
    PROVE  \E n \in DOMAIN rs : /\ rs[n].kind = "row" /\ runs[rs[n].run] = "absent"
                                /\ \A i \in DOMAIN rs : i <= n => rs[i] # StartOf(rs[n].run)
<1>1. PICK V : Along(V, rs)
  BY TransactionIs
<1> DEFINE S == {k \in 0 .. Len(rs) : V[k] = None}
<1>2. PICK k \in S : \A y \in S : k <= y
  <2>1. S \subseteq 0 .. Len(rs) /\ Len(rs) \in Nat
    OBVIOUS
  <2>2. Len(rs) \in S
    BY <1>1, <2>1 DEF Along
  <2> HIDE DEF S
  <2>3. QED
    BY <2>1, <2>2, SmallestOf
<1>3. k \in 0 .. Len(rs) /\ V[k] = None
  OBVIOUS
<1>4. k # 0
  BY <1>1, <1>3, StoreAssumption DEF Along, Tables
<1>5. PICK j : j = k - 1
  OBVIOUS
<1>6. k \in 1 .. Len(rs) /\ j \in 0 .. Len(rs) /\ j \notin S /\ k \in Nat /\ j \in Nat
  <2>1. k \in Nat /\ j \in Nat /\ k \in 1 .. Len(rs) /\ j < k /\ j \in 0 .. Len(rs)
    BY <1>3, <1>4, <1>5
  <2>2. j \notin S
    <3> HIDE DEF S
    <3> QED
      BY <1>2, <2>1
  <2>3. QED
    BY <2>1, <2>2
<1>7. V[k] = Wrote(V[j], rs[k]) /\ rs[k] \in Recs /\ V[j] # None
  BY <1>1, <1>5, <1>6 DEF Along
<1>8. V[j] \in Tables /\ \A r \in RunIds : V[j][r] = "absent" =>
          runs[r] = "absent" /\ \A i \in 1 .. j : rs[i] # StartOf(r)
  BY <1>1, <1>6, <1>7, AbsentAlong
<1>9. rs[k].kind = "row" /\ V[j][rs[k].run] = "absent" /\ rs[k].run \in RunIds
  BY <1>3, <1>7, <1>8, WroteIs DEF Recs
<1>10. rs[k] # StartOf(rs[k].run)
  BY <1>9 DEF StartOf, StartRecords, Rec
<1>11. \A i \in DOMAIN rs : i <= k => i \in 1 .. j \/ i = k
  BY <1>5, <1>6
<1>12. QED
  BY <1>6, <1>8, <1>9, <1>10, <1>11

-----------------------------------------------------------------------------
(* The order is kept.                                                      *)

LEMMA StartIs ==
    ASSUME NEW r
    PROVE  /\ StartOf(r).kind = "run_start" /\ StartOf(r).run = r
           /\ StartOf(r).tier = "critical"
           /\ StartRecords(r) # << >> /\ Head(StartRecords(r)) = StartOf(r)
BY DEF StartOf, StartRecords, Rec

LEMMA OrderedAppend ==
    ASSUME NEW s \in Seq(Recs), NEW x \in Recs, Ordered(s),
           \A y \in Range(s) : x # StartOf(y.run)
    PROVE  Ordered(Append(s, x))
<1>1. PICK n \in Nat : n = Len(s) /\ DOMAIN s = 1 .. n
  OBVIOUS
<1>2. /\ DOMAIN Append(s, x) = 1 .. n + 1 /\ Append(s, x)[n + 1] = x
      /\ \A i \in 1 .. n : Append(s, x)[i] = s[i] /\ s[i] \in Range(s)
  BY <1>1 DEF Range
<1>3. SUFFICES ASSUME NEW i \in 1 .. n + 1, NEW j \in 1 .. n + 1,
                      Append(s, x)[j] = StartOf(Append(s, x)[i].run)
               PROVE  j <= i
  BY <1>2 DEF Ordered
<1>4. CASE i \in 1 .. n /\ j \in 1 .. n
  BY <1>1, <1>2, <1>3, <1>4 DEF Ordered
<1>5. CASE i \in 1 .. n /\ j = n + 1
  BY <1>2, <1>3, <1>5
<1>6. QED
  BY <1>3, <1>4, <1>5

LEMMA OrderedTail ==
    ASSUME NEW s \in Seq(Recs), s # << >>, Ordered(s)
    PROVE  /\ Ordered(Tail(s))
           /\ \A y \in Range(Tail(s)) : y # StartOf(Head(s).run)
<1>1. PICK n \in Nat : n = Len(s) /\ DOMAIN s = 1 .. n /\ n # 0
  OBVIOUS
<1>2. /\ DOMAIN Tail(s) = 1 .. n - 1 /\ Head(s) = s[1] /\ 1 \in 1 .. n
      /\ \A i \in 1 .. n - 1 : Tail(s)[i] = s[i + 1] /\ i + 1 \in 1 .. n
  BY <1>1
<1>3. Ordered(Tail(s))
  <2>1. SUFFICES ASSUME NEW i \in 1 .. n - 1, NEW j \in 1 .. n - 1,
                        Tail(s)[j] = StartOf(Tail(s)[i].run)
                 PROVE  j <= i
    BY <1>2 DEF Ordered
  <2>2. j + 1 <= i + 1
    BY <1>1, <1>2, <2>1 DEF Ordered
  <2>3. QED
    BY <2>2
<1>4. ASSUME NEW j \in 1 .. n - 1, s[j + 1] = StartOf(s[1].run) PROVE FALSE
  <2>1. j + 1 <= 1
    BY <1>1, <1>2, <1>4 DEF Ordered
  <2>2. QED
    BY <2>1
<1>5. QED
  BY <1>2, <1>3, <1>4 DEF Range

\* A start that waits is among the critical records.
StartsWait ==
    StoreInv => \A r \in RunIds :
                    StartOf(r) \in Waiting <=> StartOf(r) \in Range(queued["critical"])

LEMMA StartsWaitThere == StartsWait
<1>1. "critical" \in TierSet
  BY DEF TierSet
<1>2. QED
  BY <1>1, StartIs, WaitingIs DEF StartsWait, StoreInv, TierKept

\* A record that joins the critical tier, or another one, or none.
LEMMA EnqueueShape ==
    ASSUME StoreInv, NEW x \in Recs, Enqueue(x)
    PROVE  queued'["critical"] \in {queued["critical"], Append(queued["critical"], x)}
<1>1. x.tier \in TierSet /\ "critical" \in TierSet /\ queued \in [TierSet -> Seq(Recs)]
  BY DEF Recs, TierSet, StoreInv, StoreShape
<1>2. CASE Admit(x)
  BY <1>1, <1>2 DEF Admit
<1>3. CASE Displace(x)
  <2>1. PICK v : v = FirstQueued(Victims(x.tier))
    OBVIOUS
  <2>2. /\ queued' = [[queued EXCEPT ![v] = Tail(@)] EXCEPT ![x.tier] = Append(@, x)]
        /\ v \in {"normal", "debug"} /\ v # x.tier /\ v # "critical"
    BY <1>3, <2>1, VictimIs DEF Displace, Replaced
  <2>3. QED
    BY <1>1, <2>2
<1>4. CASE Refuse(x)
  BY <1>4 DEF Refuse
<1>5. QED
  BY <1>2, <1>3, <1>4 DEF Enqueue

LEMMA EnqueueOrder ==
    ASSUME StoreInv, StoreInv', StartWrittenFirst, NEW x \in Recs, x \notin offered, Enqueue(x),
           \A y \in offered : StartOf(y.run) \in offered
    PROVE  StartWrittenFirst'
<1>1. /\ UNCHANGED <<batch, runs, written, deleted>>
      /\ queued'["critical"] \in {queued["critical"], Append(queued["critical"], x)}
      /\ queued["critical"] \in Seq(Recs) /\ "critical" \in TierSet
  BY EnqueueShape DEF Enqueue, tables, StoreInv, StoreShape, TierSet
<1>2. Range(queued'["critical"]) \subseteq Range(queued["critical"]) \cup {x}
  BY <1>1, AppendKeeps
<1>3. \A y \in offered : x # StartOf(y.run)
  OBVIOUS
<1>4. Range(queued["critical"]) \subseteq offered /\ Range(batch) \subseteq offered
      /\ batch \in Seq(Recs)
  BY <1>1, WaitingIs DEF StoreInv, AllOffered, StoreShape
<1>5. Ordered(queued'["critical"])
  BY <1>1, <1>3, <1>4, OrderedAppend DEF StartWrittenFirst
<1>6. ASSUME NEW y \in Range(batch) PROVE StartOf(y.run) \notin Waiting'
  <2>1. y.run \in RunIds
    BY <1>4, <1>6, RangeType DEF Recs
  <2>2. StartOf(y.run) \notin Range(queued["critical"])
    BY <1>6, <2>1, StartsWaitThere DEF StartsWait, StartWrittenFirst
  <2>3. StartOf(y.run) \notin Range(queued'["critical"])
    BY <1>2, <1>3, <1>4, <1>6, <2>2
  <2>4. StartsWait'
    BY StartsWaitThere, PTL
  <2>5. QED
    BY <2>1, <2>3, <2>4, StartIs DEF StartsWait, StartOf, StartRecords, Rec
<1>7. QED
  BY <1>1, <1>5, <1>6 DEF StartWrittenFirst, Tables, Ordered, StartOf, StartRecords, Rec

\* The writer takes a critical record as long as there is one.
LEMMA CriticalNext ==
    ASSUME queued["critical"] # << >>
    PROVE  Next1 = "critical"
<1> DEFINE First(i) == /\ queued[Tiers[i]] # << >>
                       /\ \A j \in DOMAIN Tiers : queued[Tiers[j]] # << >> => i <= j
<1>1. Tiers[1] = "critical" /\ DOMAIN Tiers = 1 .. 3
  BY DEF Tiers
<1>2. First(1) /\ 1 \in DOMAIN Tiers
  BY <1>1
<1>3. \A i \in DOMAIN Tiers : First(i) => i = 1
  <2>1. SUFFICES ASSUME NEW i \in DOMAIN Tiers, First(i) PROVE i = 1
    OBVIOUS
  <2>2. i <= 1 /\ i \in 1 .. 3
    BY <1>1, <1>2, <2>1
  <2>3. QED
    BY <2>2
<1>4. (CHOOSE i \in DOMAIN Tiers : First(i)) = 1
  <2> HIDE DEF First
  <2> QED
    BY <1>2, <1>3
<1>5. QED
  BY <1>1, <1>4 DEF Next1, FirstQueued

LEMMA TakeOrder ==
    ASSUME StoreInv, StoreInv', StartWrittenFirst, Take PROVE StartWrittenFirst'
<1>1. PICK v : v = Next1
  OBVIOUS
<1>2. PICK s \in Seq(Recs) : s = queued[v]
  BY <1>1, QueuesAre, TakenIs DEF Take
<1>3. PICK h : h = Head(s)
  OBVIOUS
<1>4. /\ batch' = Append(batch, h) /\ queued' = [queued EXCEPT ![v] = Tail(s)]
      /\ UNCHANGED <<runs, written, deleted>> /\ v \in TierSet /\ s # << >>
      /\ queued \in [TierSet -> Seq(Recs)] /\ batch \in Seq(Recs) /\ "critical" \in TierSet
  BY <1>1, <1>2, <1>3, QueuesAre, TakenIs DEF Take, tables, TierSet
<1>5. h \in Recs /\ h \in Range(s) /\ Range(Tail(s)) \subseteq Range(s)
  BY <1>2, <1>3, <1>4, TailKeeps
<1>6. h \in Waiting
  BY <1>2, <1>4, <1>5, WaitingIs
<1>7. Ordered(queued'["critical"])
  <2>1. CASE v = "critical"
    BY <1>2, <1>4, <2>1, OrderedTail DEF StartWrittenFirst
  <2>2. CASE v # "critical"
    BY <1>4, <2>2 DEF StartWrittenFirst
  <2>3. QED
    BY <2>1, <2>2
<1>8. Ordered(batch')
  BY <1>4, <1>5, <1>6, OrderedAppend DEF StartWrittenFirst
<1>9. \A y \in Range(queued'["critical"]) : y # StartOf(h.run) /\ y \in Range(queued["critical"])
  <2>1. CASE v = "critical"
    BY <1>2, <1>3, <1>4, <1>5, <2>1, OrderedTail DEF StartWrittenFirst
  <2>2. CASE v # "critical"
    <3>1. queued["critical"] = << >> /\ queued'["critical"] = << >>
      BY <1>1, <1>4, <2>2, CriticalNext
    <3>2. QED
      BY <3>1, EmptyRange
  <2>3. QED
    BY <2>1, <2>2
<1>10. ASSUME NEW y \in Range(batch') PROVE StartOf(y.run) \notin Waiting'
  <2>1. Range(batch') = Range(batch) \cup {h} /\ y \in Recs /\ y.run \in RunIds
    <3>1. Range(batch') = Range(batch) \cup {h}
      BY <1>4, <1>5, AppendKeeps
    <3>2. Range(batch) \subseteq Recs
      BY <1>4, RangeType
    <3>3. y \in Recs
      BY <1>5, <1>10, <3>1, <3>2
    <3>4. QED
      BY <3>1, <3>3 DEF Recs
  <2>2. StartOf(y.run) \notin Range(queued'["critical"])
    <3>1. CASE y \in Range(batch)
      <4>1. StartOf(y.run) \notin Waiting
        BY <3>1 DEF StartWrittenFirst
      <4>2. StartOf(y.run) \notin Range(queued["critical"])
        BY <2>1, <4>1, StartsWaitThere DEF StartsWait
      <4>3. QED
        BY <1>9, <4>2
    <3>2. CASE y = h
      BY <1>9, <3>2
    <3>3. QED
      BY <2>1, <1>10, <3>1, <3>2
  <2>3. StartsWait'
    BY StartsWaitThere, PTL
  <2>4. QED
    BY <2>1, <2>2, <2>3 DEF StartsWait, StartOf, StartRecords, Rec
<1>11. QED
  BY <1>4, <1>7, <1>8, <1>10 DEF StartWrittenFirst, Tables, Ordered, StartOf, StartRecords, Rec

\* The steps that leave the queues alone.
LEMMA TableOrder ==
    ASSUME StoreInv, StartWrittenFirst, UNCHANGED queued,
           batch' \in {batch, << >>}, runs' \in Tables,
           \A r \in RunIds :
              \/ StartOf(r) \in written' => runs'[r] # "absent"
              \/ r \in deleted'
              \/ StartOf(r) \notin written'
    PROVE  StartWrittenFirst'
<1>1. Ordered(<< >>) /\ Range(<< >>) = {}
  BY EmptyRange DEF Ordered
<1>2. Waiting' = Waiting
  BY DEF Waiting
<1>3. QED
  BY <1>1, <1>2 DEF StartWrittenFirst, Tables, Ordered, StartOf, StartRecords, Rec

LEMMA WorksOrder ==
    ASSUME StoreInv, StoreInv', StartWrittenFirst, StoreWorks PROVE StartWrittenFirst'
<1>1. runs \in Tables /\ \A r \in RunIds : StartOf(r) \in written => runs[r] # "absent" \/ r \in deleted
  BY DEF StartWrittenFirst
<1>2. CASE Take
  BY <1>2, TakeOrder
<1>3. CASE Seal \/ GiveUp \/ Settle \/ Exit \/ CloseQueue
  <2>1. UNCHANGED <<queued, runs, written, deleted>> /\ batch' \in {batch, << >>}
    BY <1>3 DEF Seal, GiveUp, Settle, Exit, CloseQueue, tables
  <2>2. QED
    BY <1>1, <2>1, TableOrder
<1>4. CASE Commit
  <2>1. /\ Transaction(batch) # None /\ batch \in Seq(Recs)
        /\ runs' = Transaction(batch) /\ written' = written \cup Range(batch)
        /\ UNCHANGED <<queued, batch, deleted>>
    BY <1>4 DEF Commit, StoreInv, StoreShape
  <2>2. /\ runs' \in Tables
        /\ \A r \in RunIds : runs'[r] = "absent" =>
              runs[r] = "absent" /\ StartOf(r) \notin Range(batch)
    BY <1>1, <2>1, TransactionDone
  <2>3. QED
    BY <1>1, <2>1, <2>2, TableOrder
<1>5. CASE Keep
  <2>1. PICK old \in SUBSET RunIds : Retain(old)
    BY <1>5 DEF Keep
  <2>2. /\ runs' = [r \in RunIds |-> IF r \in old THEN "absent" ELSE runs[r]]
        /\ deleted' = deleted \cup old /\ UNCHANGED <<queued, batch, written>>
    BY <2>1 DEF Retain
  <2>3. runs' \in Tables
    BY <1>1, <2>2 DEF Tables
  <2>4. \A r \in RunIds : StartOf(r) \in written' => runs'[r] # "absent" \/ r \in deleted'
    BY <1>1, <2>2
  <2>5. QED
    BY <2>2, <2>3, <2>4, TableOrder
<1>6. QED
  BY <1>2, <1>3, <1>4, <1>5 DEF StoreWorks, Write

\* A call that begins a run, or one that finds its start handed over.
LEMMA CallOrder ==
    ASSUME HubInv, OrderInv, NEW r \in RunIds, UNCHANGED storeVars,
           \A u \in RunIds \ {r} : phase'[u] = phase[u] /\ todo'[u] = todo[u],
           phase'[r] # "new",
           StartOf(r) \in offered \/ (todo'[r] # << >> /\ Head(todo'[r]) = StartOf(r)),
           \/ exporter' = exporter
           \/ \E y \in Recs : /\ y.run = r /\ StartOf(r) \in offered
                              /\ exporter' = Append(exporter, y)
    PROVE  OrderInv'
<1>1. /\ UNCHANGED <<queued, batch, runs, written, deleted, offered>>
      /\ exporter \in Seq(Recs)
  BY DEF storeVars, tables, histories, HubInv, HubShape
<1>2. StartWrittenFirst'
  BY <1>1, TableOrder DEF OrderInv, StartWrittenFirst, HubInv
<1>3. \A x \in Range(exporter') : StartOf(x.run) \in offered
  <2>1. \A x \in Range(exporter) : StartOf(x.run) \in offered
    BY DEF OrderInv, StartHandedFirst
  <2>2. ASSUME NEW y \in Recs, y.run = r, StartOf(r) \in offered, exporter' = Append(exporter, y)
        PROVE  \A x \in Range(exporter') : StartOf(x.run) \in offered
    <3>1. Range(exporter') = Range(exporter) \cup {y}
      BY <1>1, <2>2, AppendKeeps
    <3>2. QED
      BY <2>1, <2>2, <3>1
  <2>3. QED
    BY <2>1, <2>2
<1>4. StartHandedFirst'
  BY <1>1, <1>3 DEF OrderInv, StartHandedFirst, StartOf, StartRecords, Rec
<1>5. QED
  BY <1>2, <1>4 DEF OrderInv

LEMMA CallsOrder ==
    ASSUME HubInv, OrderInv, NEW r \in RunIds, Call(r), ~Emit(r) PROVE OrderInv'
<1>1. HubShape /\ StartHandedFirst
  BY DEF HubInv, OrderInv
<1>2. CASE StartRun(r)
  <2>1. /\ phase' = [phase EXCEPT ![r] = "running"]
        /\ todo' = [todo EXCEPT ![r] = StartRecords(r)] /\ UNCHANGED <<exporter, storeVars>>
    BY <1>2 DEF StartRun
  <2>2. todo'[r] = StartRecords(r) /\ phase'[r] = "running"
        /\ \A u \in RunIds \ {r} : phase'[u] = phase[u] /\ todo'[u] = todo[u]
    BY <1>1, <2>1 DEF HubShape
  <2>3. QED
    BY <2>1, <2>2, StartIs, CallOrder
<1>3. CASE ~StartRun(r)
  <2>1. /\ phase[r] \in {"running", "ending"} /\ Idle(r) /\ UNCHANGED storeVars
        /\ phase' = phase \/ \E p \in {"ending", "over"} : phase' = [phase EXCEPT ![r] = p]
        /\ todo' = todo \/ \E q : todo' = [todo EXCEPT ![r] = q]
        /\ exporter' = exporter \/ \E tier \in {"normal", "critical"} :
              exporter' = Append(exporter, Row(r, tier, "span", 0))
    BY <1>3 DEF Call, UpdateRun, Observe, EndSpan, EndRun, Over
  <2>2. StartOf(r) \in offered
    BY <1>1, <2>1 DEF StartHandedFirst, Idle
  <2>3. phase'[r] # "new" /\ \A u \in RunIds \ {r} : phase'[u] = phase[u] /\ todo'[u] = todo[u]
    BY <1>1, <2>1 DEF HubShape
  <2>4. \A tier \in {"normal", "critical"} :
           Row(r, tier, "span", 0) \in Recs /\ Row(r, tier, "span", 0).run = r
    BY RecType DEF TierSet, Names
  <2>5. QED
    BY <2>1, <2>2, <2>3, <2>4, CallOrder
<1>4. QED
  BY <1>2, <1>3

\* A record that is given to the store is the start of its run, or comes later.
LEMMA GiveOrder ==
    ASSUME HubInv, HubInv', OrderInv, NEW x \in Recs, x \notin offered, Enqueue(x),
           x = StartOf(x.run) \/ StartOf(x.run) \in offered
    PROVE  StartWrittenFirst' /\ offered' = offered \cup {x}
           /\ \A y \in offered' : StartOf(y.run) \in offered'
<1>1. offered' = offered \cup {x}
  BY DEF Enqueue
<1>2. StartWrittenFirst'
  BY EnqueueOrder DEF HubInv, OrderInv, StartHandedFirst
<1>3. QED
  BY <1>1, <1>2 DEF OrderInv, StartHandedFirst

LEMMA EmitOrder ==
    ASSUME HubInv, HubInv', OrderInv, NEW r \in RunIds, Emit(r) PROVE OrderInv'
<1>1. PICK s \in Seq(Recs) : s = todo[r]
  BY DEF HubInv, HubShape
<1>2. PICK x : x = Head(s)
  OBVIOUS
<1>3. /\ s # << >> /\ Enqueue(x) /\ todo' = [todo EXCEPT ![r] = Tail(s)]
      /\ UNCHANGED <<phase, exporter>>
  BY <1>1, <1>2 DEF Emit, Idle
<1>4. x \in Recs /\ x \in Range(s)
  BY <1>2, <1>3, TailKeeps
<1>5. x.run = r /\ x \notin offered
  BY <1>1, <1>4 DEF HubInv, TodoFresh
<1>6. phase[r] # "new" /\ (StartOf(r) \in offered \/ x = StartOf(r))
  BY <1>1, <1>2, <1>3 DEF OrderInv, StartHandedFirst
<1>7. /\ StartWrittenFirst' /\ offered' = offered \cup {x}
      /\ \A y \in offered' : StartOf(y.run) \in offered'
  BY <1>3, <1>4, <1>5, <1>6, GiveOrder
<1>8. StartOf(r) \in offered'
  BY <1>6, <1>7
<1>9. \A u \in RunIds \ {r} : todo'[u] = todo[u]
  BY <1>3 DEF HubInv, HubShape
<1>10. \A u \in RunIds :
          IF phase[u] = "new" THEN todo'[u] = << >>
          ELSE StartOf(u) \in offered' \/ (todo'[u] # << >> /\ Head(todo'[u]) = StartOf(u))
  BY <1>6, <1>7, <1>8, <1>9 DEF OrderInv, StartHandedFirst
<1>11. StartHandedFirst'
  BY <1>3, <1>7, <1>10 DEF OrderInv, StartHandedFirst, StartOf, StartRecords, Rec
<1>12. QED
  BY <1>7, <1>11 DEF OrderInv

LEMMA ExportOrder == ASSUME HubInv, HubInv', OrderInv, Export PROVE OrderInv'
<1>1. PICK x : x = Head(exporter)
  OBVIOUS
<1>2. /\ exporter # << >> /\ Enqueue(x) /\ exporter' = Tail(exporter)
      /\ UNCHANGED <<phase, todo>>
  BY <1>1 DEF Export
<1>3. x \in Recs /\ x \in Range(exporter) /\ Range(Tail(exporter)) \subseteq Range(exporter)
  BY <1>1, <1>2, TailKeeps DEF HubInv, HubShape
<1>4. x \notin offered /\ StartOf(x.run) \in offered
  BY <1>3 DEF HubInv, ExporterFresh, OrderInv, StartHandedFirst
<1>5. /\ StartWrittenFirst' /\ offered' = offered \cup {x}
      /\ \A y \in offered' : StartOf(y.run) \in offered'
  BY <1>2, <1>3, <1>4, GiveOrder
<1>6. StartHandedFirst'
  BY <1>2, <1>3, <1>5 DEF OrderInv, StartHandedFirst, StartOf, StartRecords, Rec
<1>7. QED
  BY <1>5, <1>6 DEF OrderInv

LEMMA HandedSame ==
    ASSUME StartHandedFirst, UNCHANGED <<hubOwn, offered>> PROVE StartHandedFirst'
BY DEF StartHandedFirst, hubOwn, StartOf, StartRecords, Rec

LEMMA OrderStep == HubInv /\ HubInv' /\ OrderInv /\ [HubNext]_hubVars => OrderInv'
<1>1. SUFFICES ASSUME HubInv, HubInv', OrderInv, [HubNext]_hubVars PROVE OrderInv'
  OBVIOUS
<1>2. ASSUME NEW r \in RunIds, Call(r) PROVE OrderInv'
  BY <1>1, <1>2, CallsOrder, EmitOrder
<1>3. CASE Export
  BY <1>1, <1>3, ExportOrder
<1>4. CASE Shutdown \/ UNCHANGED hubVars
  <2>1. UNCHANGED <<hubOwn, queued, batch, runs, written, deleted, offered>>
    BY <1>4 DEF Shutdown, Stop, hubVars, storeVars, tables, histories
  <2>2. StartWrittenFirst'
    BY <1>1, <2>1, TableOrder DEF OrderInv, StartWrittenFirst, HubInv
  <2>3. QED
    BY <1>1, <2>1, <2>2, HandedSame DEF OrderInv
<1>5. CASE StoreWorks
  <2>1. UNCHANGED <<hubOwn, offered>>
    BY <1>5 DEF StoreWorks, Write, Keep, Take, Seal, Commit, GiveUp, Settle, Exit, Retain,
                CloseQueue, histories
  <2>2. StartWrittenFirst'
    BY <1>1, <1>5, WorksOrder DEF OrderInv, HubInv
  <2>3. QED
    BY <1>1, <2>1, <2>2, HandedSame DEF OrderInv
<1>6. QED
  BY <1>1, <1>2, <1>3, <1>4, <1>5 DEF HubNext

LEMMA OrderStarts == ASSUME HubInit PROVE OrderInv
<1>1. /\ phase = [r \in RunIds |-> "new"] /\ todo = [r \in RunIds |-> << >>]
      /\ exporter = << >> /\ offered = {} /\ batch = << >> /\ written = {}
      /\ runs = [r \in RunIds |-> "absent"] /\ queued = [t \in TierSet |-> << >>]
  BY TierRange DEF HubInit, StoreInit
<1>2. queued["critical"] = << >> /\ Range(<< >>) = {} /\ Ordered(<< >>)
  BY <1>1, EmptyRange DEF TierSet, Ordered
<1>3. QED
  BY <1>1, <1>2 DEF OrderInv, StartHandedFirst, StartWrittenFirst, Tables

\* What the order is for.
LEMMA ParentThere == ASSUME HubInv, OrderInv PROVE ParentFirst
<1>1. SUFFICES ASSUME writer = "write", Transaction(batch) = None
               PROVE  \E x \in Range(batch) :
                         /\ x.run # None /\ runs[x.run] = "absent"
                         /\ x.run \in deleted \/ StartOf(x.run) \in emerged \cup lost
  BY DEF ParentFirst, StartOf
<1>2. batch \in Seq(Recs) /\ runs \in Tables
  BY DEF HubInv, StoreInv, StoreShape, OrderInv, StartWrittenFirst
<1>3. PICK n \in DOMAIN batch :
         /\ batch[n].kind = "row" /\ runs[batch[n].run] = "absent"
         /\ \A i \in DOMAIN batch : i <= n => batch[i] # StartOf(batch[n].run)
  BY <1>1, <1>2, TransactionFailed
<1>4. PICK x : x = batch[n]
  OBVIOUS
<1>5. x \in Range(batch) /\ x.run \in RunIds
  <2>1. x \in Range(batch)
    BY <1>4 DEF Range
  <2>2. x \in Recs
    BY <1>2, <2>1, RangeType
  <2>3. QED
    BY <2>1, <2>2 DEF Recs
<1>6. StartOf(x.run) \in Waiting \cup Range(batch) \cup written \cup emerged \cup lost
  <2>1. x \in offered
    BY <1>5 DEF HubInv, StoreInv, AllOffered
  <2>2. StartOf(x.run) \in offered
    BY <2>1 DEF OrderInv, StartHandedFirst
  <2>3. QED
    BY <2>2, StartIs DEF HubInv, StoreInv, CriticalTraced
<1>7. StartOf(x.run) \notin Waiting
  BY <1>5 DEF OrderInv, StartWrittenFirst
<1>8. StartOf(x.run) \notin Range(batch)
  BY <1>3, <1>4 DEF OrderInv, StartWrittenFirst, Ordered, Range
<1>9. StartOf(x.run) \in written => x.run \in deleted
  BY <1>3, <1>4, <1>5 DEF OrderInv, StartWrittenFirst
<1>10. QED
  BY <1>3, <1>4, <1>5, <1>6, <1>7, <1>8, <1>9, StoreAssumption

\* A batch is refused only for a row of a run that retention has deleted, or
\* whose start was given to the emergency file: tiers, evictions and the exporter
\* thread never let a row overtake the start of its run.
THEOREM ParentsFirst == HubSpec => []ParentFirst
<1>1. HubInit => OrderInv
  BY OrderStarts
<1>2. HubInv /\ OrderInv => ParentFirst
  BY ParentThere
<1>3. QED
  BY <1>1, <1>2, OrderStep, HubAlways, PTL DEF HubSpec
=============================================================================
