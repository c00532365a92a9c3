--------------------------- MODULE ServicesProofs ---------------------------
(***************************************************************************)
(* The components around the protocol that keep a stream, for any sizes:   *)
(* the pages of the dashboard, the emergency log, subscribers and readers  *)
(* of the Blackboard.                                                      *)
(***************************************************************************)
EXTENDS Dashboard, EmergencyLog, BoardServices, FiniteSetTheorems, SequenceTheorems, TLAPS

-----------------------------------------------------------------------------
(* Induction on positions, from the order of the naturals: the least        *)
(* counterexample.                                                         *)

LEMMA WellFoundedSubsets ==
    ASSUME NEW I, IsFiniteSet(I), NEW T, T \subseteq SUBSET I, T # {}
    PROVE  \E t \in T : \A u \in T : u \subseteq t => u = t
<1>1. FiniteSubsetsOf(I) = SUBSET I
  BY FS_FiniteSubsetsOfFinite
<1>2. IsWellFoundedOn(StrictSubsetOrdering(I), SUBSET I)
  BY <1>1, FS_StrictSubsetOrderingWellFounded
<1>3. PICK t \in T : \A u \in T : ~ (<<u, t>> \in StrictSubsetOrdering(I))
  BY ONLY <1>2, T \subseteq SUBSET I, T # {}, WFMin
<1>4. QED
  BY <1>3 DEF StrictSubsetOrdering

LEMMA SmallestOf ==
    ASSUME NEW n \in Nat, NEW S, S \subseteq 0 .. n, S # {}
    PROVE  \E x \in S : \A y \in S : x <= y
<1> DEFINE Below(x) == {y \in S : y < x}
<1>1. IsFiniteSet(0 .. n)
  BY FS_Interval
<1>2. {Below(x) : x \in S} \subseteq SUBSET (0 .. n) /\ {Below(x) : x \in S} # {}
  OBVIOUS
<1>3. PICK t \in {Below(x) : x \in S} : \A u \in {Below(x) : x \in S} : u \subseteq t => u = t
  <2> DEFINE T == {Below(x) : x \in S}
             I == 0 .. n
  <2>1. T \subseteq SUBSET I /\ T # {} /\ IsFiniteSet(I)
    BY <1>1, <1>2
  <2> HIDE DEF T, I
  <2>2. \E t \in T : \A u \in T : u \subseteq t => u = t
    BY <2>1, WellFoundedSubsets
  <2>3. QED
    BY <2>2 DEF T
<1>4. PICK x \in S : t = Below(x)
  BY <1>3
<1>5. \A y \in S : ~(y < x)
  <2>1. SUFFICES ASSUME NEW y \in S, y < x PROVE FALSE
    OBVIOUS
  <2>2. x \in Int /\ y \in Int /\ \A z \in S : z \in Int
    OBVIOUS
  <2>3. \A z \in S : z < y => z < x
    BY <2>1, <2>2
  <2>4. Below(y) \subseteq Below(x)
    BY <2>3
  <2>5. y \in Below(x) /\ y \notin Below(y)
    BY <2>1, <2>2
  <2>6. Below(y) = Below(x)
    BY <1>3, <1>4, <2>4
  <2>7. QED
    BY <2>5, <2>6
<1>6. QED
  BY <1>5

LEMMA LargestOf ==
    ASSUME NEW n \in Nat, NEW S, S \subseteq 0 .. n, S # {}
    PROVE  \E x \in S : \A y \in S : y <= x
<1> DEFINE T == {n - y : y \in S}
<1>1. T \subseteq 0 .. n /\ T # {}
  <2>1. \A y \in S : n - y \in 0 .. n
    OBVIOUS
  <2>2. QED
    BY <2>1
<1>2. PICK x \in T : \A y \in T : x <= y
  <2> HIDE DEF T
  <2> QED BY <1>1, SmallestOf
<1>3. PICK z \in S : x = n - z
  BY <1>2
<1>4. \A y \in S : y <= z
  BY <1>2, <1>3
<1>5. QED
  BY <1>4

LEMMA MaxIs ==
    ASSUME NEW S, S \subseteq Nat, NEW x \in S, \A y \in S : y <= x
    PROVE  Max(S) = x
<1>1. \A z \in S : z >= x => z = x
  <2>1. SUFFICES ASSUME NEW z \in S, z >= x PROVE z = x
    OBVIOUS
  <2>2. z \in Nat /\ x \in Nat /\ z <= x
    OBVIOUS
  <2>3. QED
    BY <2>1, <2>2
<1>2. \E z \in S : \A y \in S : z >= y
  <2>1. \A y \in S : x >= y
    OBVIOUS
  <2>2. QED
    BY <2>1
<1>3. Max(S) \in S /\ \A y \in S : Max(S) >= y
  BY <1>2 DEF Max
<1>4. QED
  BY <1>1, <1>3

LEMMA MaxOf ==
    ASSUME NEW n \in Nat, NEW s, s \subseteq 1 .. n, s # {}
    PROVE  /\ Max(s) \in s
           /\ \A y \in s : Max(s) >= y
<1>1. \E x \in s : \A y \in s : x >= y
  <2>1. s \subseteq 0 .. n
    OBVIOUS
  <2>2. PICK x \in s : \A y \in s : y <= x
    BY <2>1, LargestOf
  <2>3. \A y \in s : x >= y
    BY <2>2
  <2>4. QED
    BY <2>3
<1>2. QED
  BY <1>1 DEF Max

-----------------------------------------------------------------------------
(* The dashboard.                                                          *)

Places == {"away", "read", "check", "last", "closed"}
Jobs == {"none", "listed", "running", "told", "over"}

DashType ==
    /\ messages \in [DashRuns -> Nat]
    /\ done \in [DashRuns -> BOOLEAN]
    /\ job \in [DashRuns -> Jobs]
    /\ rows \in [DashRuns -> SUBSET Nat]
    /\ watcher \in [Watchers -> [run : DashRuns \cup {"none"}, seq : Nat, at : Places]]
    /\ seen \in [Watchers -> SUBSET Nat]

\* The store has nothing that was not published, and nothing is published any
\* more once a run is done.
RunsTrue ==
    \A r \in DashRuns :
        /\ rows[r] \subseteq 1 .. messages[r]
        /\ done[r] => job[r] = "over"

\* A page has everything up to the last number it knows, and that is no more
\* than was published; a handler that is past its check knows the run is done.
PageTrue(w) ==
    LET r == watcher[w].run
    IN  /\ seen[w] = 1 .. watcher[w].seq
        /\ r = "none" => watcher[w].seq = 0 /\ At(w, "away")
        /\ r \in DashRuns => watcher[w].seq <= messages[r]
        /\ At(w, "last") \/ At(w, "closed") => done[r]
        /\ At(w, "closed") => watcher[w].seq = messages[r]

DashInv == DashType /\ RunsTrue /\ \A w \in Watchers : PageTrue(w)

\* The last number a page knows after it received `sent`.
LastOf(n, sent) == IF sent = {} THEN n ELSE CHOOSE k \in sent : \A j \in sent : j <= k

\* What is sent of consecutive messages, whole or cut off, is consecutive.
LEMMA SentIs ==
    ASSUME NEW n \in Nat, NEW m \in Nat, NEW sent \in SUBSET ((n + 1) .. m), n <= m,
           \A k \in sent : {j \in (n + 1) .. m : j < k} \subseteq sent
    PROVE  LastOf(n, sent) \in n .. m /\ sent = (n + 1) .. LastOf(n, sent)
<1>1. CASE sent = {}
  BY <1>1 DEF LastOf
<1>2. CASE sent # {}
  <2>1. sent \subseteq 0 .. m
    OBVIOUS
  <2>2. \E x \in sent : \A y \in sent : y <= x
    BY <1>2, <2>1, LargestOf
  <2>3. PICK k \in sent : k = LastOf(n, sent) /\ \A y \in sent : y <= k
    BY <1>2, <2>2 DEF LastOf
  <2>4. k \in n .. m /\ k \in Nat
    <3>1. k \in (n + 1) .. m
      BY k \in sent
    <3>2. QED
      BY ONLY n \in Nat, m \in Nat, <3>1
  <2>5. sent = (n + 1) .. k
    <3>1. \A y \in sent : y \in (n + 1) .. k
      BY <2>3, <2>4
    <3>2. \A y \in (n + 1) .. k : y < k => y \in {j \in (n + 1) .. m : j < k}
      BY <2>3, <2>4
    <3>3. \A y \in (n + 1) .. k : y \in sent
      BY <2>3, <2>4, <3>2
    <3>4. QED
      BY <3>1, <3>3
  <2>6. QED
    BY <2>3, <2>4, <2>5
<1>3. QED
  BY <1>1, <1>2

\* What the store has and what the run holds, merged, is what the run holds.
LEMMA SinceIs ==
    ASSUME DashInv, NEW r \in DashRuns, NEW n \in Nat, n <= messages[r]
    PROVE  Since(r, n) = (n + 1) .. messages[r]
<1>1. messages[r] \in Nat /\ rows[r] \subseteq 1 .. messages[r]
  BY DEF DashInv, DashType, RunsTrue
<1>2. rows[r] \cup (1 .. messages[r]) = 1 .. messages[r]
  BY <1>1
<1>3. {k \in 1 .. messages[r] : k > n} = (n + 1) .. messages[r]
  BY <1>1
<1>4. QED
  BY <1>2, <1>3 DEF Since

\* A send keeps the page true, when it may go on at `next` with all it was sent.
LEMMA SendKeeps ==
    ASSUME DashInv, NEW w \in Watchers, NEW r \in DashRuns, r = watcher[w].run,
           NEW next \in Places,
           Send(w, (watcher[w].seq + 1) .. messages[r], next),
           next \in {"last", "closed"} => done[r],
           next = "closed" \/ next \in {"read", "check", "last"},
           UNCHANGED <<persistent, messages, done, job, rows>>
    PROVE  DashInv'
<1> DEFINE n == watcher[w].seq
           m == messages[r]
           ks == (n + 1) .. m
<1>1. n \in Nat /\ m \in Nat /\ n <= m /\ seen[w] = 1 .. n /\ watcher[w] \in [run : DashRuns \cup {"none"}, seq : Nat, at : Places]
  BY DashAssumption DEF DashInv, DashType, PageTrue
<1>2. PICK sent \in SUBSET ks :
        /\ \A k \in sent : {j \in ks : j < k} \subseteq sent
        /\ seen' = [seen EXCEPT ![w] = @ \cup sent]
        /\ watcher' = [watcher EXCEPT ![w] =
               [run |-> @.run,
                seq |-> IF sent = {} THEN @.seq ELSE CHOOSE k \in sent : \A j \in sent : j <= k,
                at |-> IF sent = ks THEN next ELSE "away"]]
  BY DEF Send
<1> DEFINE last == LastOf(n, sent)
<1>3. sent = (n + 1) .. last /\ last \in n .. m
  <2> HIDE DEF n, m
  <2>1. sent \in SUBSET ((n + 1) .. m) /\ \A k \in sent : {j \in (n + 1) .. m : j < k} \subseteq sent
    BY <1>2
  <2>2. QED
    BY <1>1, <2>1, SentIs, ZenonT(60)
<1>4. /\ seen' = [seen EXCEPT ![w] = (1 .. n) \cup sent]
      /\ watcher' = [watcher EXCEPT ![w] =
               [run |-> r, seq |-> last, at |-> IF sent = ks THEN next ELSE "away"]]
  BY <1>1, <1>2 DEF LastOf
<1>5. (1 .. n) \cup sent = 1 .. last /\ last \in Nat /\ last <= m
  <2> HIDE DEF n, m, last
  <2> QED BY <1>1, <1>3
<1>6. sent = ks => last = m
  <2> HIDE DEF n, m, last
  <2>1. SUFFICES ASSUME sent = (n + 1) .. m PROVE last = m
    OBVIOUS
  <2>2. CASE n = m
    BY <1>1, <1>3, <2>2
  <2>3. CASE n < m
    <3>1. m \in (n + 1) .. last
      BY <1>1, <1>3, <2>1, <2>3
    <3>2. QED
      BY <1>1, <1>3, <3>1
  <2>4. QED
    BY <1>1, <2>2, <2>3
<1> HIDE DEF n, m, ks, last
<1>7. DashType'
  BY <1>4, <1>5 DEF DashInv, DashType, Places
<1>8. RunsTrue'
  BY DEF DashInv, RunsTrue
<1>9. ASSUME NEW x \in Watchers PROVE PageTrue(x)'
  <2>1. CASE x # w
    <3>1. watcher'[x] = watcher[x] /\ seen'[x] = seen[x] /\ PageTrue(x)
      BY <1>4, <2>1 DEF DashInv, DashType
    <3>2. QED
      BY <3>1 DEF PageTrue, At
  <2>2. CASE x = w
    <3>1. /\ watcher'[x] = [run |-> r, seq |-> last, at |-> IF sent = ks THEN next ELSE "away"]
          /\ seen'[x] = (1 .. n) \cup sent
      BY <1>4, <2>2 DEF DashInv, DashType
    <3>2. QED
      BY <1>5, <1>6, <3>1, DashAssumption DEF PageTrue, At, m
  <2>3. QED
    BY <2>1, <2>2
<1>10. QED
  BY <1>7, <1>8, <1>9 DEF DashInv

\* What the thread of a run and the writer of the store do to a page.
LEMMA RunStep ==
    ASSUME DashInv, NEW r \in DashRuns, BeginRun(r) \/ Work(r) \/ Execute(r) \/ Persist(r)
    PROVE  DashInv'
<1>1. UNCHANGED <<watcher, seen>>
  BY DEF BeginRun, Work, Execute, Conclude, FinishRun, Persist
<1>2. DashType' /\ RunsTrue'
  <2>1. CASE BeginRun(r)
    BY <2>1 DEF BeginRun, DashInv, DashType, RunsTrue, Jobs, Known
  <2>2. CASE Work(r)
    BY <2>2 DEF Work, Publish, DashInv, DashType, RunsTrue, Jobs
  <2>3. CASE Conclude(r)
    BY <2>3 DEF Conclude, Publish, DashInv, DashType, RunsTrue, Jobs
  <2>4. CASE FinishRun(r)
    BY <2>4 DEF FinishRun, DashInv, DashType, RunsTrue, Jobs
  <2>5. CASE Persist(r)
    BY <2>5 DEF Persist, DashInv, DashType, RunsTrue
  <2>6. QED
    BY <2>1, <2>2, <2>3, <2>4, <2>5 DEF Execute
<1>3. \A x \in DashRuns :
         /\ messages'[x] >= messages[x]
         /\ done[x] => done'[x] /\ messages'[x] = messages[x]
  <2>1. SUFFICES ASSUME NEW x \in DashRuns
                 PROVE  /\ messages'[x] >= messages[x]
                        /\ done[x] => done'[x] /\ messages'[x] = messages[x]
    OBVIOUS
  <2>2. CASE BeginRun(r) \/ Persist(r)
    BY <2>2 DEF BeginRun, Persist, DashInv, DashType
  <2>3. CASE Work(r) \/ Conclude(r)
    BY <2>3 DEF Work, Conclude, Publish, DashInv, DashType, RunsTrue
  <2>4. CASE FinishRun(r)
    BY <2>4 DEF FinishRun, DashInv, DashType
  <2>5. QED
    BY <2>2, <2>3, <2>4 DEF Execute
<1>4. ASSUME NEW w \in Watchers PROVE PageTrue(w)'
  <2>1. PageTrue(w) /\ watcher[w] \in [run : DashRuns \cup {"none"}, seq : Nat, at : Places]
    BY DEF DashInv, DashType
  <2>2. \A x \in DashRuns : messages[x] \in Nat /\ messages'[x] \in Nat
    BY <1>2 DEF DashInv, DashType
  <2>3. QED
    BY <1>1, <1>3, <2>1, <2>2, DashAssumption DEF PageTrue, At
<1>5. QED
  BY <1>2, <1>4 DEF DashInv

\* A page that only moves.
LEMMA PageMoves ==
    ASSUME DashInv, NEW w \in Watchers, NEW r \in DashRuns, NEW at \in Places,
           watcher' = [watcher EXCEPT ![w].run = r, ![w].at = at],
           watcher[w].run \in {"none", r},
           at = "last" => done[r], at # "closed",
           UNCHANGED <<persistent, messages, done, job, rows, seen>>
    PROVE  DashInv'
<1>1. watcher[w] \in [run : DashRuns \cup {"none"}, seq : Nat, at : Places]
  BY DEF DashInv, DashType
<1> DEFINE new == [run |-> r, seq |-> watcher[w].seq, at |-> at]
<1>2. watcher' = [watcher EXCEPT ![w] = new]
  <2>1. [[watcher[w] EXCEPT !.run = r] EXCEPT !.at = at] = new
    <3>1. PICK n \in Nat, x \in DashRuns \cup {"none"}, p \in Places :
             watcher[w] = [run |-> x, seq |-> n, at |-> p]
      BY <1>1
    <3>2. PICK y : y = [watcher[w] EXCEPT !.run = r]
      OBVIOUS
    <3>3. y = [run |-> r, seq |-> n, at |-> p]
      BY <3>1, <3>2
    <3>4. [y EXCEPT !.at = at] = new
      BY <3>1, <3>3
    <3>5. QED
      BY <3>2, <3>4
  <2>2. watcher' = [watcher EXCEPT ![w] = [[watcher[w] EXCEPT !.run = r] EXCEPT !.at = at]]
    BY DEF DashInv, DashType
  <2>3. QED
    BY <2>1, <2>2
<1>3. DashType' /\ RunsTrue'
  <2>1. new \in [run : DashRuns \cup {"none"}, seq : Nat, at : Places]
    BY <1>1
  <2>2. watcher' \in [Watchers -> [run : DashRuns \cup {"none"}, seq : Nat, at : Places]]
    <3> HIDE DEF new
    <3> QED BY <1>2, <2>1 DEF DashInv, DashType
  <2>3. QED
    BY <2>2 DEF DashInv, DashType, RunsTrue
<1>4. ASSUME NEW x \in Watchers PROVE PageTrue(x)'
  <2>1. CASE x # w
    <3>1. watcher'[x] = watcher[x] /\ PageTrue(x)
      BY <1>2, <2>1 DEF DashInv, DashType
    <3>2. QED
      BY <3>1 DEF PageTrue, At
  <2>2. CASE x = w
    <3>1. watcher'[x] = [run |-> r, seq |-> watcher[w].seq, at |-> at] /\ PageTrue(w)
      BY <1>2, <2>2 DEF DashInv, DashType
    <3>2. messages[r] \in Nat
      BY DEF DashInv, DashType
    <3>3. QED
      BY <1>1, <2>2, <3>1, <3>2, DashAssumption DEF PageTrue, At
  <2>3. QED
    BY <2>1, <2>2
<1>5. QED
  BY <1>3, <1>4 DEF DashInv

LEMMA PageStep ==
    ASSUME DashInv, NEW w \in Watchers, Connect(w) \/ Break(w) \/ Serve(w)
    PROVE  DashInv'
<1>1. watcher[w] \in [run : DashRuns \cup {"none"}, seq : Nat, at : Places] /\ PageTrue(w)
  BY DEF DashInv, DashType
<1>2. CASE Connect(w)
  <2>1. PICK r \in DashRuns : watcher[w].run \in {"none", r}
                              /\ watcher' = [watcher EXCEPT ![w].run = r, ![w].at = "read"]
    BY <1>2 DEF Connect
  <2>2. QED
    BY <1>2, <2>1, PageMoves DEF Connect, Places
<1>3. ~ At(w, "away") => watcher[w].run \in DashRuns
  BY <1>1 DEF PageTrue
<1>4. CASE Break(w)
  <2>1. ~ At(w, "away")
    BY <1>4 DEF Break, At
  <2>2. watcher' = [watcher EXCEPT ![w].run = watcher[w].run, ![w].at = "away"]
    BY <1>1, <1>4 DEF Break, DashInv, DashType
  <2>3. QED
    BY <1>3, <1>4, <2>1, <2>2, PageMoves DEF Break, Places
<1>5. CASE Check(w)
  <2>1. ~ At(w, "away")
    BY <1>5 DEF Check, At
  <2>2. PICK at \in Places : at = IF done[watcher[w].run] THEN "last" ELSE "read"
    BY DEF Places
  <2>3. watcher' = [watcher EXCEPT ![w].run = watcher[w].run, ![w].at = at]
    BY <1>1, <1>5, <2>2 DEF Check, DashInv, DashType
  <2>4. QED
    BY <1>3, <1>5, <2>1, <2>2, <2>3, PageMoves, ZenonT(60) DEF Check
<1>6. PICK r : r = watcher[w].run
  OBVIOUS
<1>7. ASSUME At(w, "read") \/ At(w, "last")
      PROVE  /\ r \in DashRuns /\ (At(w, "last") => done[r])
             /\ Since(r, watcher[w].seq) = (watcher[w].seq + 1) .. messages[r]
  BY <1>1, <1>3, <1>6, <1>7, SinceIs DEF At, PageTrue
<1>8. CASE ReadMore(w)
  BY <1>6, <1>7, <1>8, SendKeeps DEF ReadMore, Places
<1>9. CASE LastLook(w)
  BY <1>6, <1>7, <1>9, SendKeeps DEF LastLook, Places
<1>10. CASE Wait(w)
  BY <1>6, <1>7, <1>10, SendKeeps DEF Wait, Places
<1>11. QED
  BY <1>2, <1>4, <1>5, <1>8, <1>9, <1>10 DEF Serve

\* A page has every message up to the last number it knows, and its stream ends
\* only when the run is done and the page has all of it: what is published before a
\* run is done is published before the last look, which is taken after the check.
THEOREM StreamsAreComplete == DashSpec => []StreamComplete
<1>1. DashInit => DashInv
  BY DEF DashInit, DashInv, DashType, RunsTrue, PageTrue, At, Jobs, Places
<1>2. DashInv /\ [DashNext]_dashVars => DashInv'
  <2>1. SUFFICES ASSUME DashInv, [DashNext]_dashVars PROVE DashInv'
    OBVIOUS
  <2>2. CASE UNCHANGED dashVars
    BY <2>1, <2>2 DEF dashVars, DashInv, DashType, RunsTrue, PageTrue, At
  <2>3. QED
    BY <2>1, <2>2, RunStep, PageStep DEF DashNext
<1>3. DashInv => StreamComplete
  BY DEF DashInv, PageTrue, StreamComplete
<1>4. QED
  BY <1>1, <1>2, <1>3, PTL DEF DashSpec

-----------------------------------------------------------------------------
(* The emergency log.                                                      *)

\* The records after lo, up to hi.
Records(lo, hi) == [i \in 1 .. hi - lo |-> lo + i]

\* The files, from the oldest to the newest, cut what is kept at the bounds b.
Cuts(b) ==
    /\ b \in [0 .. BackupCount + 1 -> 0 .. emitted]
    /\ b[BackupCount + 1] = emitted
    /\ \A j, k \in 0 .. BackupCount + 1 : j <= k => b[j] <= b[k]
    /\ \A k \in 1 .. BackupCount + 1 : file[BackupCount + 1 - k] = Records(b[k - 1], b[k])

\* The place a file is renamed to is free.
EmergencyInv ==
    /\ emitted \in Nat /\ moving \in Files /\ DOMAIN file = Files
    /\ moving # Still => file[moving + 1] = << >>
    /\ \E b : Cuts(b)

LEMMA RecordsAre ==
    ASSUME NEW lo \in Nat, NEW hi \in Nat, lo <= hi
    PROVE  /\ Records(lo, hi) \in Seq(Nat) /\ Len(Records(lo, hi)) = hi - lo
           /\ Records(lo, hi) = << >> <=> lo = hi
           /\ Append(Records(lo, hi), hi + 1) = Records(lo, hi + 1)
<1>1. hi - lo \in Nat
  OBVIOUS
<1>2. Records(lo, hi) \in Seq(Nat) /\ Len(Records(lo, hi)) = hi - lo
  BY <1>1 DEF Records
<1>3. Records(lo, hi) = << >> <=> lo = hi
  <2>1. Records(lo, hi) = << >> <=> Len(Records(lo, hi)) = 0
    BY <1>2
  <2>2. QED
    BY <1>2, <2>1
<1>4. Append(Records(lo, hi), hi + 1) = Records(lo, hi + 1)
  <2>1. hi + 1 - lo = (hi - lo) + 1 /\ lo + ((hi - lo) + 1) = hi + 1
    OBVIOUS
  <2>2. QED
    BY <1>1, <2>1 DEF Records
<1>5. QED
  BY <1>2, <1>3, <1>4

LEMMA RecordsJoin ==
    ASSUME NEW n \in Nat, NEW lo \in Nat, NEW hi \in Nat, n <= lo, lo <= hi
    PROVE  Records(n, lo) \o Records(lo, hi) = Records(n, hi)
<1>0. Records(lo, hi) \in Seq(Nat) /\ Len(Records(lo, hi)) = hi - lo
  BY RecordsAre
<1>1. lo - n \in Nat /\ (lo - n) + (hi - lo) = hi - n
  OBVIOUS
<1>2. \A i \in 1 .. (hi - n) : i > lo - n => lo + (i - (lo - n)) = n + i
  OBVIOUS
<1>3. Records(n, lo) \in Seq(Nat) /\ Len(Records(n, lo)) = lo - n
  BY <1>1 DEF Records
<1> DEFINE s == Records(n, lo) \o Records(lo, hi)
<1>4. s \in Seq(Nat) /\ Len(s) = hi - n
  <2>1. PICK x \in Seq(Nat), y \in Seq(Nat) : x = Records(n, lo) /\ y = Records(lo, hi)
    BY <1>0, <1>3
  <2>2. x \o y \in Seq(Nat) /\ Len(x \o y) = Len(x) + Len(y)
    OBVIOUS
  <2>3. Len(x) + Len(y) = hi - n
    BY <1>0, <1>1, <1>3, <2>1
  <2>4. QED
    BY <2>1, <2>2, <2>3
<1>5. \A i \in 1 .. (hi - n) : s[i] = n + i
  <2>1. SUFFICES ASSUME NEW i \in 1 .. (hi - n) PROVE s[i] = n + i
    OBVIOUS
  <2>2. CASE i <= lo - n
    <3>1. i \in 1 .. (lo - n)
      BY <1>1, <2>2
    <3>2. Records(n, lo)[i] = n + i
      BY <3>1 DEF Records
    <3>3. QED
      BY <1>0, <1>3, <3>1, <3>2
  <2>3. CASE i > lo - n
    <3>1. i - (lo - n) \in 1 .. (hi - lo)
      BY <1>1, <2>3
    <3>2. Records(lo, hi)[i - (lo - n)] = n + i
      BY <1>2, <2>3, <3>1 DEF Records
    <3>3. s[i] = Records(lo, hi)[i - (lo - n)]
      BY <1>0, <1>1, <1>3, <2>3
    <3>4. QED
      BY <3>2, <3>3
  <2>4. i <= lo - n \/ i > lo - n
    BY <1>1
  <2> HIDE DEF s
  <2>5. QED
    BY <2>2, <2>3, <2>4
<1>6. Records(n, hi) \in Seq(Nat) /\ Len(Records(n, hi)) = hi - n
  BY <1>1 DEF Records
<1> HIDE DEF s
<1>7. s = Records(n, hi)
  <2>1. \A i \in 1 .. (hi - n) : Records(n, hi)[i] = n + i
    BY DEF Records
  <2>2. QED
    BY <1>4, <1>5, <1>6, <2>1
<1>8. QED
  BY <1>7 DEF s

\* Pieces that follow each other make one piece.
LEMMA FlattenIs ==
    ASSUME NEW n \in Nat \ {0}, NEW s \in Seq(Seq(Nat)), Len(s) = n,
           NEW c \in [0 .. n -> Nat],
           \A j, k \in 0 .. n : j <= k => c[j] <= c[k],
           \A k \in 1 .. n : s[k] = Records(c[k - 1], c[k])
    PROVE  FlattenSeq(s) = Records(c[0], c[n])
<1> DEFINE Evaluates(g) ==
             g = [i \in 1 .. Len(s) |-> IF i = 1 THEN s[i] ELSE g[i - 1] \o s[i]]
           h == CHOOSE g : Evaluates(g)
           f == [i \in 1 .. n |-> Records(c[0], c[i])]
<1>1. FlattenSeq(s) = h[n]
  BY DEF FlattenSeq
<1>2. \A i \in 1 .. n : Records(c[0], c[i]) = IF i = 1 THEN s[i] ELSE Records(c[0], c[i - 1]) \o s[i]
  <2>0. s[1] = Records(c[0], c[1])
    <3>1. 1 \in 1 .. n /\ 1 - 1 = 0
      OBVIOUS
    <3>2. QED
      BY <3>1
  <2>1. SUFFICES ASSUME NEW i \in 1 .. n, i # 1
                 PROVE  Records(c[0], c[i]) = Records(c[0], c[i - 1]) \o s[i]
    BY <2>0
  <2>2. i \in 0 .. n /\ i - 1 \in 0 .. n /\ 0 \in 0 .. n /\ 0 <= i - 1 /\ i - 1 <= i
    BY <2>1
  <2>3. c[0] \in Nat /\ c[i - 1] \in Nat /\ c[i] \in Nat /\ c[0] <= c[i - 1] /\ c[i - 1] <= c[i]
    BY <2>2
  <2>4. Records(c[0], c[i - 1]) \o Records(c[i - 1], c[i]) = Records(c[0], c[i])
    <3>1. PICK x \in Nat, y \in Nat, z \in Nat : x = c[0] /\ y = c[i - 1] /\ z = c[i] /\ x <= y /\ y <= z
      BY <2>3
    <3>2. Records(x, y) \o Records(y, z) = Records(x, z)
      BY <3>1, RecordsJoin, ZenonT(60)
    <3>3. QED
      BY <3>1, <3>2
  <2>5. QED
    BY <2>4
<1>3. Evaluates(f)
  <2>1. \A i \in 1 .. n : i # 1 => i - 1 \in 1 .. n
    OBVIOUS
  <2>2. f = [i \in 1 .. n |-> IF i = 1 THEN s[i] ELSE f[i - 1] \o s[i]]
    BY <1>2, <2>1
  <2>3. QED
    BY <2>2
<1>4. Evaluates(h)
  <2> HIDE DEF f, Evaluates
  <2> QED BY <1>3
<1> HIDE DEF h
<1>5. /\ \A i \in 1 .. n : h[i] = IF i = 1 THEN s[i] ELSE h[i - 1] \o s[i]
  BY <1>4
<1>6. \A i \in 1 .. n : h[i] = Records(c[0], c[i])
  <2> DEFINE S == {i \in 1 .. n : h[i] # Records(c[0], c[i])}
  <2>1. SUFFICES ASSUME S # {} PROVE FALSE
    OBVIOUS
  <2>2. S \subseteq 0 .. n
    OBVIOUS
  <2>3. PICK i \in S : \A y \in S : i <= y
    <3> HIDE DEF S
    <3> QED BY <2>1, <2>2, SmallestOf
  <2>4. i \in 1 .. n /\ i \in Int
    BY <2>3
  <2>5. i = 1 \/ h[i - 1] = Records(c[0], c[i - 1])
    <3>1. SUFFICES ASSUME i # 1 PROVE i - 1 \in 1 .. n /\ i - 1 \notin S
      OBVIOUS
    <3>2. QED
      BY <2>3, <2>4, <3>1
  <2> HIDE DEF S, f, Evaluates
  <2>6. h[i] = Records(c[0], c[i])
    <3>1. h[i] = IF i = 1 THEN s[i] ELSE h[i - 1] \o s[i]
      BY <1>5, <2>4
    <3>2. Records(c[0], c[i]) = IF i = 1 THEN s[i] ELSE Records(c[0], c[i - 1]) \o s[i]
      BY <1>2, <2>4
    <3>3. CASE i = 1
      BY <3>1, <3>2, <3>3
    <3>4. CASE i # 1
      <4>1. h[i - 1] = Records(c[0], c[i - 1])
        BY <2>5, <3>4
      <4>2. QED
        BY <3>1, <3>2, <3>4, <4>1
    <3>5. QED
      BY <3>3, <3>4
  <2>7. QED
    BY <2>3, <2>6 DEF S
<1>7. QED
  BY <1>1, <1>6

LEMMA KeptIs ==
    ASSUME EmergencyInv
    PROVE  NewestKept
<1>1. PICK b : Cuts(b)
  BY DEF EmergencyInv
<1> DEFINE n == BackupCount + 1
           s == [k \in 1 .. n |-> file[n - k]]
<1>2. n \in Nat \ {0} /\ emitted \in Nat
  BY LogAssumption DEF EmergencyInv
<1>3. b \in [0 .. n -> Nat] /\ b[0] \in 0 .. emitted /\ b[n] = emitted
  <2>1. 0 .. emitted \subseteq Nat /\ 0 \in 0 .. n
    BY <1>2
  <2>2. QED
    BY <1>1, <2>1 DEF Cuts
<1>4. \A k \in 1 .. n : s[k] = Records(b[k - 1], b[k])
  <2>1. \A k \in 1 .. n : n - k = BackupCount + 1 - k
    BY LogAssumption
  <2>2. QED
    BY <1>1, <2>1 DEF Cuts
<1>5. \A k \in 1 .. n : s[k] \in Seq(Nat)
  <2>1. SUFFICES ASSUME NEW k \in 1 .. n PROVE Records(b[k - 1], b[k]) \in Seq(Nat)
    BY <1>4
  <2>2. k - 1 \in 0 .. n /\ k \in 0 .. n /\ k - 1 <= k
    BY <1>2
  <2>3. b[k - 1] \in Nat /\ b[k] \in Nat /\ b[k - 1] <= b[k]
    BY <1>1, <1>3, <2>2 DEF Cuts
  <2>4. QED
    BY <2>3, RecordsAre
<1>6. s \in Seq(Seq(Nat)) /\ Len(s) = n
  <2>1. s \in [1 .. n -> Seq(Nat)]
    <3>1. s = [k \in 1 .. n |-> s[k]]
      OBVIOUS
    <3> HIDE DEF s, n
    <3>2. QED
      BY <1>5, <3>1
  <2> HIDE DEF s, n
  <2>2. QED
    BY <1>2, <2>1
<1>7. \A j, k \in 0 .. n : j <= k => b[j] <= b[k]
  BY <1>1 DEF Cuts
<1>8. FlattenSeq(s) = Records(b[0], b[n])
  <2> HIDE DEF s, n
  <2> QED BY <1>2, <1>3, <1>4, <1>6, <1>7, FlattenIs
<1>9. Kept = FlattenSeq(s)
  <2>1. \A k \in 1 .. n : n - k = BackupCount + 1 - k
    BY LogAssumption
  <2>2. [k \in 1 .. n |-> file[BackupCount + 1 - k]] = s
    BY <2>1
  <2>3. QED
    BY <2>2 DEF Kept
<1>10. QED
  BY <1>3, <1>8, <1>9 DEF NewestKept, Records

\* A record more is a record more of the newest piece.
LEMMA WriteKeeps ==
    ASSUME EmergencyInv, WriteRecord
    PROVE  EmergencyInv'
<1> DEFINE n == BackupCount + 1
<1>1. PICK b : Cuts(b)
  BY DEF EmergencyInv
<1>2. /\ emitted \in Nat /\ BackupCount \in Nat /\ n \in Nat /\ n # 0 /\ moving = Still
      /\ emitted' = emitted + 1 /\ moving' = moving
      /\ file' = [file EXCEPT ![0] = Append(@, emitted + 1)] /\ 0 \in Files /\ DOMAIN file = Files
  BY LogAssumption DEF EmergencyInv, WriteRecord, Files
<1>3. /\ b \in [0 .. n -> 0 .. emitted] /\ b[n] = emitted
      /\ \A j, k \in 0 .. n : j <= k => b[j] <= b[k]
      /\ \A k \in 1 .. n : file[BackupCount + 1 - k] = Records(b[k - 1], b[k])
  BY <1>1 DEF Cuts
<1>4. PICK c : c = [b EXCEPT ![n] = emitted + 1] /\ \A k \in 0 .. n : c[k] = IF k = n THEN emitted + 1 ELSE b[k]
  <2>1. PICK c : c = [b EXCEPT ![n] = emitted + 1]
    OBVIOUS
  <2> HIDE DEF n
  <2>2. \A k \in 0 .. n : c[k] = IF k = n THEN emitted + 1 ELSE b[k]
    BY <1>3, <2>1
  <2>3. QED
    BY <2>1, <2>2
<1>5. \A k \in 0 .. n : b[k] \in Nat /\ b[k] <= emitted
  BY <1>2, <1>3
<1>6. c \in [0 .. n -> 0 .. emitted'] /\ c[n] = emitted'
  <2>1. 0 .. emitted \subseteq 0 .. emitted + 1 /\ emitted + 1 \in 0 .. emitted + 1 /\ n \in 0 .. n
    BY <1>2
  <2> HIDE DEF n
  <2>2. b \in [0 .. n -> 0 .. emitted + 1]
    BY <1>3, <2>1
  <2>3. QED
    BY <1>2, <1>4, <2>1, <2>2
<1>7. ASSUME NEW j \in 0 .. n, NEW k \in 0 .. n, j <= k PROVE c[j] <= c[k]
  <2> HIDE DEF n
  <2>1. b[j] <= b[k] /\ b[j] <= emitted /\ b[j] \in Nat /\ b[k] \in Nat
    BY <1>3, <1>5, <1>7
  <2>2. j = n => k = n
    BY <1>2, <1>7
  <2>3. QED
    BY <1>2, <1>4, <2>1, <2>2
<1>8. ASSUME NEW k \in 1 .. n PROVE file'[BackupCount + 1 - k] = Records(c[k - 1], c[k])
  <2>1. k - 1 \in 0 .. n /\ k \in 0 .. n /\ k - 1 # n /\ k - 1 <= k
    BY <1>2
  <2>2. c[k - 1] = b[k - 1]
    BY <1>4, <2>1
  <2>3. CASE k = n
    <3>1. BackupCount + 1 - k = 0
      BY <1>2, <2>3
    <3>2. file[0] = Records(b[k - 1], emitted) /\ b[k - 1] \in Nat /\ b[k - 1] <= emitted
      BY <1>3, <1>5, <2>1, <2>3, <3>1
    <3>3. Append(Records(b[k - 1], emitted), emitted + 1) = Records(b[k - 1], emitted + 1)
      <4>1. PICK x \in Nat : x = b[k - 1]
        BY <3>2
      <4>2. Append(Records(x, emitted), emitted + 1) = Records(x, emitted + 1)
        BY <1>2, <3>2, <4>1, RecordsAre
      <4>3. QED
        BY <4>1, <4>2
    <3>4. file'[0] = Append(file[0], emitted + 1)
      BY <1>2
    <3>5. c[k] = emitted + 1
      BY <1>4, <2>1, <2>3
    <3>6. QED
      BY <2>2, <3>1, <3>2, <3>3, <3>4, <3>5
  <2>4. CASE k # n
    <3>1. BackupCount + 1 - k # 0 /\ BackupCount + 1 - k \in Files
      BY <1>2, <2>4 DEF Files
    <3>2. file'[BackupCount + 1 - k] = file[BackupCount + 1 - k]
      BY <1>2, <3>1
    <3>3. c[k] = b[k]
      BY <1>4, <2>1, <2>4
    <3>4. QED
      BY <1>3, <2>2, <3>2, <3>3
  <2>5. QED
    BY <2>3, <2>4
<1>9. \E x : Cuts(x)'
  <2>1. Cuts(c)'
    BY <1>6, <1>7, <1>8 DEF Cuts
  <2>2. QED
    BY <2>1
<1>10. QED
  BY <1>2, <1>9 DEF EmergencyInv

\* The oldest file goes, and what it held is the oldest of what was kept.
LEMMA RotateKeeps ==
    ASSUME EmergencyInv, Rotate
    PROVE  EmergencyInv'
<1> DEFINE n == BackupCount + 1
<1>1. PICK b : Cuts(b)
  BY DEF EmergencyInv
<1>2. /\ emitted \in Nat /\ BackupCount \in Nat /\ BackupCount # 0 /\ n \in Nat /\ n # 0 /\ moving = Still
      /\ emitted' = emitted /\ moving' = BackupCount - 1 /\ moving' \in Files /\ moving' + 1 = BackupCount
      /\ file' = [file EXCEPT ![BackupCount] = << >>] /\ BackupCount \in Files /\ DOMAIN file = Files
  BY LogAssumption DEF EmergencyInv, Rotate, Files
<1>3. /\ b \in [0 .. n -> 0 .. emitted] /\ b[n] = emitted
      /\ \A j, k \in 0 .. n : j <= k => b[j] <= b[k]
      /\ \A k \in 1 .. n : file[BackupCount + 1 - k] = Records(b[k - 1], b[k])
  BY <1>1 DEF Cuts
<1> DEFINE c == [b EXCEPT ![0] = b[1]]
<1>4. \A k \in 0 .. n : c[k] = IF k = 0 THEN b[1] ELSE b[k]
  BY <1>3
<1>5. c \in [0 .. n -> 0 .. emitted'] /\ c[n] = emitted' /\ 1 \in 0 .. n /\ 0 \in 0 .. n /\ n \in 0 .. n
  BY <1>2, <1>3
<1> HIDE DEF c
<1>6. ASSUME NEW j \in 0 .. n, NEW k \in 0 .. n, j <= k PROVE c[j] <= c[k]
  <2>1. CASE j = 0 /\ k = 0
    <3>1. c[j] = c[k] /\ c[j] \in Nat
      BY <1>2, <1>3, <1>4, <1>5, <2>1
    <3>2. QED
      BY <3>1
  <2>2. CASE j = 0 /\ k # 0
    <3>1. 1 <= k
      BY <1>2, <2>2
    <3>2. QED
      BY <1>3, <1>4, <1>5, <2>2, <3>1
  <2>3. CASE j # 0
    <3>1. k # 0
      BY <1>2, <1>6, <2>3
    <3>2. QED
      BY <1>3, <1>4, <1>6, <2>3, <3>1
  <2>4. QED
    BY <2>1, <2>2, <2>3
<1>7. ASSUME NEW k \in 1 .. n PROVE file'[BackupCount + 1 - k] = Records(c[k - 1], c[k])
  <2>1. k - 1 \in 0 .. n /\ k \in 0 .. n /\ k # 0 /\ c[k] = b[k]
    BY <1>2, <1>4
  <2>2. CASE k = 1
    <3>1. BackupCount + 1 - k = BackupCount /\ k - 1 = 0
      BY <1>2, <2>2
    <3>2. file'[BackupCount] = << >> /\ c[0] = b[1] /\ b[1] \in Nat
      BY <1>2, <1>3, <1>4, <1>5
    <3>3. Records(b[1], b[1]) = << >>
      <4>1. PICK x \in Nat : x = b[1]
        BY <3>2
      <4>2. Records(x, x) = << >>
        BY RecordsAre
      <4>3. QED
        BY <4>1, <4>2
    <3>4. QED
      BY <2>1, <2>2, <3>1, <3>2, <3>3
  <2>3. CASE k # 1
    <3>1. BackupCount + 1 - k # BackupCount /\ BackupCount + 1 - k \in Files /\ k - 1 # 0
      BY <1>2, <2>3 DEF Files
    <3>2. file'[BackupCount + 1 - k] = file[BackupCount + 1 - k] /\ c[k - 1] = b[k - 1]
      BY <1>2, <1>4, <2>1, <3>1
    <3>3. QED
      BY <1>3, <2>1, <3>2
  <2>4. QED
    BY <2>2, <2>3
<1>8. \E x : Cuts(x)'
  <2>1. Cuts(c)'
    BY <1>5, <1>6, <1>7 DEF Cuts
  <2>2. QED
    BY <2>1
<1>9. file'[moving' + 1] = << >> /\ DOMAIN file' = Files
  BY <1>2
<1>10. QED
  BY <1>2, <1>8, <1>9 DEF EmergencyInv

\* A file moves to the place that is free, past nothing.
LEMMA RenameKeeps ==
    ASSUME EmergencyInv, Rename
    PROVE  EmergencyInv'
<1> DEFINE n == BackupCount + 1
           free == BackupCount - moving
<1>1. PICK b : Cuts(b)
  BY DEF EmergencyInv
<1>2. /\ emitted \in Nat /\ BackupCount \in Nat /\ BackupCount # 0 /\ n \in Nat
      /\ moving \in Nat /\ moving < BackupCount /\ moving \in Files /\ moving + 1 \in Files
      /\ emitted' = emitted /\ DOMAIN file = Files /\ file[moving + 1] = << >>
      /\ moving' \in Files /\ (moving' # Still => moving # 0 /\ moving' + 1 = moving)
  <2>1. /\ emitted \in Nat /\ BackupCount \in Nat /\ BackupCount # 0 /\ moving \in 0 .. BackupCount
        /\ moving # BackupCount /\ DOMAIN file = Files /\ file[moving + 1] = << >> /\ emitted' = emitted
        /\ moving' = IF moving = 0 THEN BackupCount ELSE moving - 1
    BY LogAssumption DEF EmergencyInv, Rename, Files, Still
  <2>2. QED
    BY <2>1 DEF Files, Still
<1>3. /\ b \in [0 .. n -> 0 .. emitted] /\ b[n] = emitted
      /\ \A j, k \in 0 .. n : j <= k => b[j] <= b[k]
      /\ \A k \in 1 .. n : file[BackupCount + 1 - k] = Records(b[k - 1], b[k])
  BY <1>1 DEF Cuts
<1>4. CASE file[moving] = << >>
  <2>1. file' = file
    BY <1>4 DEF Rename
  <2>2. Cuts(b)'
    BY <1>1, <1>2, <2>1 DEF Cuts
  <2>3. \E x : Cuts(x)'
    BY <2>2
  <2>4. QED
    BY <1>2, <1>4, <2>1, <2>3 DEF EmergencyInv
<1>5. CASE file[moving] # << >>
  <2>1. file' = [file EXCEPT ![moving + 1] = file[moving], ![moving] = << >>]
    BY <1>5 DEF Rename
  <2>2. /\ file'[moving + 1] = file[moving] /\ file'[moving] = << >> /\ DOMAIN file' = Files
        /\ \A f \in Files : f # moving /\ f # moving + 1 => file'[f] = file[f]
    BY <1>2, <2>1
  <2>3. /\ free \in 1 .. n /\ free \in 0 .. n /\ free + 1 \in 1 .. n /\ free + 1 \in 0 .. n /\ free - 1 \in 0 .. n
        /\ BackupCount + 1 - free = moving + 1 /\ BackupCount + 1 - (free + 1) = moving
        /\ (free + 1) - 1 = free /\ free # n /\ free - 1 <= free /\ free <= free + 1
    BY <1>2
  <2> HIDE DEF free
  <2>4. \A k \in 0 .. n : b[k] \in Nat
    <3>1. 0 .. emitted \subseteq Nat
      BY <1>2
    <3> HIDE DEF n
    <3>2. QED
      BY <1>3, <3>1
  <2>5. b[free - 1] = b[free]
    <3>1. file[moving + 1] = Records(b[free - 1], b[free])
      BY <1>3, <2>3
    <3>2. PICK x \in Nat, y \in Nat : x = b[free - 1] /\ y = b[free] /\ x <= y
      BY <1>3, <2>3, <2>4
    <3>3. Records(x, y) = << >>
      BY <1>2, <3>1, <3>2
    <3>4. x = y
      BY <3>2, <3>3, RecordsAre
    <3>5. QED
      BY <3>2, <3>4
  <2>6. PICK c : c = [b EXCEPT ![free] = b[free + 1]]
    OBVIOUS
  <2> HIDE DEF n
  <2>7. \A k \in 0 .. n : c[k] = IF k = free THEN b[free + 1] ELSE b[k]
    BY <1>3, <2>6
  <2>8. c \in [0 .. n -> 0 .. emitted'] /\ c[n] = emitted'
    <3>1. b[free + 1] \in 0 .. emitted /\ n \in 0 .. n
      BY <1>2, <1>3, <2>3
    <3>2. QED
      BY <1>2, <1>3, <2>3, <2>6, <2>7, <3>1
  <2>9. ASSUME NEW j \in 0 .. n, NEW k \in 0 .. n, j <= k PROVE c[j] <= c[k]
    <3>1. CASE j = free /\ k = free
      BY <2>3, <2>4, <2>7, <3>1
    <3>2. CASE j = free /\ k # free
      <4>1. free + 1 <= k
        BY <1>2, <2>3, <2>9, <3>2
      <4>2. QED
        BY <1>3, <2>3, <2>7, <3>2, <4>1
    <3>3. CASE j # free /\ k = free
      <4>1. j <= free + 1
        BY <1>2, <2>3, <2>9, <3>3
      <4>2. QED
        BY <1>3, <2>3, <2>7, <3>3, <4>1
    <3>4. CASE j # free /\ k # free
      BY <1>3, <2>7, <2>9, <3>4
    <3>5. QED
      BY <3>1, <3>2, <3>3, <3>4
  <2>10. ASSUME NEW k \in 1 .. n PROVE file'[BackupCount + 1 - k] = Records(c[k - 1], c[k])
    <3>1. k \in 0 .. n /\ k - 1 \in 0 .. n /\ k \in Nat /\ BackupCount + 1 - k \in Files
      BY <1>2 DEF Files, n
    <3>2. CASE k = free
      <4>1. c[k - 1] = b[free] /\ c[k] = b[free + 1]
        <5>1. free - 1 # free
          BY <2>3
        <5>2. QED
          BY <2>3, <2>5, <2>7, <3>2, <5>1
      <4>2. file[moving] = Records(b[free], b[free + 1])
        BY <1>3, <2>3
      <4>3. QED
        BY <2>2, <2>3, <3>2, <4>1, <4>2
    <3>3. CASE k = free + 1
      <4>1. c[k - 1] = b[free + 1] /\ c[k] = b[free + 1]
        <5>1. free + 1 # free
          BY <2>3
        <5>2. QED
          BY <2>3, <2>7, <3>3, <5>1
      <4>2. PICK x \in Nat : x = b[free + 1]
        BY <2>3, <2>4
      <4>3. Records(x, x) = << >>
        BY RecordsAre
      <4>4. QED
        BY <2>2, <2>3, <3>3, <4>1, <4>2, <4>3
    <3>4. CASE k # free /\ k # free + 1
      <4>1. BackupCount + 1 - k # moving /\ BackupCount + 1 - k # moving + 1 /\ k - 1 # free
        BY <1>2, <2>3, <3>1, <3>4
      <4>2. QED
        BY <1>3, <2>2, <2>7, <3>1, <3>4, <4>1
    <3>5. QED
      BY <3>2, <3>3, <3>4
  <2>11. \E x : Cuts(x)'
    <3>1. Cuts(c)'
      BY <2>8, <2>9, <2>10 DEF Cuts, n
    <3>2. QED
      BY <3>1
  <2>12. QED
    BY <1>2, <2>2, <2>11 DEF EmergencyInv
<1>6. QED
  BY <1>4, <1>5

\* Whatever is rotated away, and wherever a rotation is cut short: what is kept are
\* the newest records, each once and in order.  A file is renamed to a place
\* that is empty or was just renamed itself, the only gap there is.
THEOREM NewestAreKept == LogSpec => []NewestKept
<1>1. LogInit => EmergencyInv
  <2>1. SUFFICES ASSUME LogInit PROVE EmergencyInv
    OBVIOUS
  <2> DEFINE n == BackupCount + 1
  <2>2. PICK b : b = [k \in 0 .. n |-> 0]
    OBVIOUS
  <2>3. Records(0, 0) = << >>
    BY RecordsAre
  <2>4. BackupCount \in Nat /\ emitted = 0 /\ \A k \in 1 .. n : BackupCount + 1 - k \in Files /\ k - 1 \in 0 .. n /\ k \in 0 .. n
    BY <2>1, LogAssumption DEF LogInit, Files
  <2>5. Cuts(b)
    BY <2>1, <2>2, <2>3, <2>4 DEF Cuts, LogInit
  <2>6. QED
    BY <2>1, <2>4, <2>5 DEF EmergencyInv, LogInit, Files, Still
<1>2. EmergencyInv /\ [LogNext]_logVars => EmergencyInv'
  <2>1. SUFFICES ASSUME EmergencyInv, [LogNext]_logVars PROVE EmergencyInv'
    OBVIOUS
  <2>2. CASE UNCHANGED logVars
    BY <2>1, <2>2 DEF logVars, EmergencyInv, Cuts
  <2>3. CASE EndOfProcess
    <3>1. PICK b : Cuts(b)
      BY <2>1 DEF EmergencyInv
    <3>2. Cuts(b)'
      BY <2>3, <3>1 DEF EndOfProcess, Cuts
    <3>3. \E x : Cuts(x)'
      BY <3>2
    <3>4. QED
      BY <2>1, <2>3, <3>3, LogAssumption DEF EndOfProcess, EmergencyInv, Still, Files
  <2>4. QED
    BY <2>1, <2>2, <2>3, WriteKeeps, RotateKeeps, RenameKeeps DEF LogNext
<1>3. EmergencyInv => NewestKept
  BY KeptIs
<1>4. QED
  BY <1>1, <1>2, <1>3, PTL DEF LogSpec

-----------------------------------------------------------------------------
(* The Blackboard's stream: the offsets that are wanted, as they come.     *)

\* s lists the set x of offsets in their order, each once.
Lists(s, x) ==
    /\ s \in Seq(Nat) /\ Range(s) = x
    /\ \A i, j \in DOMAIN s : i < j => s[i] < s[j]

Joined(some, i, x) == IF i \in x THEN Append(some, i) ELSE some

\* g is the recursive function InOrder is evaluated by, on the first n offsets.
JoinsTo(g, x, n) ==
    g = [s \in SUBSET (1 .. n) |-> IF s = {} THEN << >> ELSE Joined(g[s \ {Max(s)}], Max(s), x)]

LEMMA JoinExtends ==
    ASSUME NEW n \in Nat, n # 0, NEW x, NEW h, JoinsTo(h, x, n - 1)
    PROVE  \E g : JoinsTo(g, x, n)
<1> DEFINE g == [s \in SUBSET (1 .. n) |->
                    IF s = {} THEN << >> ELSE Joined(h[s \ {Max(s)}], Max(s), x)]
<1>1. \A s \in SUBSET (1 .. (n - 1)) : g[s] = h[s]
  <2>1. SUBSET (1 .. (n - 1)) \subseteq SUBSET (1 .. n)
    OBVIOUS
  <2>2. QED
    BY <2>1 DEF JoinsTo
<1>2. \A s \in SUBSET (1 .. n) : s # {} => s \ {Max(s)} \in SUBSET (1 .. (n - 1))
  <2>1. SUFFICES ASSUME NEW s \in SUBSET (1 .. n), s # {}, NEW y \in s, y # Max(s)
                 PROVE  y \in 1 .. (n - 1)
    OBVIOUS
  <2>2. Max(s) \in s /\ Max(s) >= y
    BY <2>1, MaxOf
  <2>3. Max(s) \in 1 .. n /\ y \in 1 .. n
    BY <2>2
  <2>4. QED
    BY <2>1, <2>2, <2>3
<1>3. \A s \in SUBSET (1 .. n) : s # {} => g[s \ {Max(s)}] = h[s \ {Max(s)}]
  BY <1>1, <1>2
<1>4. JoinsTo(g, x, n)
  BY <1>3 DEF JoinsTo
<1>5. QED
  BY <1>4

LEMMA JoinExists ==
    ASSUME NEW n \in Nat, NEW x
    PROVE  \E g : JoinsTo(g, x, n)
<1> DEFINE S == {k \in 0 .. n : ~ \E g : JoinsTo(g, x, k)}
<1>1. SUFFICES ASSUME S # {} PROVE FALSE
  OBVIOUS
<1>2. PICK k \in S : \A y \in S : k <= y
  <2>1. S \subseteq 0 .. n
    OBVIOUS
  <2> HIDE DEF S
  <2>2. QED
    BY <1>1, <2>1, SmallestOf
<1>3. k # 0
  <2>1. SUBSET (1 .. 0) = {{}}
    OBVIOUS
  <2>2. JoinsTo([s \in SUBSET (1 .. 0) |-> << >>], x, 0)
    BY <2>1 DEF JoinsTo
  <2>3. QED
    BY <2>2
<1>4. k \in Nat /\ k - 1 \in 0 .. n /\ k - 1 \notin S
  BY <1>2, <1>3
<1>5. PICK h : JoinsTo(h, x, k - 1)
  BY <1>4
<1>6. \E g : JoinsTo(g, x, k)
  BY <1>3, <1>4, <1>5, JoinExtends
<1>7. QED
  BY <1>6

\* The fold of the community modules, offset by offset.
LEMMA InOrderAlong ==
    ASSUME NEW n \in Nat, DOMAIN log = 1 .. n, NEW x
    PROVE  \E V : /\ V[0] = << >> /\ V[n] = InOrder(x)
                 /\ \A k \in 1 .. n : V[k] = Joined(V[k - 1], k, x)
<1> DEFINE ids == [i \in DOMAIN log |-> i]
           Evaluates(g) ==
             g = [s \in SUBSET (DOMAIN ids) |->
                    IF s = {} THEN << >>
                    ELSE IF ids[Max(s)] \in x THEN Append(g[s \ {Max(s)}], ids[Max(s)])
                         ELSE g[s \ {Max(s)}]]
           g == CHOOSE f : Evaluates(f)
<1>1. InOrder(x) = g[DOMAIN ids]
  BY DEF InOrder, FoldLeft, MapThenFoldSet
<1>2. DOMAIN ids = 1 .. n
  OBVIOUS
<1>3. \A s \in SUBSET (1 .. n) : s # {} => ids[Max(s)] = Max(s)
  <2>1. \A s \in SUBSET (1 .. n) : s # {} => Max(s) \in 1 .. n
    BY MaxOf
  <2>2. QED
    BY <2>1
<1>4. \A f : JoinsTo(f, x, n) <=> Evaluates(f)
  <2>1. SUFFICES ASSUME NEW f PROVE JoinsTo(f, x, n) <=> Evaluates(f)
    OBVIOUS
  <2>2. [s \in SUBSET (1 .. n) |-> IF s = {} THEN << >> ELSE Joined(f[s \ {Max(s)}], Max(s), x)]
        = [s \in SUBSET (DOMAIN ids) |->
                    IF s = {} THEN << >>
                    ELSE IF ids[Max(s)] \in x THEN Append(f[s \ {Max(s)}], ids[Max(s)])
                         ELSE f[s \ {Max(s)}]]
    <3> HIDE DEF ids
    <3> QED
      BY <1>2, <1>3 DEF Joined
  <2>3. QED
    BY <2>2 DEF JoinsTo
<1>5. \E f : Evaluates(f)
  BY <1>4, JoinExists
<1>6. Evaluates(g)
  BY <1>5
<1>7. JoinsTo(g, x, n) /\ InOrder(x) = g[1 .. n]
  <2> HIDE DEF g, Evaluates
  <2> QED
    BY <1>1, <1>2, <1>4, <1>6
<1> HIDE DEF g, Evaluates
<1> DEFINE V == [k \in 0 .. n |-> g[1 .. k]]
<1>8. V[0] = << >>
  <2>1. 1 .. 0 = {} /\ {} \in SUBSET (1 .. n) /\ 0 \in 0 .. n
    OBVIOUS
  <2>2. g[{}] = << >>
    BY <1>7, <2>1 DEF JoinsTo
  <2>3. QED
    BY <2>1, <2>2
<1>9. ASSUME NEW k \in 1 .. n PROVE V[k] = Joined(V[k - 1], k, x)
  <2>1. 1 .. k \in SUBSET (1 .. n) /\ k \in 1 .. k /\ k \in Nat
    OBVIOUS
  <2>2. Max(1 .. k) = k
    <3>1. 1 .. k \subseteq Nat /\ \A y \in 1 .. k : y <= k
      BY <2>1
    <3>2. QED
      BY <2>1, <3>1, MaxIs
  <2>3. (1 .. k) \ {k} = 1 .. (k - 1)
    BY <2>1
  <2>4. g[1 .. k] = Joined(g[1 .. (k - 1)], k, x)
    BY <1>7, <2>1, <2>2, <2>3 DEF JoinsTo
  <2>5. k \in 0 .. n /\ k - 1 \in 0 .. n
    OBVIOUS
  <2>6. QED
    BY <2>4, <2>5
<1>10. V[n] = InOrder(x)
  BY <1>7
<1>11. QED
  BY <1>8, <1>9, <1>10

\* A list goes on with a larger offset.
LEMMA ListsMore ==
    ASSUME NEW s, NEW x, Lists(s, x), NEW k \in Nat, \A i \in x : i < k
    PROVE  Lists(Append(s, k), x \cup {k})
<1>1. s \in Seq(Nat) /\ Range(s) = x /\ Append(s, k) \in Seq(Nat) /\ Len(s) \in Nat
      /\ DOMAIN s = 1 .. Len(s) /\ DOMAIN Append(s, k) = 1 .. (Len(s) + 1)
  BY DEF Lists
<1>2. \A i \in 1 .. Len(s) : Append(s, k)[i] = s[i]
  BY <1>1
<1>3. Append(s, k)[Len(s) + 1] = k
  BY <1>1
<1>4. PICK t : t = Append(s, k)
  OBVIOUS
<1>5. \A i \in DOMAIN t : i \in DOMAIN s \/ i = Len(s) + 1
  BY <1>1, <1>4
<1>6. Range(t) = x \cup {k}
  <2>1. \A i \in DOMAIN t : t[i] \in x \cup {k}
    BY <1>1, <1>2, <1>3, <1>4, <1>5 DEF Range
  <2>2. \A y \in x : \E i \in DOMAIN t : t[i] = y
    <3>1. SUFFICES ASSUME NEW y \in x PROVE \E i \in DOMAIN t : t[i] = y
      OBVIOUS
    <3>2. PICK i \in DOMAIN s : s[i] = y
      BY <1>1 DEF Range
    <3>3. i \in DOMAIN t /\ t[i] = y
      BY <1>1, <1>2, <1>4, <3>2
    <3>4. QED
      BY <3>3
  <2>3. Len(s) + 1 \in DOMAIN t /\ t[Len(s) + 1] = k
    BY <1>1, <1>3, <1>4
  <2>4. QED
    BY <2>1, <2>2, <2>3 DEF Range
<1>7. ASSUME NEW i \in DOMAIN t, NEW j \in DOMAIN t, i < j PROVE t[i] < t[j]
  <2>1. i \in DOMAIN s
    BY <1>1, <1>4, <1>7
  <2>2. t[i] = s[i] /\ s[i] \in x
    BY <1>1, <1>2, <1>4, <2>1 DEF Range
  <2>3. CASE j \in DOMAIN s
    <3>1. t[j] = s[j]
      BY <1>1, <1>2, <1>4, <2>3
    <3>2. s[i] < s[j]
      BY <1>7, <2>1, <2>3 DEF Lists
    <3>3. QED
      BY <2>2, <3>1, <3>2
  <2>4. CASE j = Len(s) + 1
    BY <1>3, <1>4, <2>2, <2>4
  <2>5. QED
    BY <1>5, <2>3, <2>4
<1>8. QED
  BY <1>1, <1>4, <1>6, <1>7 DEF Lists

LEMMA InOrderLists ==
    ASSUME NEW n \in Nat, DOMAIN log = 1 .. n, NEW x \in SUBSET DOMAIN log
    PROVE  Lists(InOrder(x), x)
<1>1. PICK V : /\ V[0] = << >> /\ V[n] = InOrder(x)
               /\ \A k \in 1 .. n : V[k] = Joined(V[k - 1], k, x)
  BY InOrderAlong
<1> DEFINE Good(k) == Lists(V[k], x \cap (1 .. k))
           S == {k \in 0 .. n : ~ Good(k)}
<1>2. SUFFICES S = {}
  <2>1. n \in 0 .. n /\ x \cap (1 .. n) = x
    OBVIOUS
  <2>2. S = {} => Good(n)
    BY <2>1
  <2>3. QED
    BY <1>1, <2>1, <2>2
<1>3. SUFFICES ASSUME S # {} PROVE FALSE
  OBVIOUS
<1>4. PICK k \in S : \A y \in S : k <= y
  <2>1. S \subseteq 0 .. n
    OBVIOUS
  <2> HIDE DEF S
  <2>2. QED
    BY <1>3, <2>1, SmallestOf
<1>5. k \in 0 .. n /\ ~ Good(k)
  OBVIOUS
<1>6. k # 0
  <2>1. x \cap (1 .. 0) = {} /\ Lists(<< >>, {})
    BY DEF Lists, Range
  <2>2. QED
    BY <1>1, <1>5, <2>1
<1>7. PICK j \in 0 .. n : j = k - 1 /\ k \in 1 .. n /\ k \in Nat /\ 1 .. k = (1 .. j) \cup {k} /\ Good(j)
  <2>1. k \in 1 .. n /\ k - 1 \in 0 .. n /\ k \in Nat /\ 1 .. k = (1 .. (k - 1)) \cup {k}
    BY <1>5, <1>6
  <2>2. k - 1 \notin S
    <3> HIDE DEF S
    <3>1. SUFFICES ASSUME k - 1 \in S PROVE FALSE
      OBVIOUS
    <3>2. k <= k - 1
      BY <1>4, <3>1
    <3>3. QED
      BY <2>1, <3>2
  <2>3. Good(k - 1)
    BY <2>1, <2>2
  <2> HIDE DEF Good, S
  <2>4. QED
    BY <2>1, <2>3
<1>8. \A i \in x \cap (1 .. j) : i < k
  BY <1>7
<1>9. CASE k \in x
  <2>1. V[k] = Append(V[j], k)
    BY <1>1, <1>7, <1>9 DEF Joined
  <2>2. x \cap (1 .. k) = (x \cap (1 .. j)) \cup {k}
    BY <1>7, <1>9
  <2>3. Lists(Append(V[j], k), (x \cap (1 .. j)) \cup {k})
    <3> DEFINE y == x \cap (1 .. j)
    <3>1. Lists(V[j], y) /\ \A i \in y : i < k
      BY <1>7, <1>8
    <3> HIDE DEF y
    <3>2. Lists(Append(V[j], k), y \cup {k})
      BY <1>7, <3>1, ListsMore
    <3>3. QED
      BY <3>2 DEF y
  <2>4. QED
    BY <1>5, <2>1, <2>2, <2>3
<1>10. CASE k \notin x
  <2>1. V[k] = V[j]
    BY <1>1, <1>7, <1>10 DEF Joined
  <2>2. x \cap (1 .. k) = x \cap (1 .. j)
    BY <1>7, <1>10
  <2>3. QED
    BY <1>5, <1>7, <2>1, <2>2
<1>11. QED
  BY <1>9, <1>10

-----------------------------------------------------------------------------
(* Readers.                                                                *)

Wanted(r, lo, hi) == {i \in DOMAIN log : lo < i /\ i <= hi /\ log[i] \in Wants[r]}

StreamInv == log \in Seq(EventTypes)

\* A reader was given what it wants up to its last offset, and there is nothing
\* behind it while its thread waits.
ReaderTrue(r) ==
    /\ reader[r].last \in 0 .. Len(log)
    /\ Lists(given[r], Wanted(r, 0, reader[r].last))
    /\ reader[r].at = "waiting" => Wanted(r, reader[r].last, Len(log)) = {}

ReadersInv ==
    /\ StreamInv
    /\ reader \in [Readers -> [last : Nat, at : {"idle", "waiting", "woken"}]]
    /\ given \in [Readers -> Seq(Nat)]
    /\ \A r \in Readers : ReaderTrue(r)

LEMMA StreamIs ==
    ASSUME StreamInv
    PROVE  /\ Len(log) \in Nat /\ DOMAIN log = 1 .. Len(log)
  BY DEF StreamInv

LEMMA UnreadLists ==
    ASSUME ReadersInv, NEW r \in Readers
    PROVE  Lists(Unread(r), Wanted(r, reader[r].last, Len(log)))
<1>1. Len(log) \in Nat /\ DOMAIN log = 1 .. Len(log)
  BY StreamIs DEF ReadersInv
<1>2. {i \in DOMAIN log : i > reader[r].last /\ log[i] \in Wants[r]} = Wanted(r, reader[r].last, Len(log))
  <2>1. reader[r].last \in Nat
    BY DEF ReadersInv
  <2>2. QED
    BY <1>1, <2>1 DEF Wanted
<1>3. Wanted(r, reader[r].last, Len(log)) \in SUBSET DOMAIN log
  BY DEF Wanted
<1>4. QED
  BY <1>1, <1>2, <1>3, InOrderLists DEF Unread

\* A list is empty when its set is.
LEMMA ListsNone ==
    ASSUME NEW s, NEW x, Lists(s, x)
    PROVE  s = << >> <=> x = {}
<1>1. s \in Seq(Nat) /\ Range(s) = x
  BY DEF Lists
<1>2. s # << >> => 1 \in DOMAIN s
  BY <1>1
<1>3. s = << >> => Range(s) = {}
  BY DEF Range
<1>4. QED
  BY <1>1, <1>2, <1>3 DEF Range

\* Two lists make one, if the second goes on where the first ends.
LEMMA ListsJoin ==
    ASSUME NEW s, NEW x, Lists(s, x), NEW t, NEW y, Lists(t, y),
           \A i \in x, j \in y : i < j
    PROVE  Lists(s \o t, x \cup y)
<1>1. /\ s \in Seq(Nat) /\ Range(s) = x /\ Len(s) \in Nat /\ DOMAIN s = 1 .. Len(s)
      /\ t \in Seq(Nat) /\ Range(t) = y /\ Len(t) \in Nat /\ DOMAIN t = 1 .. Len(t)
  BY DEF Lists
<1>2. PICK u : u = s \o t
  OBVIOUS
<1>3. u \in Seq(Nat) /\ Len(u) = Len(s) + Len(t) /\ DOMAIN u = 1 .. (Len(s) + Len(t))
  BY <1>1, <1>2
<1>4. \A i \in DOMAIN s : i \in DOMAIN u /\ u[i] = s[i] /\ s[i] \in x
  <2>1. \A i \in 1 .. Len(s) : i \in 1 .. (Len(s) + Len(t)) /\ (s \o t)[i] = s[i]
    BY <1>1
  <2>2. \A i \in DOMAIN s : s[i] \in x
    BY <1>1 DEF Range
  <2>3. QED
    BY <1>1, <1>2, <1>3, <2>1, <2>2
<1>5. \A i \in DOMAIN t : Len(s) + i \in DOMAIN u /\ u[Len(s) + i] = t[i] /\ t[i] \in y
  <2>1. \A i \in 1 .. Len(t) : Len(s) + i \in 1 .. (Len(s) + Len(t)) /\ (Len(s) + i) - Len(s) = i /\ Len(s) + i > Len(s)
    BY <1>1
  <2>2. \A k \in 1 .. (Len(s) + Len(t)) : k > Len(s) => (s \o t)[k] = t[k - Len(s)]
    BY <1>1
  <2>3. \A i \in DOMAIN t : t[i] \in y
    BY <1>1 DEF Range
  <2>4. QED
    BY <1>1, <1>2, <1>3, <2>1, <2>2, <2>3
<1>6. \A k \in DOMAIN u : k \in DOMAIN s \/ \E i \in DOMAIN t : k = Len(s) + i
  <2>1. SUFFICES ASSUME NEW k \in DOMAIN u, k \notin DOMAIN s PROVE \E i \in DOMAIN t : k = Len(s) + i
    OBVIOUS
  <2>2. k - Len(s) \in DOMAIN t /\ k = Len(s) + (k - Len(s))
    BY <1>1, <1>3, <2>1
  <2>3. QED
    BY <2>2
<1>7. Range(u) = x \cup y
  <2>1. \A k \in DOMAIN u : u[k] \in x \cup y
    BY <1>4, <1>5, <1>6
  <2>2. \A e \in x \cup y : \E k \in DOMAIN u : u[k] = e
    <3>1. SUFFICES ASSUME NEW e \in x \cup y PROVE \E k \in DOMAIN u : u[k] = e
      OBVIOUS
    <3>2. CASE e \in x
      <4>1. PICK i \in DOMAIN s : s[i] = e
        BY <1>1, <3>2 DEF Range
      <4>2. QED
        BY <1>4, <4>1
    <3>3. CASE e \in y
      <4>1. PICK i \in DOMAIN t : t[i] = e
        BY <1>1, <3>3 DEF Range
      <4>2. QED
        BY <1>5, <4>1
    <3>4. QED
      BY <3>2, <3>3
  <2>3. QED
    BY <2>1, <2>2 DEF Range
<1>8. ASSUME NEW i \in DOMAIN u, NEW j \in DOMAIN u, i < j PROVE u[i] < u[j]
  <2>1. CASE i \in DOMAIN s /\ j \in DOMAIN s
    <3>1. s[i] < s[j]
      BY <1>8, <2>1 DEF Lists
    <3>2. QED
      BY <1>4, <2>1, <3>1
  <2>2. CASE i \in DOMAIN s /\ j \notin DOMAIN s
    <3>1. PICK k \in DOMAIN t : j = Len(s) + k
      BY <1>6, <2>2
    <3>2. QED
      BY <1>4, <1>5, <2>2, <3>1
  <2>3. CASE i \notin DOMAIN s
    <3>1. PICK k \in DOMAIN t : i = Len(s) + k
      BY <1>6, <2>3
    <3>2. j \notin DOMAIN s
      BY <1>1, <1>3, <1>8, <2>3, <3>1
    <3>3. PICK m \in DOMAIN t : j = Len(s) + m
      BY <1>6, <3>2
    <3>4. k < m
      BY <1>1, <1>8, <3>1, <3>3
    <3>5. t[k] < t[m]
      BY <3>4 DEF Lists
    <3>6. QED
      BY <1>5, <3>1, <3>3, <3>5
  <2>4. QED
    BY <2>1, <2>2, <2>3
<1>9. QED
  BY <1>2, <1>3, <1>7, <1>8 DEF Lists

\* The first p of a list are the list of what is not beyond the last of them.
LEMMA ListsFirst ==
    ASSUME NEW s, NEW x, Lists(s, x), NEW p \in 1 .. Len(s)
    PROVE  Lists(SubSeq(s, 1, p), {i \in x : i <= s[p]})
<1>1. s \in Seq(Nat) /\ Range(s) = x /\ Len(s) \in Nat /\ DOMAIN s = 1 .. Len(s) /\ p \in DOMAIN s
  BY DEF Lists
<1>2. PICK t : t = SubSeq(s, 1, p)
  OBVIOUS
<1>3. t \in Seq(Nat) /\ Len(t) = p /\ DOMAIN t = 1 .. p /\ \A i \in 1 .. p : t[i] = s[i] /\ i \in DOMAIN s
  BY <1>1, <1>2
<1>4. \A i, j \in DOMAIN s : i < j => s[i] < s[j]
  BY DEF Lists
<1>5. \A i \in DOMAIN s : s[i] \in Nat /\ s[i] \in x
  BY <1>1 DEF Range
<1>6. \A i \in DOMAIN s : s[i] <= s[p] <=> i <= p
  <2>1. SUFFICES ASSUME NEW i \in DOMAIN s PROVE s[i] <= s[p] <=> i <= p
    OBVIOUS
  <2>2. i \in Nat /\ p \in Nat /\ s[i] \in Nat /\ s[p] \in Nat
    BY <1>1, <1>5
  <2>3. i < p => s[i] < s[p]
    BY <1>1, <1>4
  <2>4. p < i => s[p] < s[i]
    BY <1>1, <1>4
  <2>5. QED
    BY <2>2, <2>3, <2>4
<1>7. Range(t) = {i \in x : i <= s[p]}
  <2>1. \A i \in DOMAIN t : t[i] \in x /\ t[i] <= s[p]
    BY <1>3, <1>5, <1>6
  <2>2. ASSUME NEW e \in x, e <= s[p] PROVE \E i \in DOMAIN t : t[i] = e
    <3>1. PICK i \in DOMAIN s : s[i] = e
      BY <1>1 DEF Range
    <3>2. i \in DOMAIN t
      BY <1>1, <1>3, <1>6, <2>2, <3>1
    <3>3. QED
      BY <1>3, <3>1, <3>2
  <2>3. QED
    BY <2>1, <2>2 DEF Range
<1>8. \A i, j \in DOMAIN t : i < j => t[i] < t[j]
  BY <1>3, <1>4
<1>9. QED
  BY <1>2, <1>3, <1>7, <1>8 DEF Lists

\* What a thread appends is behind everything a reader knows, and wakes it.
LEMMA ReaderAppend ==
    ASSUME ReadersInv, NEW t \in Threads, AppendEvent(t)
    PROVE  ReadersInv'
<1>1. PICK type \in EventTypes : log' = Append(log, type)
  BY DEF AppendEvent
<1>2. Len(log) \in Nat /\ DOMAIN log = 1 .. Len(log) /\ log \in Seq(EventTypes)
  BY StreamIs DEF ReadersInv, StreamInv
<1>3. /\ log' \in Seq(EventTypes) /\ Len(log') = Len(log) + 1 /\ DOMAIN log' = 1 .. (Len(log) + 1)
      /\ \A i \in DOMAIN log : log'[i] = log[i]
  BY <1>1, <1>2
<1>4. given' = given /\ \A r \in Readers :
         /\ reader'[r].last = reader[r].last /\ reader'[r].at # "waiting"
         /\ reader'[r] \in [last : Nat, at : {"idle", "waiting", "woken"}]
  BY DEF AppendEvent, Notified, ReadersInv
<1>5. reader' \in [Readers -> [last : Nat, at : {"idle", "waiting", "woken"}]]
  <2>1. DOMAIN reader' = Readers /\ reader' = [r \in Readers |-> reader'[r]]
    BY DEF AppendEvent, Notified
  <2>2. QED
    BY <1>4, <2>1
<1>6. ASSUME NEW r \in Readers PROVE ReaderTrue(r)'
  <2>1. PICK n \in Nat : n = reader[r].last /\ n \in 0 .. Len(log) /\ reader'[r].last = n
    BY <1>2, <1>4 DEF ReadersInv, ReaderTrue
  <2>2. Wanted(r, 0, n)' = Wanted(r, 0, n)
    BY <1>2, <1>3, <2>1 DEF Wanted
  <2>3. Wanted(r, 0, reader[r].last)' = Wanted(r, 0, n)'
    BY <2>1 DEF Wanted
  <2>4. Lists(given[r], Wanted(r, 0, reader[r].last))'
    BY <1>4, <2>1, <2>2, <2>3 DEF ReadersInv, ReaderTrue, Lists
  <2>5. n \in 0 .. Len(log')
    BY <1>2, <1>3, <2>1
  <2>6. QED
    BY <1>4, <2>1, <2>4, <2>5 DEF ReaderTrue
<1>7. StreamInv' /\ given' \in [Readers -> Seq(Nat)]
  BY <1>3, <1>4 DEF StreamInv, ReadersInv
<1>8. QED
  BY <1>5, <1>6, <1>7 DEF ReadersInv

\* A reader takes a page of what it has not read.
LEMMA ReaderLooks ==
    ASSUME ReadersInv, NEW r \in Readers, LookUp(r)
    PROVE  ReadersInv'
<1> DEFINE u == Unread(r)
           p == IF Len(u) < Limit THEN Len(u) ELSE Limit
           n == reader[r].last
           Type == [last : Nat, at : {"idle", "waiting", "woken"}]
<1>1. /\ Len(log) \in Nat /\ DOMAIN log = 1 .. Len(log) /\ log' = log
      /\ n \in 0 .. Len(log) /\ n \in Nat /\ reader[r] \in Type
  BY StreamIs DEF ReadersInv, ReaderTrue, LookUp
<1>2. Lists(u, Wanted(r, n, Len(log))) /\ u \in Seq(Nat) /\ Len(u) \in Nat /\ p \in Nat /\ p <= Len(u)
  <2>1. Lists(u, Wanted(r, n, Len(log)))
    BY UnreadLists
  <2> HIDE DEF u
  <2>2. u \in Seq(Nat)
    BY <2>1 DEF Lists
  <2>3. QED
    BY <2>1, <2>2, ServicesAssumption
<1>3. Page(r) = SubSeq(u, 1, p)
  BY DEF Page
<1> HIDE DEF u
<1>4. (Page(r) = << >> <=> p = 0) /\ (p = 0 <=> u = << >>) /\ Len(Page(r)) = p
  BY <1>2, <1>3, ServicesAssumption
<1> HIDE DEF p
<1>5. CASE Page(r) # << >>
  <2>1. given' = [given EXCEPT ![r] = @ \o Page(r)] /\ reader' = [reader EXCEPT ![r] = [last |-> Last(Page(r)), at |-> "idle"]]
    BY <1>5 DEF LookUp
  <2>2. p \in 1 .. Len(u) /\ p \in DOMAIN u /\ p \in Nat
    BY <1>2, <1>4, <1>5
  <2>3. Last(Page(r)) = u[p]
    <3>1. Last(Page(r)) = SubSeq(u, 1, p)[p]
      BY <1>3, <1>4 DEF Last
    <3>2. QED
      BY <1>2, <2>2, <3>1
  <2>4. PICK m \in Wanted(r, n, Len(log)) : m = u[p]
    BY <1>2, <2>2 DEF Lists, Range
  <2>5. m \in Nat /\ n < m /\ m <= Len(log)
    BY <1>1, <2>4 DEF Wanted
  <2>6. Lists(Page(r), Wanted(r, n, m))
    <3>1. {i \in Wanted(r, n, Len(log)) : i <= u[p]} = Wanted(r, n, m)
      BY <1>1, <2>4, <2>5 DEF Wanted
    <3>2. Lists(SubSeq(u, 1, p), {i \in Wanted(r, n, Len(log)) : i <= u[p]})
      BY <1>2, <2>2, ListsFirst
    <3>3. QED
      BY <1>3, <3>1, <3>2
  <2>7. Lists(given[r], Wanted(r, 0, n))
    BY DEF ReadersInv, ReaderTrue
  <2>8. Wanted(r, 0, n) \cup Wanted(r, n, m) = Wanted(r, 0, m)
    BY <1>1, <2>5 DEF Wanted
  <2>9. \A i \in Wanted(r, 0, n), j \in Wanted(r, n, m) : i < j
    BY <1>1, <2>5 DEF Wanted
  <2>10. Lists(given[r] \o Page(r), Wanted(r, 0, m))
    BY <2>6, <2>7, <2>8, <2>9, ListsJoin
  <2>11. /\ given'[r] = given[r] \o Page(r) /\ reader'[r].last = m /\ reader'[r].at = "idle"
         /\ \A x \in Readers \ {r} : given'[x] = given[x] /\ reader'[x] = reader[x]
    BY <2>1, <2>3, <2>4 DEF ReadersInv
  <2>12. given' \in [Readers -> Seq(Nat)]
    <3>1. given[r] \o Page(r) \in Seq(Nat)
      BY <2>10 DEF Lists
    <3>2. QED
      BY <2>1, <3>1 DEF ReadersInv
  <2>13. reader' \in [Readers -> Type]
    BY <2>1, <2>3, <2>4, <2>5 DEF ReadersInv
  <2>14. ReaderTrue(r)'
    BY <1>1, <2>5, <2>10, <2>11 DEF ReaderTrue, Wanted
  <2>15. ASSUME NEW x \in Readers \ {r} PROVE ReaderTrue(x)'
    <3>1. ReaderTrue(x)
      BY DEF ReadersInv
    <3>2. given'[x] = given[x] /\ reader'[x] = reader[x]
      BY <2>11
    <3>3. QED
      BY <1>1, <3>1, <3>2 DEF ReaderTrue, Wanted
  <2>16. \A x \in Readers : ReaderTrue(x)'
    BY <2>14, <2>15
  <2>17. QED
    BY <1>1, <2>12, <2>13, <2>16 DEF ReadersInv, StreamInv
<1>6. CASE Page(r) = << >>
  <2>1. given' = given /\ reader' = [reader EXCEPT ![r].at = "waiting"]
    BY <1>6 DEF LookUp
  <2>2. Wanted(r, n, Len(log)) = {}
    BY <1>2, <1>4, <1>6, ListsNone
  <2>3. reader' \in [Readers -> Type] /\ \A x \in Readers : reader'[x].last = reader[x].last /\ (x # r => reader'[x] = reader[x])
    BY <2>1 DEF ReadersInv
  <2>4. ASSUME NEW x \in Readers PROVE ReaderTrue(x)'
    <3>1. ReaderTrue(x) /\ reader'[x].last = reader[x].last
      BY <2>3 DEF ReadersInv
    <3>2. reader'[x].at = "waiting" => Wanted(x, reader[x].last, Len(log)) = {}
      BY <2>2, <2>3, <3>1 DEF ReaderTrue
    <3>3. QED
      BY <1>1, <2>1, <3>1, <3>2 DEF ReaderTrue, Wanted
  <2>5. QED
    BY <1>1, <2>1, <2>3, <2>4 DEF ReadersInv, StreamInv
<1>7. QED
  BY <1>5, <1>6

\* A reader on whose last offset it goes on, whatever the limit and the types
\* skip, is given every event it wants once and in order; and nothing it wants is
\* there while its thread waits, because a look and the wait after it are one step and
\* an append wakes every waiting thread.
THEOREM ReadersAreServed == ServicesSpec => []ReaderServed
<1>1. ServicesInit => ReadersInv
  <2>1. SUFFICES ASSUME ServicesInit PROVE ReadersInv
    OBVIOUS
  <2>2. log = << >> /\ Len(log) = 0 /\ DOMAIN log = {} /\ log \in Seq(EventTypes)
    BY <2>1 DEF ServicesInit
  <2>3. Lists(<< >>, {}) /\ << >> \in Seq(Nat)
    BY DEF Lists, Range
  <2>4. \A r \in Readers : Wanted(r, 0, 0) = {}
    BY <2>2 DEF Wanted
  <2>5. /\ reader \in [Readers -> [last : Nat, at : {"idle", "waiting", "woken"}]]
        /\ given \in [Readers -> Seq(Nat)]
        /\ \A r \in Readers : reader[r].last = 0 /\ reader[r].at = "idle" /\ given[r] = << >>
    BY <2>1, <2>3 DEF ServicesInit
  <2>6. ASSUME NEW r \in Readers PROVE ReaderTrue(r)
    <3>1. Wanted(r, 0, reader[r].last) = {}
      BY <2>4, <2>5
    <3>2. Lists(given[r], Wanted(r, 0, reader[r].last))
      BY <2>3, <2>5, <3>1
    <3>3. reader[r].last \in 0 .. Len(log) /\ reader[r].at # "waiting"
      BY <2>2, <2>5
    <3>4. QED
      BY <3>2, <3>3 DEF ReaderTrue
  <2>7. QED
    BY <2>2, <2>5, <2>6 DEF ReadersInv, StreamInv
<1>2. ReadersInv /\ [ServicesNext]_servicesVars => ReadersInv'
  <2>1. SUFFICES ASSUME ReadersInv, [ServicesNext]_servicesVars PROVE ReadersInv'
    OBVIOUS
  <2>2. CASE UNCHANGED <<log, reader, given>>
    BY <2>1, <2>2 DEF ReadersInv, StreamInv, ReaderTrue, Wanted
  <2>3. ASSUME NEW r \in Readers, TimeOut(r) PROVE ReadersInv'
    <3>1. given' = given /\ log' = log /\ reader' = [reader EXCEPT ![r].at = "idle"]
      BY <2>3 DEF TimeOut
    <3>2. /\ reader' \in [Readers -> [last : Nat, at : {"idle", "waiting", "woken"}]]
          /\ \A x \in Readers : reader'[x].last = reader[x].last /\ (reader'[x].at = "waiting" => reader[x].at = "waiting")
      BY <2>1, <3>1 DEF ReadersInv
    <3>3. ASSUME NEW x \in Readers PROVE ReaderTrue(x)'
      BY <2>1, <3>1, <3>2 DEF ReadersInv, ReaderTrue, Wanted
    <3>4. QED
      BY <2>1, <3>1, <3>2, <3>3 DEF ReadersInv, StreamInv
  <2>4. ASSUME NEW t \in Threads, Deliver(t) \/ \E h \in Handlers : Subscribe(t, h)
        PROVE  UNCHANGED <<log, reader, given>>
    BY <2>4 DEF Deliver, Subscribe
  <2>5. UNCHANGED servicesVars => UNCHANGED <<log, reader, given>>
    BY DEF servicesVars
  <2>6. QED
    BY <2>1, <2>2, <2>3, <2>4, <2>5, ReaderAppend, ReaderLooks DEF ServicesNext
<1>3. ReadersInv => ReaderServed
  <2>1. SUFFICES ASSUME ReadersInv, NEW r \in Readers
                 PROVE  /\ Range(given[r]) = {i \in DOMAIN log : i <= reader[r].last /\ log[i] \in Wants[r]}
                        /\ \A i, j \in DOMAIN given[r] : i < j => given[r][i] < given[r][j]
                        /\ reader[r].at = "waiting" => Unread(r) = << >>
    BY DEF ReaderServed
  <2>2. ReaderTrue(r) /\ Len(log) \in Nat /\ DOMAIN log = 1 .. Len(log) /\ reader[r].last \in Nat
    BY <2>1, StreamIs DEF ReadersInv
  <2>3. Wanted(r, 0, reader[r].last) = {i \in DOMAIN log : i <= reader[r].last /\ log[i] \in Wants[r]}
    BY <2>2 DEF Wanted
  <2>4. reader[r].at = "waiting" => Unread(r) = << >>
    BY <2>1, <2>2, UnreadLists, ListsNone DEF ReaderTrue
  <2>5. QED
    BY <2>2, <2>3, <2>4 DEF ReaderTrue, Lists
<1>4. QED
  BY <1>1, <1>2, <1>3, PTL DEF ServicesSpec

-----------------------------------------------------------------------------
(* Subscribers.                                                            *)

\* What a subscriber is owed: events of its types, from where it subscribed.
Due(h) == {i \in DOMAIN log : i >= since[h] /\ log[i] \in Wants[h]}

Calls(t) == Range(todo[t])

Called(h, i) == \E t \in Threads : <<h, i>> \in Calls(t)

CallTypes ==
    /\ StreamInv
    /\ active \subseteq Handlers /\ IsFiniteSet(active)
    /\ todo \in [Threads -> Seq(Handlers \X Nat)]
    /\ told \in [Handlers -> Seq(Nat)]
    /\ since \in [Handlers -> Nat] /\ \A h \in Handlers : since[h] <= Len(log) + 1

\* A call is to be made by one thread, at one place.
CallsOnce ==
    /\ \A t \in Threads : IsInjective(todo[t])
    /\ \A t, u \in Threads : t # u => Calls(t) \cap Calls(u) = {}

\* A subscriber was told what it is owed, each once, or is to be called with it;
\* and nobody else is.
ToldTrue(h) ==
    /\ IsInjective(told[h])
    /\ Range(told[h]) \subseteq Due(h)
    /\ \A i \in Nat : Called(h, i) => h \in active /\ i \in Due(h) /\ i \notin Range(told[h])
    /\ h \in active => \A i \in Due(h) : i \in Range(told[h]) \/ Called(h, i)
    /\ h \notin active => told[h] = << >>

CallsInv == CallTypes /\ CallsOnce /\ \A h \in Handlers : ToldTrue(h)

LEMMA PendingIs ==
    ASSUME CallTypes, NEW h
    PROVE  \A i : i \in Pending(h) <=> Called(h, i)
<1>1. SUFFICES ASSUME NEW i PROVE i \in Pending(h) <=> Called(h, i)
  OBVIOUS
<1>2. i \in Pending(h) <=> \E t \in Threads : \E j \in DOMAIN todo[t] : todo[t][j][1] = h /\ todo[t][j][2] = i
  BY DEF Pending
<1>3. \A t \in Threads : \A j \in DOMAIN todo[t] : todo[t][j] = <<h, i>> <=> todo[t][j][1] = h /\ todo[t][j][2] = i
  <2>1. SUFFICES ASSUME NEW t \in Threads, NEW j \in DOMAIN todo[t]
                 PROVE  todo[t][j] = <<h, i>> <=> todo[t][j][1] = h /\ todo[t][j][2] = i
    OBVIOUS
  <2>2. todo[t][j] \in Handlers \X Nat
    BY DEF CallTypes
  <2>3. QED
    BY <2>2
<1>4. QED
  BY <1>2, <1>3 DEF Called, Calls, Range

LEMMA CallsTell ==
    ASSUME CallsInv
    PROVE  SubscriberHearsOnce
<1>1. SUFFICES ASSUME NEW h \in active
               PROVE  /\ IsInjective(told[h])
                      /\ Range(told[h]) \cap Pending(h) = {}
                      /\ Range(told[h]) \cup Pending(h) = {i \in DOMAIN log : i >= since[h] /\ log[i] \in Wants[h]}
  BY DEF SubscriberHearsOnce
<1>2. h \in Handlers /\ ToldTrue(h)
  BY DEF CallsInv, CallTypes
<1>3. \A i : i \in Pending(h) <=> Called(h, i)
  BY PendingIs DEF CallsInv
<1>4. \A i : Called(h, i) => i \in Nat
  <2>1. \A t \in Threads : Calls(t) \subseteq Handlers \X Nat
    BY DEF Calls, Range, CallsInv, CallTypes
  <2>2. QED
    BY <2>1 DEF Called
<1>5. QED
  BY <1>2, <1>3, <1>4 DEF ToldTrue, Due

\* The calls of one thread with others put in front of them.
LEMMA CallsJoin ==
    ASSUME NEW S, NEW s \in Seq(S), NEW q \in Seq(S), IsInjective(s), IsInjective(q),
           Range(s) \cap Range(q) = {}
    PROVE  /\ s \o q \in Seq(S) /\ IsInjective(s \o q)
           /\ Range(s \o q) = Range(s) \cup Range(q)
<1>1. /\ Len(s) \in Nat /\ DOMAIN s = 1 .. Len(s) /\ Len(q) \in Nat /\ DOMAIN q = 1 .. Len(q)
  OBVIOUS
<1>2. PICK u : u = s \o q
  OBVIOUS
<1>3. u \in Seq(S) /\ Len(u) = Len(s) + Len(q) /\ DOMAIN u = 1 .. (Len(s) + Len(q))
  BY <1>1, <1>2
<1>4. \A i \in DOMAIN s : i \in DOMAIN u /\ u[i] = s[i] /\ s[i] \in Range(s)
  <2>1. \A i \in 1 .. Len(s) : i \in 1 .. (Len(s) + Len(q)) /\ (s \o q)[i] = s[i]
    BY <1>1
  <2>2. \A i \in DOMAIN s : s[i] \in Range(s)
    BY DEF Range
  <2>3. QED
    BY <1>1, <1>2, <1>3, <2>1, <2>2
<1>5. \A i \in DOMAIN q : Len(s) + i \in DOMAIN u /\ u[Len(s) + i] = q[i] /\ q[i] \in Range(q)
  <2>1. \A i \in 1 .. Len(q) : Len(s) + i \in 1 .. (Len(s) + Len(q)) /\ (Len(s) + i) - Len(s) = i /\ Len(s) + i > Len(s)
    BY <1>1
  <2>2. \A k \in 1 .. (Len(s) + Len(q)) : k > Len(s) => (s \o q)[k] = q[k - Len(s)]
    BY <1>1
  <2>3. \A i \in DOMAIN q : q[i] \in Range(q)
    BY DEF Range
  <2>4. QED
    BY <1>1, <1>2, <1>3, <2>1, <2>2, <2>3
<1>6. \A k \in DOMAIN u : k \in DOMAIN s \/ \E i \in DOMAIN q : k = Len(s) + i
  <2>1. SUFFICES ASSUME NEW k \in DOMAIN u, k \notin DOMAIN s PROVE \E i \in DOMAIN q : k = Len(s) + i
    OBVIOUS
  <2>2. k - Len(s) \in DOMAIN q /\ k = Len(s) + (k - Len(s))
    BY <1>1, <1>3, <2>1
  <2>3. QED
    BY <2>2
<1>7. Range(u) = Range(s) \cup Range(q)
  <2>1. \A k \in DOMAIN u : u[k] \in Range(s) \cup Range(q)
    BY <1>4, <1>5, <1>6
  <2>2. ASSUME NEW e \in Range(s) \cup Range(q) PROVE \E k \in DOMAIN u : u[k] = e
    <3>1. CASE e \in Range(s)
      <4>1. PICK i \in DOMAIN s : s[i] = e
        BY <3>1 DEF Range
      <4>2. QED
        BY <1>4, <4>1
    <3>2. CASE e \in Range(q)
      <4>1. PICK i \in DOMAIN q : q[i] = e
        BY <3>2 DEF Range
      <4>2. QED
        BY <1>5, <4>1
    <3>3. QED
      BY <3>1, <3>2
  <2>3. \A e : e \in Range(u) <=> \E k \in DOMAIN u : u[k] = e
    BY DEF Range
  <2>4. QED
    BY <2>1, <2>2, <2>3
<1>8. ASSUME NEW i \in DOMAIN u, NEW j \in DOMAIN u, u[i] = u[j] PROVE i = j
  <2>1. CASE i \in DOMAIN s /\ j \in DOMAIN s
    BY <1>4, <1>8, <2>1 DEF IsInjective
  <2>2. CASE i \notin DOMAIN s /\ j \notin DOMAIN s
    <3>1. PICK k \in DOMAIN q, m \in DOMAIN q : i = Len(s) + k /\ j = Len(s) + m
      BY <1>6, <2>2
    <3>2. k = m
      BY <1>5, <1>8, <3>1 DEF IsInjective
    <3>3. QED
      BY <3>1, <3>2
  <2>3. CASE i \in DOMAIN s /\ j \notin DOMAIN s
    BY <1>4, <1>5, <1>6, <1>8, <2>3
  <2>4. CASE i \notin DOMAIN s /\ j \in DOMAIN s
    BY <1>4, <1>5, <1>6, <1>8, <2>4
  <2>5. QED
    BY <2>1, <2>2, <2>3, <2>4
<1>9. QED
  BY <1>2, <1>3, <1>7, <1>8 DEF IsInjective

LEMMA CallsRest ==
    ASSUME NEW S, NEW s \in Seq(S), s # << >>, IsInjective(s)
    PROVE  /\ Head(s) \in S /\ Head(s) \in Range(s)
           /\ Tail(s) \in Seq(S) /\ IsInjective(Tail(s))
           /\ Range(Tail(s)) = Range(s) \ {Head(s)}
<1>1. /\ Len(s) \in Nat /\ Len(s) # 0 /\ DOMAIN s = 1 .. Len(s) /\ Head(s) = s[1] /\ 1 \in DOMAIN s
  OBVIOUS
<1>2. PICK u : u = Tail(s)
  OBVIOUS
<1>3. u \in Seq(S) /\ DOMAIN u = 1 .. (Len(s) - 1)
  BY <1>1, <1>2
<1>4. \A i \in DOMAIN u : u[i] = s[i + 1] /\ i + 1 \in DOMAIN s /\ i + 1 # 1
  BY <1>1, <1>2, <1>3
<1>5. IsInjective(u)
  <2>1. SUFFICES ASSUME NEW i \in DOMAIN u, NEW j \in DOMAIN u, u[i] = u[j] PROVE i = j
    BY DEF IsInjective
  <2>2. i + 1 = j + 1
    BY <1>4, <2>1 DEF IsInjective
  <2>3. QED
    BY <1>1, <1>3, <2>2
<1>6. \A i \in DOMAIN u : u[i] \in Range(s) /\ u[i] # s[1]
  BY <1>1, <1>4 DEF IsInjective, Range
<1>7. ASSUME NEW e \in Range(s), e # s[1] PROVE \E i \in DOMAIN u : u[i] = e
  <2>1. PICK i \in DOMAIN s : s[i] = e
    BY <1>7 DEF Range
  <2>2. i - 1 \in DOMAIN u /\ (i - 1) + 1 = i
    BY <1>1, <1>3, <1>7, <2>1
  <2>3. QED
    BY <1>4, <2>1, <2>2
<1>8. Range(u) = Range(s) \ {s[1]}
  BY <1>6, <1>7 DEF Range
<1>9. s[1] \in S /\ s[1] \in Range(s)
  BY <1>1 DEF Range
<1>10. QED
  BY <1>1, <1>2, <1>3, <1>5, <1>8, <1>9

LEMMA OneMore ==
    ASSUME NEW S, NEW s \in Seq(S), IsInjective(s), NEW e \in S, e \notin Range(s)
    PROVE  /\ Append(s, e) \in Seq(S) /\ IsInjective(Append(s, e))
           /\ Range(Append(s, e)) = Range(s) \cup {e}
<1>1. Len(s) \in Nat /\ DOMAIN s = 1 .. Len(s)
  OBVIOUS
<1>2. PICK u : u = Append(s, e)
  OBVIOUS
<1>3. u \in Seq(S) /\ DOMAIN u = 1 .. (Len(s) + 1) /\ u[Len(s) + 1] = e /\ Len(s) + 1 \in DOMAIN u
  BY <1>1, <1>2
<1>4. \A i \in DOMAIN s : u[i] = s[i] /\ i \in DOMAIN u
  BY <1>1, <1>2, <1>3
<1>5. \A i \in DOMAIN u : i \in DOMAIN s \/ i = Len(s) + 1
  BY <1>1, <1>3
<1>6. \A i \in DOMAIN s : s[i] # e
  BY DEF Range
<1>7. IsInjective(u)
  BY <1>3, <1>4, <1>5, <1>6 DEF IsInjective
<1>8. Range(u) = Range(s) \cup {e}
  <2>1. \A i \in DOMAIN u : u[i] \in Range(s) \cup {e}
    BY <1>3, <1>4, <1>5 DEF Range
  <2>2. \A y \in Range(s) : \E i \in DOMAIN u : u[i] = y
    BY <1>4 DEF Range
  <2>3. QED
    BY <1>3, <2>1, <2>2 DEF Range
<1>9. QED
  BY <1>2, <1>3, <1>7, <1>8

\* The audience of an event, each subscriber once.
LEMMA SetOrder ==
    ASSUME NEW S, IsFiniteSet(S)
    PROVE  SetToSeq(S) \in Seq(S) /\ IsInjective(SetToSeq(S)) /\ Range(SetToSeq(S)) = S
<1>1. Cardinality(S) \in Nat /\ ExistsBijection(1 .. Cardinality(S), S)
  BY FS_CardinalityType
<1>2. \E f \in [1 .. Cardinality(S) -> S] : IsInjective(f)
  BY <1>1 DEF ExistsBijection, Bijection, Injection, IsInjective
<1>3. PICK f \in [1 .. Cardinality(S) -> S] : f = SetToSeq(S) /\ IsInjective(f)
  BY <1>2 DEF SetToSeq
<1>4. f \in Injection(1 .. Cardinality(S), S)
  BY <1>3 DEF Injection
<1>5. PICK g : g \in Bijection(1 .. Cardinality(S), S)
  BY <1>1 DEF ExistsBijection
<1>6. IsFiniteSet(1 .. Cardinality(S)) /\ Cardinality(1 .. Cardinality(S)) = Cardinality(S)
  BY <1>1, FS_Interval
<1>7. f \in Surjection(1 .. Cardinality(S), S)
  BY <1>4, <1>6, FS_Injection
<1>8. Range(f) = S
  BY <1>7 DEF Surjection, Range
<1>9. f \in Seq(S)
  BY <1>1
<1>10. QED
  BY <1>3, <1>8, <1>9

\* The calls of an event: one of each subscriber it concerns.
LEMMA EventCalls ==
    ASSUME NEW S, S \subseteq Handlers, IsFiniteSet(S), NEW n \in Nat, NEW c,
           c = [i \in DOMAIN SetToSeq(S) |-> <<SetToSeq(S)[i], n>>]
    PROVE  /\ c \in Seq(Handlers \X Nat) /\ IsInjective(c)
           /\ \A h, i : <<h, i>> \in Range(c) <=> h \in S /\ i = n
<1>1. PICK s : s = SetToSeq(S)
  OBVIOUS
<1>2. s \in Seq(S) /\ IsInjective(s) /\ Range(s) = S
  BY <1>1, SetOrder
<1>3. /\ Len(s) \in Nat /\ DOMAIN s = 1 .. Len(s) /\ \A i \in DOMAIN s : s[i] \in Handlers
      /\ c = [i \in DOMAIN s |-> <<s[i], n>>]
  BY <1>1, <1>2
<1>4. c \in Seq(Handlers \X Nat)
  BY <1>3
<1>5. DOMAIN c = DOMAIN s /\ \A i \in DOMAIN s : c[i] = <<s[i], n>>
  BY <1>3
<1>6. IsInjective(c)
  BY <1>2, <1>5 DEF IsInjective
<1>7. ASSUME NEW h, NEW i PROVE <<h, i>> \in Range(c) <=> h \in S /\ i = n
  <2>1. <<h, i>> \in Range(c) <=> \E k \in DOMAIN s : <<s[k], n>> = <<h, i>>
    BY <1>5 DEF Range
  <2>2. h \in S <=> \E k \in DOMAIN s : s[k] = h
    BY <1>2 DEF Range
  <2>3. QED
    BY <2>1, <2>2
<1>8. QED
  BY <1>4, <1>6, <1>7

\* The calls of a new subscriber: its history.
LEMMA HistoryCalls ==
    ASSUME NEW s, NEW x, Lists(s, x), NEW h \in Handlers, NEW c,
           c = [i \in DOMAIN s |-> <<h, s[i]>>]
    PROVE  /\ c \in Seq(Handlers \X Nat) /\ IsInjective(c)
           /\ \A g, i : <<g, i>> \in Range(c) <=> g = h /\ i \in x
<1>1. s \in Seq(Nat) /\ Range(s) = x /\ Len(s) \in Nat /\ DOMAIN s = 1 .. Len(s)
  BY DEF Lists
<1>2. \A i \in DOMAIN s : s[i] \in Nat
  BY <1>1
<1>3. IsInjective(s)
  <2>1. SUFFICES ASSUME NEW i \in DOMAIN s, NEW j \in DOMAIN s, s[i] = s[j] PROVE i = j
    BY DEF IsInjective
  <2>2. i \in Nat /\ j \in Nat /\ s[i] \in Nat /\ s[j] \in Nat
    BY <1>1, <1>2
  <2>3. (i < j => s[i] < s[j]) /\ (j < i => s[j] < s[i])
    BY DEF Lists
  <2>4. QED
    BY <2>1, <2>2, <2>3
<1>4. c \in Seq(Handlers \X Nat)
  BY <1>1, <1>2
<1>5. DOMAIN c = DOMAIN s /\ \A i \in DOMAIN s : c[i] = <<h, s[i]>>
  OBVIOUS
<1>6. IsInjective(c)
  BY <1>3, <1>5 DEF IsInjective
<1>7. ASSUME NEW g, NEW i PROVE <<g, i>> \in Range(c) <=> g = h /\ i \in x
  <2>1. <<g, i>> \in Range(c) <=> \E k \in DOMAIN s : <<h, s[k]>> = <<g, i>>
    BY <1>5 DEF Range
  <2>2. i \in x <=> \E k \in DOMAIN s : s[k] = i
    BY <1>1 DEF Range
  <2>3. QED
    BY <2>1, <2>2
<1>8. QED
  BY <1>4, <1>6, <1>7

\* An event that is appended is one more call of each subscriber it concerns.
LEMMA CallsAppend ==
    ASSUME CallsInv, NEW t \in Threads, AppendEvent(t)
    PROVE  CallsInv'
<1>1. PICK type \in EventTypes :
         /\ log' = Append(log, type)
         /\ todo' = [todo EXCEPT ![t] =
              [i \in DOMAIN Audience(type) |-> <<Audience(type)[i], Len(log) + 1>>] \o @]
  BY DEF AppendEvent
<1>2. PICK n \in Nat : n = Len(log) + 1 /\ n # 0 /\ DOMAIN log = 1 .. (n - 1) /\ Len(log) \in Nat
  BY StreamIs DEF CallsInv, CallTypes
<1>3. /\ log' \in Seq(EventTypes) /\ Len(log') = n /\ DOMAIN log' = 1 .. n /\ log'[n] = type
      /\ \A i \in DOMAIN log : log'[i] = log[i] /\ i # n
  <2>1. log \in Seq(EventTypes)
    BY DEF CallsInv, CallTypes, StreamInv
  <2>2. QED
    BY <1>1, <1>2, <2>1
<1>4. active' = active /\ since' = since /\ told' = told
  BY DEF AppendEvent
<1>5. PICK A : A = {h \in active : type \in Wants[h]}
  OBVIOUS
<1>6. A \subseteq Handlers /\ IsFiniteSet(A)
  <2>1. active \subseteq Handlers /\ IsFiniteSet(active) /\ A \subseteq active
    BY <1>5 DEF CallsInv, CallTypes
  <2>2. QED
    BY <2>1, FS_Subset
<1>7. PICK c : c = [i \in DOMAIN SetToSeq(A) |-> <<SetToSeq(A)[i], n>>]
  OBVIOUS
<1>8. /\ c \in Seq(Handlers \X Nat) /\ IsInjective(c)
      /\ \A h, i : <<h, i>> \in Range(c) <=> h \in A /\ i = n
  BY <1>6, <1>7, EventCalls
<1>9. todo' = [todo EXCEPT ![t] = c \o @]
  BY <1>1, <1>2, <1>5, <1>7 DEF Audience
<1>10. /\ todo \in [Threads -> Seq(Handlers \X Nat)]
       /\ \A u \in Threads : IsInjective(todo[u]) /\ \A x \in Threads : u # x => Range(todo[u]) \cap Range(todo[x]) = {}
  BY DEF CallsInv, CallTypes, CallsOnce, Calls
<1>11. \A u \in Threads : \A h, i : <<h, i>> \in Range(todo[u]) => i # n
  <2>1. SUFFICES ASSUME NEW u \in Threads, NEW h, NEW i, <<h, i>> \in Range(todo[u]) PROVE i # n
    OBVIOUS
  <2>2. <<h, i>> \in Handlers \X Nat
    BY <1>10, <2>1 DEF Range
  <2>3. h \in Handlers /\ i \in Nat /\ Called(h, i)
    BY <2>1, <2>2 DEF Called, Calls
  <2>4. i \in DOMAIN log
    BY <2>3 DEF CallsInv, ToldTrue, Due
  <2>5. QED
    BY <1>3, <2>4
<1>12. \A u \in Threads : \A p \in Range(todo[u]) : p \notin Range(c)
  <2>1. SUFFICES ASSUME NEW u \in Threads, NEW p \in Range(todo[u]), p \in Range(c) PROVE FALSE
    OBVIOUS
  <2>2. PICK h \in Handlers, i \in Nat : p = <<h, i>>
    BY <1>10 DEF Range
  <2>3. QED
    BY <1>8, <1>11, <2>1, <2>2
<1>13. /\ todo'[t] = c \o todo[t] /\ \A u \in Threads \ {t} : todo'[u] = todo[u]
       /\ DOMAIN todo' = Threads
  BY <1>9, <1>10
<1>14. /\ todo'[t] \in Seq(Handlers \X Nat) /\ IsInjective(todo'[t])
       /\ Range(todo'[t]) = Range(c) \cup Range(todo[t])
  <2>1. Range(c) \cap Range(todo[t]) = {} /\ todo[t] \in Seq(Handlers \X Nat) /\ IsInjective(todo[t])
    BY <1>10, <1>12
  <2>2. QED
    BY <1>8, <1>13, <2>1, CallsJoin
<1>15. todo' \in [Threads -> Seq(Handlers \X Nat)]
  BY <1>9, <1>10, <1>13, <1>14
<1>16. CallTypes'
  <2>1. \A h \in Handlers : since[h] <= Len(log) + 1 /\ since[h] \in Nat
    BY DEF CallsInv, CallTypes
  <2>2. \A h \in Handlers : since'[h] <= Len(log') + 1
    BY <1>2, <1>3, <1>4, <2>1
  <2>3. QED
    BY <1>3, <1>4, <1>15, <2>2 DEF CallsInv, CallTypes, StreamInv
<1>17. CallsOnce'
  <2>1. \A u \in Threads : IsInjective(todo'[u])
    BY <1>10, <1>13, <1>14
  <2>2. \A u, x \in Threads : u # x => Range(todo'[u]) \cap Range(todo'[x]) = {}
    BY <1>10, <1>12, <1>13, <1>14, ZenonT(60)
  <2>3. QED
    BY <2>1, <2>2 DEF CallsOnce, Calls
<1>18. ASSUME NEW h \in Handlers PROVE ToldTrue(h)'
  <2>1. ToldTrue(h)
    BY DEF CallsInv
  <2>2. \A i : Called(h, i)' <=> Called(h, i) \/ (h \in A /\ i = n)
    <3>1. \A i : Called(h, i)' <=> \E u \in Threads : <<h, i>> \in Range(todo'[u])
      BY DEF Called, Calls
    <3>2. \A i : Called(h, i) <=> \E u \in Threads : <<h, i>> \in Range(todo[u])
      BY DEF Called, Calls
    <3>3. ASSUME NEW i PROVE (\E u \in Threads : <<h, i>> \in Range(todo'[u])) <=>
                                <<h, i>> \in Range(c) \/ \E u \in Threads : <<h, i>> \in Range(todo[u])
      <4>1. PICK p : p = <<h, i>>
        OBVIOUS
      <4>2. (\E u \in Threads : p \in Range(todo'[u])) <=>
               p \in Range(c) \/ \E u \in Threads : p \in Range(todo[u])
        BY <1>13, <1>14
      <4>3. QED
        BY <4>1, <4>2
    <3>4. ASSUME NEW i PROVE Called(h, i)' <=> Called(h, i) \/ (h \in A /\ i = n)
      <4>1. <<h, i>> \in Range(c) <=> h \in A /\ i = n
        BY <1>8
      <4>2. QED
        BY <3>1, <3>2, <3>3, <4>1
    <3>5. QED
      BY <3>4
  <2>3. \A i : i \in Due(h)' <=> i \in Due(h) \/ (type \in Wants[h] /\ i = n)
    <3>1. since'[h] = since[h] /\ since[h] <= n
      BY <1>2, <1>4 DEF CallsInv, CallTypes
    <3>2. \A i : i \in DOMAIN log' <=> i \in DOMAIN log \/ i = n
      BY <1>2, <1>3
    <3>3. n \notin DOMAIN log
      BY <1>3
    <3>4. QED
      BY <1>3, <3>1, <3>2, <3>3 DEF Due
  <2>4. n \notin Due(h)
    BY <1>3 DEF Due
  <2>5. h \in A <=> h \in active /\ type \in Wants[h]
    BY <1>5
  <2>6. told'[h] = told[h]
    BY <1>4
  <2>7. QED
    BY <1>4, <2>1, <2>2, <2>3, <2>4, <2>5, <2>6 DEF ToldTrue
<1>19. QED
  BY <1>16, <1>17, <1>18 DEF CallsInv

\* A new subscriber is owed its history, and is to be called with it.
LEMMA CallsSubscribe ==
    ASSUME CallsInv, NEW t \in Threads, NEW h \in Handlers, Subscribe(t, h)
    PROVE  CallsInv'
<1>1. PICK from \in 1 .. (Len(log) + 1) :
         /\ since' = [since EXCEPT ![h] = from]
         /\ todo' = [todo EXCEPT ![t] = [i \in DOMAIN History(h, from) |-> <<h, History(h, from)[i]>>]]
  BY DEF Subscribe
<1>2. Len(log) \in Nat /\ DOMAIN log = 1 .. Len(log)
  BY StreamIs DEF CallsInv, CallTypes
<1>3. /\ todo[t] = << >> /\ h \notin active /\ active' = active \cup {h}
      /\ log' = log /\ told' = told
  BY DEF Subscribe
<1>4. PICK x : x = {i \in DOMAIN log : i >= from /\ log[i] \in Wants[h]}
  OBVIOUS
<1>5. Lists(History(h, from), x)
  BY <1>2, <1>4, InOrderLists DEF History
<1>6. PICK c : c = [i \in DOMAIN History(h, from) |-> <<h, History(h, from)[i]>>]
  OBVIOUS
<1>7. /\ c \in Seq(Handlers \X Nat) /\ IsInjective(c)
      /\ \A g, i : <<g, i>> \in Range(c) <=> g = h /\ i \in x
  BY <1>5, <1>6, HistoryCalls
<1>8. /\ todo \in [Threads -> Seq(Handlers \X Nat)]
      /\ \A u \in Threads : IsInjective(todo[u]) /\ \A y \in Threads : u # y => Range(todo[u]) \cap Range(todo[y]) = {}
      /\ since \in [Handlers -> Nat] /\ \A g \in Handlers : since[g] <= Len(log) + 1
      /\ active \subseteq Handlers /\ IsFiniteSet(active)
  BY DEF CallsInv, CallTypes, CallsOnce, Calls
<1>9. todo'[t] = c /\ DOMAIN todo' = Threads /\ \A u \in Threads \ {t} : todo'[u] = todo[u]
  BY <1>1, <1>6, <1>8
<1>10. \A u \in Threads : \A i : <<h, i>> \notin Range(todo[u])
  <2>1. SUFFICES ASSUME NEW u \in Threads, NEW i, <<h, i>> \in Range(todo[u]) PROVE FALSE
    OBVIOUS
  <2>2. <<h, i>> \in Handlers \X Nat
    BY <1>8, <2>1 DEF Range
  <2>3. i \in Nat /\ Called(h, i)
    BY <2>1, <2>2 DEF Called, Calls
  <2>4. QED
    BY <1>3, <2>3 DEF CallsInv, ToldTrue
<1>11. \A u \in Threads : \A p \in Range(todo[u]) : p \notin Range(c)
  <2>1. SUFFICES ASSUME NEW u \in Threads, NEW p \in Range(todo[u]), p \in Range(c) PROVE FALSE
    OBVIOUS
  <2>2. PICK g \in Handlers, i \in Nat : p = <<g, i>>
    BY <1>8 DEF Range
  <2>3. QED
    BY <1>7, <1>10, <2>1, <2>2
<1>12. todo' \in [Threads -> Seq(Handlers \X Nat)]
  BY <1>1, <1>6, <1>7, <1>8
<1>13. since' \in [Handlers -> Nat] /\ \A g \in Handlers : since'[g] <= Len(log) + 1
  <2>1. from \in Nat /\ from <= Len(log) + 1
    BY <1>2
  <2>2. since'[h] = from /\ \A g \in Handlers \ {h} : since'[g] = since[g]
    BY <1>1, <1>8
  <2>3. since' \in [Handlers -> Nat]
    BY <1>1, <1>8, <2>1
  <2>4. QED
    BY <1>8, <2>1, <2>2, <2>3
<1>14. active' \subseteq Handlers /\ IsFiniteSet(active')
  BY <1>3, <1>8, FS_AddElement
<1>15. CallTypes'
  BY <1>3, <1>12, <1>13, <1>14 DEF CallsInv, CallTypes, StreamInv
<1>16. CallsOnce'
  <2>1. \A u \in Threads : IsInjective(todo'[u])
    BY <1>7, <1>8, <1>9
  <2>2. \A u, y \in Threads : u # y => Range(todo'[u]) \cap Range(todo'[y]) = {}
    BY <1>8, <1>9, <1>11
  <2>3. QED
    BY <2>1, <2>2 DEF CallsOnce, Calls
<1>17. ASSUME NEW g \in Handlers PROVE ToldTrue(g)'
  <2>1. ToldTrue(g)
    BY DEF CallsInv
  <2>2. \A i : Called(g, i)' <=> \E u \in Threads : <<g, i>> \in Range(todo'[u])
    BY DEF Called, Calls
  <2>3. \A i : Called(g, i) <=> \E u \in Threads : <<g, i>> \in Range(todo[u])
    BY DEF Called, Calls
  <2>4. told'[g] = told[g]
    BY <1>3
  <2>5. CASE g = h
    <3>1. Due(h)' = x
      <4>1. since'[h] = from
        BY <1>1, <1>8
      <4>2. QED
        BY <1>3, <1>4, <4>1 DEF Due
    <3>2. \A i : Called(h, i)' <=> i \in x
      BY <1>7, <1>9, <1>10, <2>2, <2>5
    <3>3. told'[h] = << >> /\ Range(<< >>) = {} /\ IsInjective(<< >>)
      BY <1>3, <2>1, <2>4, <2>5 DEF ToldTrue, Range, IsInjective
    <3>4. h \in active'
      BY <1>3
    <3>5. QED
      BY <2>5, <3>1, <3>2, <3>3, <3>4 DEF ToldTrue
  <2>6. CASE g # h
    <3>1. Due(g)' = Due(g)
      <4>1. since'[g] = since[g]
        BY <1>1, <1>8, <2>6
      <4>2. QED
        BY <1>3, <4>1 DEF Due
    <3>2. Range(todo[t]) = {}
      BY <1>3 DEF Range
    <3>3. \A i : Called(g, i)' <=> Called(g, i)
      BY <1>7, <1>9, <2>2, <2>3, <2>6, <3>2
    <3>4. g \in active' <=> g \in active
      BY <1>3, <2>6
    <3>5. QED
      BY <2>1, <2>4, <3>1, <3>3, <3>4 DEF ToldTrue
  <2>7. QED
    BY <2>5, <2>6
<1>18. QED
  BY <1>15, <1>16, <1>17 DEF CallsInv

\* A call that is made is made no more.
LEMMA CallsDeliver ==
    ASSUME CallsInv, NEW t \in Threads, Deliver(t)
    PROVE  CallsInv'
<1>1. /\ todo[t] # << >> /\ todo' = [todo EXCEPT ![t] = Tail(@)]
      /\ told' = [told EXCEPT ![Head(todo[t])[1]] = Append(@, Head(todo[t])[2])]
      /\ log' = log /\ active' = active /\ since' = since
  BY DEF Deliver
<1>2. /\ todo \in [Threads -> Seq(Handlers \X Nat)] /\ told \in [Handlers -> Seq(Nat)]
      /\ \A u \in Threads : IsInjective(todo[u]) /\ \A x \in Threads : u # x => Range(todo[u]) \cap Range(todo[x]) = {}
  BY DEF CallsInv, CallTypes, CallsOnce, Calls
<1>3. /\ Head(todo[t]) \in Handlers \X Nat /\ Head(todo[t]) \in Range(todo[t])
      /\ Tail(todo[t]) \in Seq(Handlers \X Nat) /\ IsInjective(Tail(todo[t]))
      /\ Range(Tail(todo[t])) = Range(todo[t]) \ {Head(todo[t])}
  <2>1. todo[t] \in Seq(Handlers \X Nat) /\ IsInjective(todo[t])
    BY <1>2
  <2>2. QED
    BY <1>1, <2>1, CallsRest
<1>4. PICK h \in Handlers, i \in Nat : Head(todo[t]) = <<h, i>>
  BY <1>3
<1>5. told' = [told EXCEPT ![h] = Append(@, i)]
  <2>1. Head(todo[t])[1] = h /\ Head(todo[t])[2] = i
    BY <1>4
  <2>2. QED
    BY <1>1, <2>1
<1>6. Called(h, i) /\ ToldTrue(h)
  BY <1>3, <1>4 DEF Called, Calls, CallsInv
<1>7. h \in active /\ i \in Due(h) /\ i \notin Range(told[h])
  BY <1>6 DEF ToldTrue
<1>8. /\ todo'[t] = Tail(todo[t]) /\ \A u \in Threads \ {t} : todo'[u] = todo[u]
      /\ todo' \in [Threads -> Seq(Handlers \X Nat)]
  BY <1>1, <1>2, <1>3
<1>9. told[h] \in Seq(Nat) /\ IsInjective(told[h])
  BY <1>2, <1>6 DEF ToldTrue
<1>10. /\ Append(told[h], i) \in Seq(Nat) /\ IsInjective(Append(told[h], i))
       /\ Range(Append(told[h], i)) = Range(told[h]) \cup {i}
  BY <1>7, <1>9, OneMore
<1>11. /\ told'[h] = Append(told[h], i) /\ told' \in [Handlers -> Seq(Nat)]
       /\ \A g \in Handlers \ {h} : told'[g] = told[g]
  BY <1>2, <1>5, <1>10
<1>12. CallTypes'
  BY <1>1, <1>8, <1>11 DEF CallsInv, CallTypes, StreamInv
<1>13. CallsOnce'
  <2>1. \A u \in Threads : IsInjective(todo'[u])
    BY <1>2, <1>3, <1>8
  <2>2. \A u, x \in Threads : u # x => Range(todo'[u]) \cap Range(todo'[x]) = {}
    BY <1>2, <1>3, <1>8
  <2>3. QED
    BY <2>1, <2>2 DEF CallsOnce, Calls
<1>14. \A g, j : Called(g, j)' <=> Called(g, j) /\ <<g, j>> # <<h, i>>
  <2>1. SUFFICES ASSUME NEW g, NEW j PROVE Called(g, j)' <=> Called(g, j) /\ <<g, j>> # <<h, i>>
    OBVIOUS
  <2>2. PICK p : p = <<g, j>>
    OBVIOUS
  <2>3. Called(g, j)' <=> \E u \in Threads : p \in Range(todo'[u])
    BY <2>2 DEF Called, Calls
  <2>4. Called(g, j) <=> \E u \in Threads : p \in Range(todo[u])
    BY <2>2 DEF Called, Calls
  <2>5. (\E u \in Threads : p \in Range(todo'[u])) <=> (\E u \in Threads : p \in Range(todo[u])) /\ p # Head(todo[t])
    BY <1>2, <1>3, <1>8
  <2>6. QED
    BY <1>4, <2>2, <2>3, <2>4, <2>5
<1>15. ASSUME NEW g \in Handlers PROVE ToldTrue(g)'
  <2>1. ToldTrue(g)
    BY DEF CallsInv
  <2>2. Due(g)' = Due(g)
    BY <1>1 DEF Due
  <2>3. active' = active
    BY <1>1
  <2>4. CASE g = h
    <3>1. \A j : Called(h, j)' <=> Called(h, j) /\ j # i
      BY <1>14
    <3>2. /\ IsInjective(told'[h]) /\ Range(told'[h]) = Range(told[h]) \cup {i}
      BY <1>10, <1>11
    <3>3. QED
      BY <1>7, <2>1, <2>2, <2>3, <2>4, <3>1, <3>2 DEF ToldTrue
  <2>5. CASE g # h
    <3>1. \A j : Called(g, j)' <=> Called(g, j)
      BY <1>14, <2>5
    <3>2. told'[g] = told[g]
      BY <1>11, <2>5
    <3>3. QED
      BY <2>1, <2>2, <2>3, <3>1, <3>2 DEF ToldTrue
  <2>6. QED
    BY <2>4, <2>5
<1>16. QED
  BY <1>12, <1>13, <1>15 DEF CallsInv

\* A subscriber is called once with every event of its types from where it
\* subscribed, by whichever thread: history and what is appended meanwhile do not
\* overlap and leave no gap, because both are settled under the one lock.
THEOREM SubscribersHearOnce == ServicesSpec => []SubscriberHearsOnce
<1>1. ServicesInit => CallsInv
  <2>1. SUFFICES ASSUME ServicesInit PROVE CallsInv
    OBVIOUS
  <2>2. log = << >> /\ active = {} /\ DOMAIN log = {} /\ Len(log) = 0
    BY <2>1 DEF ServicesInit
  <2>3. << >> \in Seq(Nat) /\ << >> \in Seq(Handlers \X Nat) /\ Range(<< >>) = {} /\ IsInjective(<< >>)
    BY DEF Range, IsInjective
  <2>4. /\ todo \in [Threads -> Seq(Handlers \X Nat)] /\ told \in [Handlers -> Seq(Nat)]
        /\ \A t \in Threads : todo[t] = << >>
        /\ \A h \in Handlers : told[h] = << >>
    BY <2>1, <2>3 DEF ServicesInit
  <2>5. since \in [Handlers -> Nat] /\ \A h \in Handlers : since[h] = 0
    BY <2>1 DEF ServicesInit
  <2>6. CallTypes
    BY <2>2, <2>4, <2>5, FS_EmptySet DEF CallTypes, StreamInv
  <2>7. CallsOnce
    BY <2>3, <2>4 DEF CallsOnce, Calls
  <2>8. \A h \in Handlers : \A i : ~ Called(h, i)
    BY <2>3, <2>4 DEF Called, Calls
  <2>9. \A h \in Handlers : ToldTrue(h)
    BY <2>2, <2>3, <2>4, <2>8 DEF ToldTrue
  <2>10. QED
    BY <2>6, <2>7, <2>9 DEF CallsInv
<1>2. CallsInv /\ [ServicesNext]_servicesVars => CallsInv'
  <2>1. SUFFICES ASSUME CallsInv, [ServicesNext]_servicesVars PROVE CallsInv'
    OBVIOUS
  <2>2. CASE UNCHANGED <<log, active, todo, since, told>>
    BY <2>1, <2>2 DEF CallsInv, CallTypes, StreamInv, CallsOnce, ToldTrue, Called, Calls, Due
  <2>3. ASSUME NEW r \in Readers, LookUp(r) \/ TimeOut(r)
        PROVE  UNCHANGED <<log, active, todo, since, told>>
    BY <2>3 DEF LookUp, TimeOut
  <2>4. UNCHANGED servicesVars => UNCHANGED <<log, active, todo, since, told>>
    BY DEF servicesVars
  <2>5. QED
    BY <2>1, <2>2, <2>3, <2>4, CallsAppend, CallsSubscribe, CallsDeliver DEF ServicesNext
<1>3. CallsInv => SubscriberHearsOnce
  BY CallsTell
<1>4. QED
  BY <1>1, <1>2, <1>3, PTL DEF ServicesSpec

=============================================================================
