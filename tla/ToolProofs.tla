------------------------------ MODULE ToolProofs ------------------------------
(***************************************************************************)
(* An intent runs at most once and the emergency stop holds, for any       *)
(* number of devices, requests, calls and signals.                         *)
(***************************************************************************)
EXTENDS ToolAccess, FiniteSetTheorems, TLAPS

Results == {"ok", "failed", "unknown", "unavailable"}

Dispatches == [req : Requests \cup {"none"},
               at : {"idle", "admitted", "bound", "returned"},
               result : Results \cup {"none"}]

Memos == [args : {q.args : q \in Requests} \cup {""}, result : Results \cup {"none"}]

\* The dispatch under way on a device is of one of its own requests.
Own(x, d) ==
    /\ x \in Dispatches
    /\ x.at # "idle" => x.req \in Requests /\ x.req.device = d
    /\ x.at = "returned" => x.result \in Results

Full(m) == m \in Memos /\ (m.args # "" => m.result \in Results)

DispatchedOK == dispatched \in [Devices -> Dispatches] /\ \A d \in Devices : Own(dispatched[d], d)

MemoOK == memo \in [Keys -> Memos] /\ \A k \in Keys : Full(memo[k])

CountsOK == ran \in [Keys -> Nat] /\ after \in [Devices -> Nat]

AnswersOK == answers \in [Requests -> SUBSET (Results \cup {"stopped", "conflict"})]

ToolTypeOK == DispatchedOK /\ MemoOK /\ CountsOK /\ AnswersOK

\* What is told of a request is what is remembered of its key; while a key is
\* being executed nothing is, and the adapter was reached by nobody before.
Remembered(k) == memo[k].args # ""

Executing(d, k) == dispatched[d].at \in {"bound", "returned"} /\ dispatched[d].req.key = k

Executed(d, k) == dispatched[d].at = "returned" /\ dispatched[d].req.key = k

ToldIsRemembered ==
    \A q \in Requests : \A x \in answers[q] \ {"stopped"} : Remembered(q.key) /\ x = Cached(q)

NewWhileExecuting == \A k \in Keys, d \in Devices : Executing(d, k) => ~Remembered(k)

RanLeavesTrace ==
    \A k \in Keys :
        /\ ran[k] <= 1
        /\ ran[k] = 1 => Remembered(k) \/ \E d \in Devices : Executed(d, k)

RunsOnce == ToldIsRemembered /\ NewWhileExecuting /\ RanLeavesTrace

\* A device that executed while it was stopped is stopped since, and was told
\* so or is about to return.
StopKept ==
    \A d \in Devices :
        /\ after[d] <= 1
        /\ after[d] = 1 => IsStopped(d) /\ dispatched[d].at \in {"idle", "returned"}

-----------------------------------------------------------------------------
(* Lemmas.                                                                 *)

LEMMA KeyType == ASSUME NEW q \in Requests PROVE q.key \in Keys
  BY DEF Keys

\* One device has the key: no other one is executing it.
LEMMA OneExecutes ==
    ASSUME DispatchedOK, NEW c \in Devices, NEW d \in Devices, NEW k,
           dispatched[c].at # "idle", dispatched[c].req.key = k,
           dispatched[d].at # "idle", dispatched[d].req.key = k
    PROVE  c = d
<1>1. /\ dispatched[c].req \in Requests /\ dispatched[c].req.device = c
      /\ dispatched[d].req \in Requests /\ dispatched[d].req.device = d
  BY DEF DispatchedOK, Own
<1>2. QED
  BY <1>1, RequestsAssumption

LEMMA CachedType ==
    ASSUME MemoOK, NEW q \in Requests
    PROVE  /\ Cached(q) \in Results \cup {"none", "conflict"}
           /\ Cached(q) = "none" <=> ~Remembered(q.key)
<1>1. memo[q.key].args # "" => memo[q.key].result \in Results
  BY KeyType DEF MemoOK, Full
<1>2. CASE memo[q.key].args = ""
  <2>1. Cached(q) = "none"
    BY <1>2, RequestsAssumption DEF Cached
  <2>2. QED
    BY <1>2, <2>1 DEF Remembered
<1>3. CASE memo[q.key].args # "" /\ memo[q.key].args = q.args
  <2>1. Cached(q) = memo[q.key].result
    BY <1>3 DEF Cached
  <2>2. QED
    BY <1>1, <1>3, <2>1 DEF Remembered, Results
<1>4. CASE memo[q.key].args # "" /\ memo[q.key].args # q.args
  <2>1. Cached(q) = "conflict"
    BY <1>4 DEF Cached
  <2>2. QED
    BY <1>4, <2>1 DEF Remembered
<1>5. QED
  BY <1>2, <1>3, <1>4

-----------------------------------------------------------------------------
(* Types.                                                                  *)

LEMMA NewDispatch ==
    ASSUME DispatchedOK, NEW d \in Devices, NEW x, Own(x, d),
           dispatched' = [dispatched EXCEPT ![d] = x]
    PROVE  DispatchedOK'
<1>1. dispatched' \in [Devices -> Dispatches]
  BY DEF DispatchedOK, Own
<1>2. \A c \in Devices : Own(dispatched[c], c)
  BY DEF DispatchedOK
<1>3. ASSUME NEW c \in Devices PROVE Own(dispatched'[c], c)
  <2>1. CASE c = d
    <3>1. dispatched'[c] = x
      BY <2>1 DEF DispatchedOK
    <3>2. QED
      BY <2>1, <3>1
  <2>2. CASE c # d
    <3>1. dispatched'[c] = dispatched[c]
      BY <2>2 DEF DispatchedOK
    <3>2. QED
      BY <1>2, <3>1
  <2>3. QED
    BY <2>1, <2>2
<1>4. QED
  BY <1>1, <1>3 DEF DispatchedOK, Own

LEMMA OwnIntro ==
    ASSUME NEW d, NEW q \in Requests, q.device = d,
           NEW at \in {"admitted", "bound", "returned"}, NEW result \in Results \cup {"none"},
           at = "returned" => result \in Results
    PROVE  Own([req |-> q, at |-> at, result |-> result], d)
  BY DEF Own, Dispatches

LEMMA OwnQuiet == ASSUME NEW d PROVE Own(Quiet, d)
  BY DEF Own, Dispatches, Quiet

LEMMA NewAnswer ==
    ASSUME DispatchedOK, AnswersOK, NEW d \in Devices, NEW q \in Requests, NEW x,
           x \in Results \cup {"stopped", "conflict"}, Answer(d, q, x)
    PROVE  DispatchedOK' /\ AnswersOK'
<1>1. DispatchedOK'
  BY NewDispatch, OwnQuiet DEF Answer
<1>2. AnswersOK'
  BY DEF Answer, AnswersOK
<1>3. QED
  BY <1>1, <1>2

LEMMA ToolInitType == ToolInit => ToolTypeOK
<1> SUFFICES ASSUME ToolInit PROVE ToolTypeOK
  OBVIOUS
<1>2. DispatchedOK
  <2>1. \A d \in Devices : Own(dispatched[d], d)
    BY OwnQuiet DEF ToolInit
  <2>2. dispatched \in [Devices -> Dispatches]
    BY DEF ToolInit, Quiet, Dispatches
  <2>3. QED
    BY <2>1, <2>2 DEF DispatchedOK
<1>3. MemoOK
  BY DEF ToolInit, MemoOK, Full, Memos
<1>4. CountsOK /\ AnswersOK
  BY DEF ToolInit, CountsOK, AnswersOK
<1>5. QED
  BY <1>2, <1>3, <1>4 DEF ToolTypeOK

LEMMA ToolStepType == ToolTypeOK /\ [ToolNext]_toolVars => ToolTypeOK'
<1> SUFFICES ASSUME ToolTypeOK, [ToolNext]_toolVars PROVE ToolTypeOK'
  OBVIOUS
<1>0. DispatchedOK /\ MemoOK /\ CountsOK /\ AnswersOK
  BY DEF ToolTypeOK
<1>d. UNCHANGED dispatched => DispatchedOK'
  BY <1>0 DEF DispatchedOK, Own
<1>m. UNCHANGED memo => MemoOK'
  BY <1>0 DEF MemoOK, Full
<1>c. UNCHANGED <<ran, after>> => CountsOK'
  BY <1>0 DEF CountsOK
<1>a. UNCHANGED answers => AnswersOK'
  BY <1>0 DEF AnswersOK
<1>1. CASE UNCHANGED toolVars
  BY <1>1, <1>d, <1>m, <1>c, <1>a DEF toolVars, ToolTypeOK
<1>2. ASSUME NEW s \in Scopes, Signal(s) PROVE ToolTypeOK'
  BY <1>2, <1>d, <1>m, <1>c, <1>a DEF Signal, ToolTypeOK
<1>3. ASSUME NEW s \in Scopes, Clear(s) PROVE ToolTypeOK'
  <2>1. CountsOK'
    BY <1>0, <1>3 DEF Clear, CountsOK
  <2>2. QED
    BY <1>3, <1>d, <1>m, <1>a, <2>1 DEF Clear, ToolTypeOK
<1>4. ASSUME NEW d \in Devices, Flip(d) PROVE ToolTypeOK'
  BY <1>4, <1>d, <1>m, <1>c, <1>a DEF Flip, ToolTypeOK
<1>5. ASSUME NEW d \in Devices, NEW q \in Requests, Dispatch(d, q) PROVE ToolTypeOK'
  <2>1. MemoOK' /\ CountsOK'
    BY <1>5, <1>m, <1>c DEF Dispatch
  <2>2. CASE Answer(d, q, "stopped")
    BY <1>0, <2>1, <2>2, NewAnswer DEF ToolTypeOK
  <2>3. CASE /\ dispatched' = [dispatched EXCEPT ![d] =
                                  [req |-> q, at |-> "admitted", result |-> "none"]]
             /\ UNCHANGED answers
    <3>1. q.device = d
      BY <1>5 DEF Dispatch
    <3>2. Own([req |-> q, at |-> "admitted", result |-> "none"], d)
      BY <3>1, OwnIntro
    <3>3. DispatchedOK'
      BY <1>0, <2>3, <3>2, NewDispatch
    <3>4. QED
      BY <1>a, <2>1, <2>3, <3>3 DEF ToolTypeOK
  <2>4. QED
    BY <1>5, <2>2, <2>3 DEF Dispatch
<1>6. ASSUME NEW d \in Devices, Look(d) PROVE ToolTypeOK'
  <2> DEFINE q == dispatched[d].req
  <2>1. q \in Requests /\ q.device = d
    BY <1>0, <1>6 DEF Look, DispatchedOK, Own
  <2>2. MemoOK' /\ CountsOK'
    BY <1>6, <1>m, <1>c DEF Look
  <2>3. CASE Cached(q) # "none" /\ Answer(d, q, Cached(q))
    <3>1. Cached(q) \in Results \cup {"stopped", "conflict"}
      BY <1>0, <2>1, <2>3, CachedType
    <3>2. QED
      BY <1>0, <2>1, <2>2, <2>3, <3>1, NewAnswer DEF ToolTypeOK
  <2>4. CASE /\ dispatched' = [dispatched EXCEPT ![d] =
                     IF d \in up THEN [req |-> q, at |-> "bound", result |-> "none"]
                     ELSE [req |-> q, at |-> "returned", result |-> "unavailable"]]
             /\ UNCHANGED answers
    <3>1. CASE d \in up
      <4>1. dispatched' = [dispatched EXCEPT ![d] = [req |-> q, at |-> "bound", result |-> "none"]]
        BY <2>4, <3>1
      <4>2. Own([req |-> q, at |-> "bound", result |-> "none"], d)
        BY <2>1, OwnIntro
      <4>3. DispatchedOK'
        BY <1>0, <4>1, <4>2, NewDispatch
      <4>4. QED
        BY <1>a, <2>2, <2>4, <4>3 DEF ToolTypeOK
    <3>2. CASE d \notin up
      <4>1. dispatched' = [dispatched EXCEPT ![d] =
                               [req |-> q, at |-> "returned", result |-> "unavailable"]]
        BY <2>4, <3>2
      <4>2. Own([req |-> q, at |-> "returned", result |-> "unavailable"], d)
        BY <2>1, OwnIntro DEF Results
      <4>3. DispatchedOK'
        BY <1>0, <4>1, <4>2, NewDispatch
      <4>4. QED
        BY <1>a, <2>2, <2>4, <4>3 DEF ToolTypeOK
    <3>3. QED
      BY <3>1, <3>2
  <2>5. QED
    BY <1>6, <2>3, <2>4 DEF Look
<1>7. ASSUME NEW d \in Devices, Invoke(d) PROVE ToolTypeOK'
  <2> DEFINE q == dispatched[d].req
  <2>1. q \in Requests /\ q.device = d /\ q.key \in Keys
    BY <1>0, <1>7, KeyType DEF Invoke, DispatchedOK, Own
  <2>2. PICK x \in {"ok", "failed", "unknown"} :
          dispatched' = [dispatched EXCEPT ![d] = [req |-> q, at |-> "returned", result |-> x]]
    BY <1>7 DEF Invoke
  <2>3. Own([req |-> q, at |-> "returned", result |-> x], d)
    BY <2>1, OwnIntro DEF Results
  <2>4. DispatchedOK'
    BY <1>0, <2>2, <2>3, NewDispatch
  <2>5. CountsOK'
    BY <1>0, <1>7, <2>1 DEF Invoke, CountsOK
  <2>6. QED
    BY <1>7, <1>m, <1>a, <2>4, <2>5 DEF Invoke, ToolTypeOK
<1>8. ASSUME NEW d \in Devices, Return(d) PROVE ToolTypeOK'
  <2> DEFINE q == dispatched[d].req
             x == dispatched[d].result
  <2>1. q \in Requests /\ q.key \in Keys /\ x \in Results
    BY <1>0, <1>8, KeyType DEF Return, DispatchedOK, Own
  <2>2. DispatchedOK' /\ AnswersOK'
    BY <1>0, <1>8, <2>1, NewAnswer DEF Return
  <2>3. Full([args |-> q.args, result |-> x]) /\ [args |-> q.args, result |-> x] \in Memos
    BY <2>1 DEF Full, Memos
  <2>4. memo' \in {memo, [memo EXCEPT ![q.key] = [args |-> q.args, result |-> x]]}
    BY <1>8 DEF Return, Remember
  <2>5. MemoOK'
    BY <1>0, <2>1, <2>3, <2>4 DEF MemoOK, Full
  <2>6. QED
    BY <1>8, <1>c, <2>2, <2>5 DEF Return, ToolTypeOK
<1>9. QED
  BY <1>1, <1>2, <1>3, <1>4, <1>5, <1>6, <1>7, <1>8 DEF ToolNext

LEMMA ToolTypeCorrect == ToolSpec => []ToolTypeOK
  BY ToolInitType, ToolStepType, PTL DEF ToolSpec

-----------------------------------------------------------------------------
(* At most once.                                                           *)

LEMMA CachedKept ==
    ASSUME NEW q \in Requests, memo'[q.key] = memo[q.key] PROVE Cached(q)' = Cached(q)
  BY DEF Cached

LEMMA ToolStepRunsOnce ==
    ToolTypeOK /\ ToolTypeOK' /\ RunsOnce /\ [ToolNext]_toolVars => RunsOnce'
<1> SUFFICES ASSUME ToolTypeOK, ToolTypeOK', RunsOnce, [ToolNext]_toolVars PROVE RunsOnce'
  OBVIOUS
<1>0. /\ DispatchedOK /\ MemoOK /\ CountsOK /\ AnswersOK
      /\ ToldIsRemembered /\ NewWhileExecuting /\ RanLeavesTrace
  BY DEF ToolTypeOK, RunsOnce
<1>1. CASE UNCHANGED <<memo, dispatched, ran, answers>>
  <2>1. \A q \in Requests : Cached(q)' = Cached(q)
    BY <1>1, CachedKept
  <2>2. ToldIsRemembered'
    BY <1>0, <1>1, <2>1 DEF ToldIsRemembered, Remembered
  <2>3. NewWhileExecuting' /\ RanLeavesTrace'
    BY <1>0, <1>1 DEF NewWhileExecuting, RanLeavesTrace, Executing, Executed, Remembered
  <2>4. QED
    BY <2>2, <2>3 DEF RunsOnce
<1>2. ASSUME NEW d \in Devices, NEW q \in Requests, Dispatch(d, q) PROVE RunsOnce'
  <2>1. /\ dispatched[d].at = "idle" /\ UNCHANGED <<memo, ran>>
        /\ \A c \in Devices \ {d} : dispatched'[c] = dispatched[c]
        /\ dispatched'[d].at \in {"idle", "admitted"}
    BY <1>0, <1>2 DEF Dispatch, Answer, Quiet, DispatchedOK
  <2>2. \A p \in Requests : answers'[p] \ {"stopped"} = answers[p] \ {"stopped"}
    BY <1>0, <1>2 DEF Dispatch, Answer, AnswersOK
  <2>3. \A p \in Requests : Cached(p)' = Cached(p)
    BY <2>1, CachedKept
  <2>4. ToldIsRemembered'
    BY <1>0, <2>1, <2>2, <2>3 DEF ToldIsRemembered, Remembered
  <2>5. NewWhileExecuting'
    BY <1>0, <2>1 DEF NewWhileExecuting, Executing, Remembered
  <2>6. RanLeavesTrace'
    BY <1>0, <2>1 DEF RanLeavesTrace, Executed, Remembered
  <2>7. QED
    BY <2>4, <2>5, <2>6 DEF RunsOnce
<1>3. ASSUME NEW d \in Devices, Look(d) PROVE RunsOnce'
  <2> DEFINE q == dispatched[d].req
  <2>1. q \in Requests /\ q.key \in Keys /\ dispatched[d].at = "admitted"
    BY <1>0, <1>3, KeyType DEF Look, DispatchedOK, Own
  <2>2. /\ UNCHANGED <<memo, ran>>
        /\ \A c \in Devices \ {d} : dispatched'[c] = dispatched[c]
    BY <1>0, <1>3 DEF Look, Answer, DispatchedOK
  <2>3. \A p \in Requests : Cached(p)' = Cached(p)
    BY <2>2, CachedKept
  <2>4. \A k \in Keys : Remembered(k)' = Remembered(k)
    BY <2>2 DEF Remembered
  <2>5. RanLeavesTrace'
    BY <1>0, <2>1, <2>2, <2>4 DEF RanLeavesTrace, Executed
  <2>6. CASE Cached(q) # "none" /\ Answer(d, q, Cached(q))
    <3>1. Remembered(q.key)
      BY <1>0, <2>1, <2>6, CachedType
    <3>2. answers'[q] = answers[q] \cup {Cached(q)} /\ \A p \in Requests \ {q} : answers'[p] = answers[p]
      BY <1>0, <2>1, <2>6 DEF Answer, AnswersOK
    <3>3. ToldIsRemembered'
      BY <1>0, <2>1, <2>3, <2>4, <3>1, <3>2, KeyType DEF ToldIsRemembered
    <3>4. dispatched'[d].at = "idle"
      BY <1>0, <2>6 DEF Answer, Quiet, DispatchedOK
    <3>5. NewWhileExecuting'
      BY <1>0, <2>2, <2>4, <3>4 DEF NewWhileExecuting, Executing
    <3>6. QED
      BY <2>5, <3>3, <3>5 DEF RunsOnce
  <2>7. CASE /\ Cached(q) = "none" /\ UNCHANGED answers
             /\ dispatched' = [dispatched EXCEPT ![d] =
                     IF d \in up THEN [req |-> q, at |-> "bound", result |-> "none"]
                     ELSE [req |-> q, at |-> "returned", result |-> "unavailable"]]
    <3>1. ~Remembered(q.key)
      BY <1>0, <2>1, <2>7, CachedType
    <3>2. ToldIsRemembered'
      BY <1>0, <2>3, <2>4, <2>7, KeyType DEF ToldIsRemembered
    <3>3. dispatched'[d].req = q
      BY <1>0, <2>7 DEF DispatchedOK
    <3>4. NewWhileExecuting'
      BY <1>0, <2>2, <2>4, <3>1, <3>3 DEF NewWhileExecuting, Executing
    <3>5. QED
      BY <2>5, <3>2, <3>4 DEF RunsOnce
  <2>8. QED
    BY <1>3, <2>6, <2>7 DEF Look
<1>4. ASSUME NEW d \in Devices, Invoke(d) PROVE RunsOnce'
  <2> DEFINE k == dispatched[d].req.key
  <2>1. dispatched[d].at = "bound" /\ k \in Keys
    BY <1>0, <1>4, KeyType DEF Invoke, DispatchedOK, Own
  <2>2. /\ dispatched'[d].at = "returned" /\ dispatched'[d].req = dispatched[d].req
        /\ \A c \in Devices \ {d} : dispatched'[c] = dispatched[c]
    BY <1>0, <1>4 DEF Invoke, DispatchedOK
  <2>3. /\ UNCHANGED <<memo, answers>> /\ ran'[k] = ran[k] + 1
        /\ \A l \in Keys \ {k} : ran'[l] = ran[l]
    BY <1>0, <1>4, <2>1 DEF Invoke, CountsOK
  <2>4. \A p \in Requests : Cached(p)' = Cached(p)
    BY <2>3, CachedKept
  <2>5. \A l \in Keys : Remembered(l)' = Remembered(l)
    BY <2>3 DEF Remembered
  <2>6. ToldIsRemembered'
    BY <1>0, <2>3, <2>4, <2>5, KeyType DEF ToldIsRemembered
  <2>7. NewWhileExecuting'
    BY <1>0, <2>1, <2>2, <2>5 DEF NewWhileExecuting, Executing
  <2>8. ran[k] = 0
    <3>1. SUFFICES ASSUME ran[k] = 1 PROVE FALSE
      BY <1>0, <2>1 DEF CountsOK, RanLeavesTrace
    <3>2. ~Remembered(k)
      BY <1>0, <2>1 DEF NewWhileExecuting, Executing
    <3>3. PICK c \in Devices : Executed(c, k)
      BY <1>0, <2>1, <3>1, <3>2 DEF RanLeavesTrace
    <3>4. c = d
      BY <1>0, <2>1, <3>3, OneExecutes DEF Executed
    <3>5. QED
      BY <2>1, <3>3, <3>4 DEF Executed
  <2>9. RanLeavesTrace'
    BY <1>0, <2>1, <2>2, <2>3, <2>5, <2>8 DEF RanLeavesTrace, Executed
  <2>10. QED
    BY <2>6, <2>7, <2>9 DEF RunsOnce
<1>5. ASSUME NEW d \in Devices, Return(d) PROVE RunsOnce'
  <2>0. PICK q \in Requests, x \in Results : q = dispatched[d].req /\ x = dispatched[d].result
    BY <1>0, <1>5 DEF Return, DispatchedOK, Own
  <2>1. q.key \in Keys /\ q.args # "" /\ dispatched[d].at = "returned"
    BY <1>5, KeyType, RequestsAssumption DEF Return
  <2>2. ~Remembered(q.key)
    BY <1>0, <2>0, <2>1 DEF NewWhileExecuting, Executing
  <2>3. memo' = [memo EXCEPT ![q.key] = [args |-> q.args, result |-> x]]
    BY <1>5, <2>0, <2>2 DEF Return, Remember, Remembered
  <2>4. /\ memo'[q.key].args = q.args /\ memo'[q.key].result = x
        /\ \A k \in Keys \ {q.key} : memo'[k] = memo[k]
    BY <1>0, <2>1, <2>3 DEF MemoOK
  <2>5. /\ dispatched'[d].at = "idle" /\ UNCHANGED ran
        /\ \A c \in Devices \ {d} : dispatched'[c] = dispatched[c]
    BY <1>0, <1>5 DEF Return, Answer, Quiet, DispatchedOK
  <2>6. answers'[q] = answers[q] \cup {x} /\ \A p \in Requests \ {q} : answers'[p] = answers[p]
    BY <1>0, <1>5, <2>0 DEF Return, Answer, AnswersOK
  <2>7. Remembered(q.key)' /\ \A k \in Keys \ {q.key} : Remembered(k)' <=> Remembered(k)
    <3>1. Remembered(q.key)'
      BY <2>1, <2>4 DEF Remembered
    <3>2. ASSUME NEW k \in Keys \ {q.key} PROVE Remembered(k)' <=> Remembered(k)
      BY <2>4 DEF Remembered
    <3>3. QED
      BY <3>1, <3>2
  <2>8. Cached(q)' = x
    BY <2>1, <2>4 DEF Cached
  <2>9. ToldIsRemembered'
    <3> SUFFICES ASSUME NEW p \in Requests, NEW y \in answers'[p] \ {"stopped"}
                 PROVE  Remembered(p.key)' /\ y = Cached(p)'
      BY DEF ToldIsRemembered
    <3>1. CASE y \in answers[p]
      <4>1. Remembered(p.key) /\ y = Cached(p) /\ p.key # q.key
        BY <1>0, <2>2, <3>1 DEF ToldIsRemembered
      <4>2. Cached(p)' = Cached(p)
        BY <2>4, <4>1, CachedKept, KeyType
      <4>3. QED
        BY <2>7, <4>1, <4>2, KeyType
    <3>2. CASE y \notin answers[p]
      BY <2>6, <2>7, <2>8, <3>2
    <3>3. QED
      BY <3>1, <3>2
  <2>10. NewWhileExecuting'
    <3> SUFFICES ASSUME NEW k \in Keys, NEW c \in Devices, Executing(c, k)' PROVE ~Remembered(k)'
      BY DEF NewWhileExecuting
    <3>1. c # d /\ Executing(c, k)
      BY <2>5 DEF Executing
    <3>2. k # q.key
      BY <1>0, <2>0, <2>1, <3>1, OneExecutes DEF Executing
    <3>3. QED
      BY <1>0, <2>7, <3>1, <3>2 DEF NewWhileExecuting
  <2>11. RanLeavesTrace'
    <3> SUFFICES ASSUME NEW k \in Keys
                 PROVE  /\ ran'[k] <= 1
                        /\ ran'[k] = 1 => Remembered(k)' \/ \E c \in Devices : Executed(c, k)'
      BY DEF RanLeavesTrace
    <3>1. ASSUME NEW c \in Devices, Executed(c, k), k # q.key PROVE Executed(c, k)'
      BY <2>0, <2>5, <3>1 DEF Executed
    <3>2. QED
      BY <1>0, <2>5, <2>7, <3>1 DEF RanLeavesTrace
  <2>12. QED
    BY <2>9, <2>10, <2>11 DEF RunsOnce
<1>6. QED
  BY <1>1, <1>2, <1>3, <1>4, <1>5 DEF ToolNext, toolVars, Signal, Clear, Flip

LEMMA RunsOnceCorrect == ToolSpec => []RunsOnce
<1>1. ToolInit => RunsOnce
  <2> SUFFICES ASSUME ToolInit PROVE RunsOnce
    OBVIOUS
  <2>1. ToldIsRemembered
    BY DEF ToolInit, ToldIsRemembered
  <2>2. NewWhileExecuting
    BY DEF ToolInit, NewWhileExecuting, Executing, Quiet
  <2>3. RanLeavesTrace
    <3>1. \A k \in Keys : ran[k] = 0
      BY DEF ToolInit
    <3>2. QED
      BY <3>1 DEF RanLeavesTrace
  <2>4. QED
    BY <2>1, <2>2, <2>3 DEF RunsOnce
<1>2. QED
  BY <1>1, ToolTypeCorrect, ToolStepRunsOnce, PTL DEF ToolSpec

\* For any devices, requests and number of calls: a device executes an intent
\* at most once, and every repeated call that the stop does not refuse is told
\* the same result (ToolRuntime._invoke, _cached, _remember).
THEOREM IntentRunsOnceAlways == ToolSpec => []IntentRunsOnce
<1>1. ToolTypeOK /\ RunsOnce => IntentRunsOnce
  <2> SUFFICES ASSUME ToolTypeOK, RunsOnce PROVE IntentRunsOnce
    OBVIOUS
  <2>1. \A k \in Keys : ran[k] <= 1
    BY DEF RunsOnce, RanLeavesTrace
  <2>2. ASSUME NEW q \in Requests PROVE Cardinality(answers[q] \ {"stopped"}) <= 1
    <3>1. answers[q] \ {"stopped"} \subseteq {Cached(q)}
      BY DEF RunsOnce, ToldIsRemembered
    <3>2. IsFiniteSet({Cached(q)}) /\ Cardinality({Cached(q)}) = 1
      BY FS_Singleton
    <3>3. QED
      BY <3>1, <3>2, FS_Subset
  <2>3. QED
    BY <2>1, <2>2 DEF IntentRunsOnce
<1>2. QED
  BY <1>1, ToolTypeCorrect, RunsOnceCorrect, PTL

-----------------------------------------------------------------------------
(* The stop.                                                               *)

LEMMA ToolStepStop ==
    ToolTypeOK /\ StopKept /\ [ToolNext]_toolVars => StopKept'
<1> SUFFICES ASSUME ToolTypeOK, StopKept, [ToolNext]_toolVars PROVE StopKept'
  OBVIOUS
<1>0. DispatchedOK /\ CountsOK
  BY DEF ToolTypeOK
<1>1. CASE UNCHANGED <<stopped, dispatched, after>>
  BY <1>1 DEF StopKept, IsStopped
<1>2. ASSUME NEW s \in Scopes, Signal(s) PROVE StopKept'
  BY <1>2 DEF Signal, StopKept, IsStopped
<1>3. ASSUME NEW s \in Scopes, Clear(s) PROVE StopKept'
  <2>1. ASSUME NEW d \in Devices
        PROVE  after'[d] = IF IsStopped(d)' THEN after[d] ELSE 0
    BY <1>0, <1>3 DEF Clear, IsStopped, CountsOK
  <2>2. QED
    BY <1>3, <2>1 DEF Clear, StopKept
<1>4. ASSUME NEW d \in Devices, NEW q \in Requests, Dispatch(d, q) PROVE StopKept'
  <2>1. /\ dispatched[d].at = "idle" /\ UNCHANGED <<stopped, after>>
        /\ \A c \in Devices \ {d} : dispatched'[c] = dispatched[c]
        /\ IsStopped(d) => dispatched'[d].at = "idle"
    BY <1>0, <1>4 DEF Dispatch, Answer, Quiet, DispatchedOK
  <2>2. QED
    BY <2>1 DEF StopKept, IsStopped
<1>5. ASSUME NEW d \in Devices, Look(d) PROVE StopKept'
  <2>1. /\ dispatched[d].at = "admitted" /\ UNCHANGED <<stopped, after>>
        /\ \A c \in Devices \ {d} : dispatched'[c] = dispatched[c]
    BY <1>0, <1>5 DEF Look, Answer, DispatchedOK
  <2>2. QED
    BY <2>1 DEF StopKept, IsStopped
<1>6. ASSUME NEW d \in Devices, Invoke(d) PROVE StopKept'
  <2>1. /\ dispatched[d].at = "bound" /\ dispatched'[d].at = "returned" /\ UNCHANGED stopped
        /\ \A c \in Devices \ {d} : dispatched'[c] = dispatched[c] /\ after'[c] = after[c]
    BY <1>0, <1>6 DEF Invoke, DispatchedOK, CountsOK
  <2>2. after'[d] = IF IsStopped(d) THEN after[d] + 1 ELSE after[d]
    BY <1>0, <1>6 DEF Invoke, IsStopped, CountsOK
  <2>3. after[d] = 0
    BY <1>0, <2>1 DEF StopKept, CountsOK
  <2>4. QED
    BY <2>1, <2>2, <2>3 DEF StopKept, IsStopped
<1>7. ASSUME NEW d \in Devices, Return(d) PROVE StopKept'
  <2>1. /\ dispatched'[d].at = "idle" /\ UNCHANGED <<stopped, after>>
        /\ \A c \in Devices \ {d} : dispatched'[c] = dispatched[c]
    BY <1>0, <1>7 DEF Return, Answer, Quiet, DispatchedOK
  <2>2. QED
    BY <2>1 DEF StopKept, IsStopped
<1>8. QED
  BY <1>1, <1>2, <1>3, <1>4, <1>5, <1>6, <1>7 DEF ToolNext, toolVars, Flip

\* For any devices and any signals: a stopped device executes at most the one
\* action that was under way when the stop came (ToolGateway.dispatch looks at
\* the stop before the call and never after).
THEOREM StopHoldsAlways == ToolSpec => []StopHolds
<1>1. ToolInit => StopKept
  <2> SUFFICES ASSUME ToolInit PROVE StopKept
    OBVIOUS
  <2>1. \A d \in Devices : after[d] = 0
    BY DEF ToolInit
  <2>2. QED
    BY <2>1 DEF StopKept
<1>2. StopKept => StopHolds
  BY DEF StopKept, StopHolds
<1>3. QED
  BY <1>1, <1>2, ToolTypeCorrect, ToolStepStop, PTL DEF ToolSpec
=============================================================================
