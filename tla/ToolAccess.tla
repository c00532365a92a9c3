------------------------------ MODULE ToolAccess ------------------------------
(***************************************************************************)
(* From an ActionIntent to the device: ToolGateway looks at the emergency  *)
(* stop, ToolRuntime at what it remembers of the intent's id, at the       *)
(* binding of tool and device, and then the adapter executes.  The stop is *)
(* signalled by another thread, at any moment, and leaves a trail on the   *)
(* Blackboard.                                                             *)
(*                                                                         *)
(* One host serves a device and dispatches its intents one after the       *)
(* other; it may dispatch an intent again.  Adapters are external.         *)
(***************************************************************************)
EXTENDS Naturals, Sequences, FiniteSets, SequencesExt

CONSTANTS
    Devices,
    Requests,      \* [key, args, device]: what dispatch hands to invoke
    MaxCalls,      \* bound on the calls of a device
    MaxSignals     \* bound on the signals and releases of the stop

\* An intent's id names its assignment, which names one device; its arguments
\* name the device at least.
ASSUME RequestsAssumption ==
    /\ \A q \in Requests : q.device \in Devices /\ q.args # ""
    /\ \A p, q \in Requests : p.key = q.key => p.device = q.device

Scopes == Devices \cup {"all"}

Keys == {q.key : q \in Requests}

VARIABLES
    stopped,    \* MockEmergencyStopBus._stopped
    trail,      \* ESTOP events the Blackboard committed: their ids
    up,         \* what _binding finds: card online and healthy, adapter there
    memo,       \* ToolRuntime._idempotency: [args, result] by key, args "" at first
    dispatched, \* the dispatch under way on each device
    calls,
    ran,        \* history: executions of a key
    answers,    \* history: results of a request
    after,      \* history: executions on a device since it was stopped
    signals     \* history: how many signals and releases there were

toolVars == <<stopped, trail, up, memo, dispatched, calls, ran, answers, after, signals>>

Quiet == [req |-> "none", at |-> "idle", result |-> "none"]

ToolInit ==
    /\ stopped = {} /\ trail = << >>
    /\ up = Devices
    /\ memo = [k \in Keys |-> [args |-> "", result |-> "none"]]
    /\ dispatched = [d \in Devices |-> Quiet]
    /\ calls = [d \in Devices |-> 0]
    /\ ran = [k \in Keys |-> 0]
    /\ answers = [q \in Requests |-> {}]
    /\ after = [d \in Devices |-> 0]
    /\ signals = 0

-----------------------------------------------------------------------------
(* The emergency stop.                                                     *)

\* Mutant: a stop of everything is not looked up for a device.
IsStopped_Own(d) == d \in stopped

IsStopped(d) == "all" \in stopped \/ d \in stopped

\* Blackboard.append: an id that is there is a duplicate or a conflict.
Trail(id) == IF id \in Range(trail) THEN trail ELSE Append(trail, id)

Signal(s) ==
    /\ signals < MaxSignals
    /\ stopped' = stopped \cup {s}
    /\ trail' = Trail(<<"estop", s>>)
    /\ signals' = signals + 1
    /\ UNCHANGED <<up, memo, dispatched, calls, ran, answers, after>>

Clear(s) ==
    /\ signals < MaxSignals
    /\ stopped' = stopped \ {s}
    /\ trail' = Trail(<<"estop-clear", s>>)
    /\ signals' = signals + 1
    /\ after' = [d \in Devices |-> IF {"all", d} \cap (stopped \ {s}) = {} THEN 0 ELSE after[d]]
    /\ UNCHANGED <<up, memo, dispatched, calls, ran, answers>>

\* Registry.refresh, adapters that come and go.
Flip(d) ==
    /\ up' = IF d \in up THEN up \ {d} ELSE up \cup {d}
    /\ UNCHANGED <<stopped, trail, memo, dispatched, calls, ran, answers, after, signals>>

-----------------------------------------------------------------------------
(* ToolGateway.dispatch and ToolRuntime._invoke.                           *)

Answer(d, q, result) ==
    /\ answers' = [answers EXCEPT ![q] = @ \cup {result}]
    /\ dispatched' = [dispatched EXCEPT ![d] = Quiet]

Dispatch(d, q) ==
    /\ dispatched[d].at = "idle" /\ q.device = d /\ calls[d] < MaxCalls
    /\ calls' = [calls EXCEPT ![d] = @ + 1]
    /\ \/ IsStopped(d) /\ Answer(d, q, "stopped")
       \/ /\ ~IsStopped(d)
          /\ dispatched' = [dispatched EXCEPT ![d] = [req |-> q, at |-> "admitted", result |-> "none"]]
          /\ UNCHANGED answers
    /\ UNCHANGED <<stopped, trail, up, memo, ran, after, signals>>

\* _cached: the remembered result, or a conflict when the arguments differ.
Cached(q) ==
    CASE memo[q.key].args = ""     -> "none"
      [] memo[q.key].args = q.args -> memo[q.key].result
      [] OTHER                     -> "conflict"

Look(d) ==
    LET q == dispatched[d].req
    IN  /\ dispatched[d].at = "admitted"
        /\ \/ Cached(q) # "none" /\ Answer(d, q, Cached(q))
           \/ /\ Cached(q) = "none"
              /\ dispatched' = [dispatched EXCEPT ![d] =
                     IF d \in up THEN [req |-> q, at |-> "bound", result |-> "none"]
                     ELSE [req |-> q, at |-> "returned", result |-> "unavailable"]]
              /\ UNCHANGED answers
        /\ UNCHANGED <<stopped, trail, up, memo, calls, ran, after, signals>>

\* The adapter: a receipt, good or bad, an exception, or a TimeoutError.
Invoke(d) ==
    LET q == dispatched[d].req
    IN  /\ dispatched[d].at = "bound"
        /\ ran' = [ran EXCEPT ![q.key] = @ + 1]
        /\ after' = [after EXCEPT ![d] = IF {"all", d} \cap stopped # {} THEN @ + 1 ELSE @]
        /\ \E result \in {"ok", "failed", "unknown"} :
              dispatched' = [dispatched EXCEPT ![d] = [req |-> q, at |-> "returned", result |-> result]]
        /\ UNCHANGED <<stopped, trail, up, memo, calls, answers, signals>>

\* Mutant: an unknown outcome is not remembered.
Remember_Known(q, result) ==
    memo' = IF memo[q.key].args # "" \/ result = "unknown" THEN memo
            ELSE [memo EXCEPT ![q.key] = [args |-> q.args, result |-> result]]

\* _remember: setdefault, of every result.
Remember(q, result) ==
    memo' = IF memo[q.key].args # "" THEN memo
            ELSE [memo EXCEPT ![q.key] = [args |-> q.args, result |-> result]]

Return(d) ==
    /\ dispatched[d].at = "returned"
    /\ Remember(dispatched[d].req, dispatched[d].result)
    /\ Answer(d, dispatched[d].req, dispatched[d].result)
    /\ UNCHANGED <<stopped, trail, up, calls, ran, after, signals>>

ToolNext ==
    \/ \E s \in Scopes : Signal(s) \/ Clear(s)
    \/ \E d \in Devices :
          \/ Flip(d) \/ Look(d) \/ Invoke(d) \/ Return(d)
          \/ \E q \in Requests : Dispatch(d, q)

ToolSpec == ToolInit /\ [][ToolNext]_toolVars

-----------------------------------------------------------------------------
(* Properties.                                                             *)

\* A device executes an intent at most once, whatever came of it: a second
\* dispatch, with the same arguments or others, after a failure, a timeout or
\* an exception, never reaches the adapter.  Apart from the stop, which is
\* looked at first, the repeated call is told what the first one was, and
\* another call with its key never changes that.
IntentRunsOnce ==
    /\ \A k \in Keys : ran[k] <= 1
    /\ \A q \in Requests : Cardinality(answers[q] \ {"stopped"}) <= 1

\* The stop is only looked at before the call: at most the one action that was
\* under way is executed by a device that is stopped, until the stop is lifted.
StopHolds == \A d \in Devices : after[d] <= 1
=============================================================================
