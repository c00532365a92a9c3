-------------------------- MODULE ObservabilityHub --------------------------
(***************************************************************************)
(* ObservabilityHub: what the calls of a run give to the store, in which   *)
(* order and in which tier.  Each enqueue is a step of its own; ended      *)
(* spans reach the store later, through the exporter thread.               *)
(***************************************************************************)
EXTENDS ObservationStore

VARIABLES
    phase,     \* of each run: "new", "running", "ending", "over"
    todo,      \* of each run's thread: records still to be given to enqueue
    exporter,  \* spans that ended, not exported yet
    did        \* of each run: the kinds of work done

hubOwn  == <<phase, todo, exporter, did>>
hubVars == <<hubOwn, storeVars>>

HubInit ==
    /\ StoreInit
    /\ phase = [r \in RunIds |-> "new"]
    /\ todo = [r \in RunIds |-> << >>]
    /\ exporter = << >>
    /\ did = [r \in RunIds |-> {}]

Rec(kind, r, tier) == [kind |-> kind, run |-> r, tier |-> tier, name |-> kind, seq |-> 0]

\* seq tells apart the events of one name: the number of a dashboard message.
Row(r, tier, name, seq) ==
    [kind |-> "row", run |-> r, tier |-> tier, name |-> name, seq |-> seq]

-----------------------------------------------------------------------------
(* The calls, as the records they enqueue.  Metric points and payloads of  *)
(* spans are left out: to the store they are rows of the lowest tier, as   *)
(* the payload of an event is.                                             *)

\* Mutant: the start of a run is an ordinary record.
StartRecords_Normal(r) ==
    <<Rec("run_start", r, "normal"), Row(r, "normal", "started", 0)>>

StartRecords(r) ==
    <<Rec("run_start", r, "critical"), Row(r, "normal", "started", 0)>>

\* event() with a payload: the payload first, then the event, whose tier is
\* critical for errors and for the named events of a run's end.
EventRecords(r, tier, n) ==
    <<Row(r, "debug", "payload", n), Row(r, tier, "event", n)>>

EndRecords(r) ==
    <<Row(r, "critical", "ended", 0), Rec("run_end", r, "critical")>>

\* record_exception of a span: a log record and an event.
FailRecords(r) ==
    <<Row(r, "critical", "log", 0), Row(r, "critical", "exception", 0)>>

Idle(r) == todo[r] = << >>

StartRun(r) ==
    /\ phase[r] = "new" /\ Idle(r)
    /\ phase' = [phase EXCEPT ![r] = "running"]
    /\ todo' = [todo EXCEPT ![r] = StartRecords(r)]
    /\ UNCHANGED <<exporter, did, storeVars>>

\* The work of a run: each kind once.
UpdateRun(r) ==
    /\ phase[r] = "running" /\ Idle(r) /\ "update" \notin did[r]
    /\ did' = [did EXCEPT ![r] = @ \cup {"update"}]
    /\ todo' = [todo EXCEPT ![r] = <<Rec("run_update", r, "critical")>>]
    /\ UNCHANGED <<phase, exporter, storeVars>>

Observe(r) ==
    /\ phase[r] = "running" /\ Idle(r) /\ "event" \notin did[r]
    /\ did' = [did EXCEPT ![r] = @ \cup {"event"}]
    /\ todo' = [todo EXCEPT ![r] = EventRecords(r, "normal", 0)]
    /\ UNCHANGED <<phase, exporter, storeVars>>

\* A span ends, well or with an exception.
EndSpan(r) ==
    /\ phase[r] = "running" /\ Idle(r) /\ "span" \notin did[r]
    /\ did' = [did EXCEPT ![r] = @ \cup {"span"}]
    /\ \/ /\ exporter' = Append(exporter, Row(r, "normal", "span", 0))
          /\ UNCHANGED todo
       \/ /\ exporter' = Append(exporter, Row(r, "critical", "span", 0))
          /\ todo' = [todo EXCEPT ![r] = FailRecords(r)]
    /\ UNCHANGED <<phase, storeVars>>

EndRun(r) ==
    /\ phase[r] = "running" /\ Idle(r)
    /\ phase' = [phase EXCEPT ![r] = "ending"]
    /\ todo' = [todo EXCEPT ![r] = EndRecords(r)]
    /\ UNCHANGED <<exporter, did, storeVars>>

Over(r) ==
    /\ phase[r] = "ending" /\ Idle(r)
    /\ phase' = [phase EXCEPT ![r] = "over"]
    /\ UNCHANGED <<todo, exporter, did, storeVars>>

Emit(r) ==
    /\ ~Idle(r)
    /\ Enqueue(Head(todo[r]))
    /\ todo' = [todo EXCEPT ![r] = Tail(@)]
    /\ UNCHANGED <<phase, exporter, did>>

Export ==
    /\ exporter # << >>
    /\ Enqueue(Head(exporter))
    /\ exporter' = Tail(exporter)
    /\ UNCHANGED <<phase, todo, did>>

\* shutdown exports what is left before it closes the store.
Shutdown ==
    /\ exporter = << >> /\ Stop
    /\ UNCHANGED hubOwn

StoreWorks == (Write \/ Keep \/ CloseQueue) /\ UNCHANGED hubOwn

Call(r) == StartRun(r) \/ UpdateRun(r) \/ Observe(r) \/ EndSpan(r) \/ EndRun(r) \/ Over(r) \/ Emit(r)

HubNext == (\E r \in RunIds : Call(r)) \/ Export \/ Shutdown \/ StoreWorks

HubSpec == HubInit /\ [][HubNext]_hubVars

\* The writer and the exporter are threads that are always scheduled.
HubFair == WF_hubVars(Write /\ UNCHANGED hubOwn)

-----------------------------------------------------------------------------
(* Properties.                                                             *)

\* Tiers change the order, but never so that a row overtakes the run it refers
\* to: SQLite refuses a batch only for a run whose start was given to the
\* emergency file, or that retention has deleted meanwhile.
ParentFirst ==
    writer = "write" /\ Transaction(batch) = None =>
        \E x \in Range(batch) :
            /\ x.run # None /\ runs[x.run] = "absent"
            /\ \/ x.run \in deleted
               \/ StartRecords(x.run)[1] \in emerged \cup lost
=============================================================================
