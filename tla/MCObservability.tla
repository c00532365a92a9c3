---------------------------- MODULE MCObservability ----------------------------
(***************************************************************************)
(* One run of the program, observed: a queue smaller than what the run     *)
(* emits, a writer whose batches the disk may refuse, retention and        *)
(* shutdown at any moment.                                                 *)
(***************************************************************************)
EXTENDS ObservabilityHub

MCRecords ==
    UNION { Range(StartRecords(r)) \cup Range(EndRecords(r)) \cup Range(FailRecords(r))
            \cup Range(EventRecords(r, "normal", 0))
            \cup {Rec("run_update", r, "critical")}
            \cup {Row(r, tier, "span", 0) : tier \in {"critical", "normal"}}
          : r \in RunIds }

\* Between its start and its end a run does one kind of work.
OneKindOfWork == \A r \in RunIds : Cardinality(did[r]) <= 1

\* The emergency file fails for one record, a critical one.
CriticalLost == \A r \in lost : r.tier = "critical"

MCSpec == HubInit /\ [][HubNext /\ OneKindOfWork' /\ CriticalLost']_hubVars /\ HubFair
=============================================================================
