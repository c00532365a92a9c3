-------------------------- MODULE ObservationStore --------------------------
(***************************************************************************)
(* SQLiteObservationStore: producers put records into a bounded queue of   *)
(* three tiers, one writer thread takes them in batches and writes each    *)
(* batch in one transaction, and what cannot be queued or written goes to  *)
(* an emergency file, unless that write fails as well.                     *)
(*                                                                         *)
(* The failures covered are those the code catches: an OSError or an error *)
(* of SQLite in the transaction, an OSError of the emergency file.         *)
(*                                                                         *)
(* Every lock region of the queue is one step; the writer's loop is taken  *)
(* apart where it releases the lock.  A record stands for its payload, and *)
(* is offered once.  Of the tables only the runs keep their content; a row *)
(* is there when its record is written and its run was not deleted.        *)
(***************************************************************************)
EXTENDS Naturals, Sequences, FiniteSets, SequencesExt

CONSTANTS
    None,
    RunIds,
    Records,       \* [kind, run, tier, name, seq]; run is None when there is none
    Capacity,      \* queue_capacity
    BatchSize,     \* 100 in the code
    MaxFaults,     \* bound on batches that the disk refuses
    MaxLost        \* bound on records that the emergency file refuses

Tiers == <<"critical", "normal", "debug">>

Kinds == {"run_start", "run_update", "run_end", "row"}

ASSUME StoreAssumption ==
    /\ None \notin RunIds /\ None \notin [RunIds -> {"absent", "running", "ended"}]
    /\ \A r \in Records :
          /\ r.kind \in Kinds /\ r.tier \in {"critical", "normal", "debug"}
          /\ r.run \in RunIds \cup (IF r.kind = "row" THEN {None} ELSE {})
    /\ Capacity \in Nat \ {0} /\ BatchSize \in Nat \ {0}
    /\ MaxFaults \in Nat /\ MaxLost \in Nat

VARIABLES
    queued,      \* _TieredQueue._queues
    unfinished,  \* _TieredQueue._unfinished
    writer,      \* where _writer_loop is
    batch,
    closing,     \* how far close() has come
    runs,        \* table runs: "absent", "running" or "ended"
    written,     \* the records whose transaction was committed
    deleted,     \* the runs that retention has deleted, with their rows
    emerged,     \* the records written to the emergency file
    lost,        \* the records whose write to it failed: write_errors counts them
    faults,
    offered,     \* history: records given to enqueue
    late         \* history: records accepted after the writer was told to stop

emergency == <<emerged, lost>>
tables    == <<runs, written, deleted>>
histories == <<offered, late>>
storeVars == <<queued, unfinished, writer, batch, closing, tables, emergency,
               faults, histories>>

StoreInit ==
    /\ queued = [t \in Range(Tiers) |-> << >>]
    /\ unfinished = 0
    /\ writer = "take"
    /\ batch = << >>
    /\ closing = "open"
    /\ runs = [r \in RunIds |-> "absent"]
    /\ written = {} /\ deleted = {} /\ emerged = {} /\ lost = {}
    /\ faults = 0
    /\ offered = {} /\ late = {}

-----------------------------------------------------------------------------
(* The queue.                                                              *)

Size == Len(queued["critical"]) + Len(queued["normal"]) + Len(queued["debug"])

\* Mutant: a critical record may displace another one.
Victims_AnyTier(tier) ==
    CASE tier = "critical" -> <<"debug", "normal", "critical">>
      [] tier = "normal"   -> <<"debug">>
      [] OTHER             -> << >>

\* The tiers a record of this tier may displace, the first non-empty one is hit.
Victims(tier) ==
    CASE tier = "critical" -> <<"debug", "normal">>
      [] tier = "normal"   -> <<"debug">>
      [] OTHER             -> << >>

AnyQueued(tiers) == \E i \in DOMAIN tiers : queued[tiers[i]] # << >>

FirstQueued(tiers) ==
    tiers[CHOOSE i \in DOMAIN tiers :
            /\ queued[tiers[i]] # << >>
            /\ \A j \in DOMAIN tiers : queued[tiers[j]] # << >> => i <= j]

Closed == closing = "closed"

Admit(r) ==
    /\ ~Closed /\ Size < Capacity
    /\ queued' = [queued EXCEPT ![r.tier] = Append(@, r)]
    /\ unfinished' = unfinished + 1
    /\ UNCHANGED emergency

\* The queue when a record takes the place of the oldest of a tier.
Replaced(tier, r) == [[queued EXCEPT ![tier] = Tail(@)] EXCEPT ![r.tier] = Append(@, r)]

\* Mutant: the evicted record still counts as unfinished.
Displace_StillUnfinished(r) ==
    /\ ~Closed /\ Size >= Capacity /\ AnyQueued(Victims(r.tier))
    /\ queued' = Replaced(FirstQueued(Victims(r.tier)), r)
    /\ unfinished' = unfinished + 1
    /\ UNCHANGED emergency

Displace(r) ==
    /\ ~Closed /\ Size >= Capacity /\ AnyQueued(Victims(r.tier))
    /\ queued' = Replaced(FirstQueued(Victims(r.tier)), r)
    /\ UNCHANGED <<unfinished, emergency>>

\* EmergencyJsonlWriter.write, record by record: it returns FALSE on an OSError,
\* and no caller looks at the result.
WriteEmergency(rs) ==
    \E kept \in SUBSET rs :
        /\ emerged' = emerged \cup kept
        /\ lost' = lost \cup (rs \ kept)
        /\ Cardinality(lost') <= MaxLost

Refuse(r) ==
    /\ Closed \/ (Size >= Capacity /\ ~AnyQueued(Victims(r.tier)))
    /\ WriteEmergency({x \in {r} : x.tier = "critical"})
    /\ UNCHANGED <<queued, unfinished>>

Enqueue(r) ==
    /\ Admit(r) \/ Displace(r) \/ Refuse(r)
    /\ offered' = offered \cup {r}
    /\ late' = IF closing = "stopped" THEN late \cup {r} ELSE late
    /\ UNCHANGED <<writer, batch, closing, tables, faults>>

-----------------------------------------------------------------------------
(* The writer thread.                                                      *)

Next1 == FirstQueued(Tiers)

\* get for the first record of a batch, get_nowait for the others.
Take ==
    /\ writer = "take" /\ Size > 0 /\ Len(batch) < BatchSize
    /\ batch' = Append(batch, Head(queued[Next1]))
    /\ queued' = [queued EXCEPT ![Next1] = Tail(@)]
    /\ UNCHANGED <<unfinished, writer, closing, tables, emergency, faults, histories>>

Seal ==
    /\ writer = "take" /\ batch # << >>
    /\ Size = 0 \/ Len(batch) = BatchSize
    /\ writer' = "write"
    /\ UNCHANGED <<queued, unfinished, batch, closing, tables, emergency, faults, histories>>

\* _write_record: INSERT a run, UPDATE one that is there, INSERT a row, which
\* fails when it refers to a run that is not there.
Wrote(table, r) ==
    CASE table = None -> None
      [] table # None /\ r.kind = "run_start" -> [table EXCEPT ![r.run] = "running"]
      [] table # None /\ r.kind = "run_update" -> table
      [] table # None /\ r.kind = "run_end" ->
            IF table[r.run] = "absent" THEN table ELSE [table EXCEPT ![r.run] = "ended"]
      [] OTHER -> IF r.run # None /\ table[r.run] = "absent" THEN None ELSE table

\* The table of runs after the batch, None when a record fails the transaction.
Transaction(rs) == FoldLeft(Wrote, runs, rs)

Commit ==
    /\ writer = "write" /\ Transaction(batch) # None
    /\ runs' = Transaction(batch)
    /\ written' = written \cup Range(batch)
    /\ writer' = "settle"
    /\ UNCHANGED <<queued, unfinished, batch, closing, deleted, emergency, faults, histories>>

\* Mutant: an attempt that fails is not rolled back.
GiveUp_NoRollback ==
    /\ writer = "write"
    /\ \/ Transaction(batch) = None /\ UNCHANGED faults
       \/ Transaction(batch) # None /\ faults < MaxFaults /\ faults' = faults + 1
    /\ WriteEmergency(Range(batch))
    /\ written' = written \cup {Head(batch)}
    /\ writer' = "settle"
    /\ UNCHANGED <<queued, unfinished, batch, closing, runs, deleted, histories>>

\* Four attempts failed: every one is rolled back, all goes to the file.
GiveUp ==
    /\ writer = "write"
    /\ \/ Transaction(batch) = None /\ UNCHANGED faults
       \/ Transaction(batch) # None /\ faults < MaxFaults /\ faults' = faults + 1
    /\ WriteEmergency(Range(batch))
    /\ writer' = "settle"
    /\ UNCHANGED <<queued, unfinished, batch, closing, tables, histories>>

\* Mutant: task_done() without the count.
Settle_One ==
    /\ writer = "settle"
    /\ unfinished' = IF unfinished > 0 THEN unfinished - 1 ELSE 0
    /\ batch' = << >> /\ writer' = "take"
    /\ UNCHANGED <<queued, closing, tables, emergency, faults, histories>>

Settle ==
    /\ writer = "settle"
    /\ unfinished' = IF unfinished > Len(batch) THEN unfinished - Len(batch) ELSE 0
    /\ batch' = << >> /\ writer' = "take"
    /\ UNCHANGED <<queued, closing, tables, emergency, faults, histories>>

\* enforce_retention: ended runs are deleted, with the rows that refer to them.
Retain(old) ==
    /\ writer = "take" /\ batch = << >>
    /\ old # {} /\ \A r \in old : runs[r] = "ended"
    /\ runs' = [r \in RunIds |-> IF r \in old THEN "absent" ELSE runs[r]]
    /\ deleted' = deleted \cup old
    /\ UNCHANGED <<queued, unfinished, writer, batch, closing, written, emergency, faults,
                   histories>>

Exit ==
    /\ writer = "take" /\ batch = << >> /\ closing \in {"stopped", "closed"}
    /\ Size = 0
    /\ writer' = "exited"
    /\ UNCHANGED <<queued, unfinished, batch, closing, tables, emergency, faults, histories>>

\* close: flush, whether it ends or times out, then stop, then close the queue.
Stop ==
    /\ closing = "open" /\ closing' = "stopped"
    /\ UNCHANGED <<queued, unfinished, writer, batch, tables, emergency, faults, histories>>

CloseQueue ==
    /\ closing = "stopped" /\ closing' = "closed"
    /\ UNCHANGED <<queued, unfinished, writer, batch, tables, emergency, faults, histories>>

Write == Take \/ Seal \/ Commit \/ GiveUp \/ Settle \/ Exit

Keep == \E old \in SUBSET RunIds : Retain(old)

StoreStep == Write \/ Keep \/ Stop \/ CloseQueue

-----------------------------------------------------------------------------
(* Properties.                                                             *)

Waiting == UNION {Range(queued[t]) : t \in Range(Tiers)}

\* The count wait_empty waits for: flush returns TRUE only when everything
\* accepted before it is settled, whatever was evicted while a batch was written.
FlushMeansSettled ==
    unfinished = Size + Len(batch)

\* A critical record is never shed without a trace: it waits, was committed, is in
\* the emergency file, or the emergency file failed too, which health reports.
CriticalTraced ==
    \A r \in offered : r.tier = "critical" =>
        r \in Waiting \cup Range(batch) \cup written \cup emerged \cup lost

\* No record is in two places: what is given up was rolled back, what counts as
\* lost was not written, and nothing is taken twice.
WrittenOnce ==
    /\ written \cap (emerged \cup lost) = {} /\ emerged \cap lost = {}
    /\ writer \in {"take", "write"} =>
          Range(batch) \cap (written \cup emerged \cup lost) = {}
    /\ Waiting \cap (Range(batch) \cup written \cup emerged \cup lost) = {}

\* The writer thread neither hangs nor ends too early: whatever the disk does,
\* all that is accepted is written, given up or shed, but for what was accepted
\* after the writer was told to stop, between two statements of close().
WriterDrains ==
    unfinished > 0 ~> unfinished = 0 \/ (writer = "exited" /\ Waiting \subseteq late)
=============================================================================
