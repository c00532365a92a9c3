------------------------------ MODULE Dashboard ------------------------------
(***************************************************************************)
(* The dashboard server: RunRegistry lets one run execute at a time, on a  *)
(* thread that publishes numbered messages; each is persisted through the  *)
(* observation store, which may be late, drop some or change their order.  *)
(* Watchers are served as event streams by handler threads and come back,  *)
(* with the last number they received, whenever their connection breaks.   *)
(*                                                                         *)
(* The server lives as long as the behaviour.  A message is its number.    *)
(***************************************************************************)
EXTENDS Naturals, FiniteSets

CONSTANTS
    DashRuns,      \* the runs the dashboard starts
    Watchers,      \* open pages
    MaxMessages    \* bound on the messages of a run

\* The absent run is none.
ASSUME DashAssumption == "none" \notin DashRuns

VARIABLES
    messages,   \* LiveRun.messages of each run: how many
    done,       \* LiveRun.done
    job,        \* where _execute is
    persistent, \* the store serves get_events_since
    rows,       \* messages that are in the store
    watcher,    \* the run a page follows, the last number sent, where its handler is
    seen        \* history: what each page has received

dashVars == <<messages, done, job, persistent, rows, watcher, seen>>

DashInit ==
    /\ messages = [r \in DashRuns |-> 0]
    /\ done = [r \in DashRuns |-> FALSE]
    /\ job = [r \in DashRuns |-> "none"]
    /\ persistent \in BOOLEAN
    /\ rows = [r \in DashRuns |-> {}]
    /\ watcher = [w \in Watchers |-> [run |-> "none", seq |-> 0, at |-> "away"]]
    /\ seen = [w \in Watchers |-> {}]

Known(r) == job[r] # "none"

\* RunRegistry.start: one at a time, whatever state the others ended in.
BeginRun(r) ==
    /\ ~Known(r)
    /\ \A x \in DashRuns : Known(x) => done[x]
    /\ job' = [job EXCEPT ![r] = "listed"]
    /\ UNCHANGED <<persistent, messages, done, rows, watcher, seen>>

Publish(r) == messages' = [messages EXCEPT ![r] = @ + 1]

\* _execute: the runtime is made and run, its listeners publish.
Work(r) ==
    /\ job[r] \in {"listed", "running"}
    /\ job' = [job EXCEPT ![r] = "running"]
    /\ \/ messages[r] < MaxMessages /\ Publish(r)
       \/ UNCHANGED messages
    /\ UNCHANGED <<persistent, done, rows, watcher, seen>>

\* The result, or the error of a run or of a runtime that could not be made.
Conclude(r) ==
    /\ job[r] \in {"listed", "running"}
    /\ Publish(r)
    /\ job' = [job EXCEPT ![r] = "told"]
    /\ UNCHANGED <<persistent, done, rows, watcher, seen>>

FinishRun(r) ==
    /\ job[r] = "told"
    /\ done' = [done EXCEPT ![r] = TRUE]
    /\ job' = [job EXCEPT ![r] = "over"]
    /\ UNCHANGED <<persistent, messages, rows, watcher, seen>>

\* The writer of the store gets to a message of _persist_stream_event, or never.
Persist(r) ==
    /\ persistent
    /\ \E n \in (1 .. messages[r]) \ rows[r] : rows' = [rows EXCEPT ![r] = @ \cup {n}]
    /\ UNCHANGED <<persistent, messages, done, job, watcher, seen>>

-----------------------------------------------------------------------------
(* A stream.                                                               *)

\* stream_events_since: what is stored and what the live run holds, merged.
Since(r, n) == {k \in rows[r] \cup (1 .. messages[r]) : k > n}

\* The page receives what is sent, in order: all, or a part before the
\* connection breaks.  The handler goes on at `next`.
Send(w, ks, next) ==
    \E sent \in SUBSET ks :
        /\ \A k \in sent : {j \in ks : j < k} \subseteq sent
        /\ seen' = [seen EXCEPT ![w] = @ \cup sent]
        /\ watcher' = [watcher EXCEPT ![w] =
               [run |-> @.run,
                seq |-> IF sent = {} THEN @.seq ELSE CHOOSE k \in sent : \A j \in sent : j <= k,
                at |-> IF sent = ks THEN next ELSE "away"]]

At(w, place) == watcher[w].at = place

\* The first connection of a page, or the next one, with Last-Event-ID.
Connect(w) ==
    /\ At(w, "away")
    /\ \E r \in DashRuns :
          /\ Known(r) /\ watcher[w].run \in {"none", r}
          /\ watcher' = [watcher EXCEPT ![w].run = r, ![w].at = "read"]
    /\ UNCHANGED <<persistent, messages, done, job, rows, seen>>

Break(w) ==
    /\ At(w, "read") \/ At(w, "check") \/ At(w, "last")
    /\ watcher' = [watcher EXCEPT ![w].at = "away"]
    /\ UNCHANGED <<persistent, messages, done, job, rows, seen>>

ReadMore(w) ==
    /\ At(w, "read")
    /\ Send(w, Since(watcher[w].run, watcher[w].seq), "check")
    /\ UNCHANGED <<persistent, messages, done, job, rows>>

\* Mutant: the stream ends without a last look.
Check_NoLast(w) ==
    /\ At(w, "check")
    /\ watcher' = [watcher EXCEPT ![w].at =
                     IF done[watcher[w].run] THEN "closed" ELSE "read"]
    /\ UNCHANGED <<persistent, messages, done, job, rows, seen>>

Check(w) ==
    /\ At(w, "check")
    /\ watcher' = [watcher EXCEPT ![w].at =
                     IF done[watcher[w].run] THEN "last" ELSE "read"]
    /\ UNCHANGED <<persistent, messages, done, job, rows, seen>>

\* After the flush, which may time out.
LastLook(w) ==
    /\ At(w, "last") /\ persistent
    /\ Send(w, Since(watcher[w].run, watcher[w].seq), "closed")
    /\ UNCHANGED <<persistent, messages, done, job, rows>>

\* Without a store for events: the live messages, until none is left.
Wait(w) ==
    /\ At(w, "last") /\ ~persistent
    /\ LET ks == (watcher[w].seq + 1) .. messages[watcher[w].run]
       IN  Send(w, ks, IF ks = {} THEN "closed" ELSE "last")
    /\ UNCHANGED <<persistent, messages, done, job, rows>>

Execute(r) == Conclude(r) \/ FinishRun(r)

Serve(w) == ReadMore(w) \/ Check(w) \/ LastLook(w) \/ Wait(w)

DashNext ==
    \/ \E r \in DashRuns : BeginRun(r) \/ Work(r) \/ Execute(r) \/ Persist(r)
    \/ \E w \in Watchers : Connect(w) \/ Break(w) \/ Serve(w)

DashSpec == DashInit /\ [][DashNext]_dashVars

-----------------------------------------------------------------------------
(* Properties.                                                             *)

\* Whatever the store loses or reorders, and however often the connection
\* breaks, a page has received every message up to the last number it knows; and
\* the server ends its stream only when the run is done and the page has the
\* last message, although done is read before the messages.
StreamComplete ==
    \A w \in Watchers :
        /\ seen[w] = 1 .. watcher[w].seq
        /\ At(w, "closed") =>
             done[watcher[w].run] /\ watcher[w].seq = messages[watcher[w].run]
=============================================================================
