---------------------------- MODULE BoardServices ----------------------------
(***************************************************************************)
(* What Blackboard offers beside the gate and the views: subscriptions and *)
(* blocking reads.  One lock guards the stream; subscribers are            *)
(* called after it is released, by the thread that appended, and a new     *)
(* subscriber is told the history by the thread that subscribed it.        *)
(* An event is its type; its offset is its place in the stream, from 1.    *)
(***************************************************************************)
EXTENDS Naturals, Sequences, FiniteSets, SequencesExt

CONSTANTS
    EventTypes, MaxEvents,
    Threads,       \* threads that append and subscribe
    Handlers,      \* subscribers; each is subscribed once
    Wants,         \* event types of each handler and reader
    Readers,
    Limit          \* of a read

ASSUME ServicesAssumption == Limit \in Nat \ {0}

VARIABLES
    log,         \* Blackboard._events
    active,      \* Blackboard._subscribers
    todo,        \* of each thread: calls of handlers still to be made
    since,       \* history: where the subscription of a handler starts
    told,        \* history: offsets each handler was called with
    reader,      \* read_since: last offset, and whether the thread waits
    given        \* history: offsets each reader was given

servicesVars == <<log, active, todo, since, told, reader, given>>

ServicesInit ==
    /\ log = << >> /\ active = {}
    /\ todo = [t \in Threads |-> << >>]
    /\ since = [h \in Handlers |-> 0] /\ told = [h \in Handlers |-> << >>]
    /\ reader = [r \in Readers |-> [last |-> 0, at |-> "idle"]]
    /\ given = [r \in Readers |-> << >>]

-----------------------------------------------------------------------------
(* Subscriptions.                                                          *)

\* [event for event in self._events if ...]: the offsets in s, as they come.
InOrder(s) ==
    FoldLeft(LAMBDA some, i : IF i \in s THEN Append(some, i) ELSE some,
             << >>, [i \in DOMAIN log |-> i])

Audience(type) == SetToSeq({h \in active : type \in Wants[h]})

\* Mutant: one waiting thread is notified, not all.
Notified_One ==
    LET waiting == {r \in Readers : reader[r].at = "waiting"}
    IN  [r \in Readers |->
           IF waiting # {} /\ r = (CHOOSE x \in waiting : TRUE)
           THEN [reader[r] EXCEPT !.at = "woken"] ELSE reader[r]]

Notified == [r \in Readers |->
    IF reader[r].at = "waiting" THEN [reader[r] EXCEPT !.at = "woken"] ELSE reader[r]]

\* append, also from within a handler: its calls come before the others.
AppendEvent(t) ==
    /\ Len(log) < MaxEvents
    /\ \E type \in EventTypes :
          LET hs == Audience(type)
          IN  /\ log' = Append(log, type)
              /\ todo' = [todo EXCEPT ![t] =
                            [i \in DOMAIN hs |-> <<hs[i], Len(log) + 1>>] \o @]
    /\ reader' = Notified
    /\ UNCHANGED <<active, since, told, given>>

\* Mutant: "after" for "from".
History_After(h, from) ==
    InOrder({i \in DOMAIN log : i > from /\ log[i] \in Wants[h]})

History(h, from) ==
    InOrder({i \in DOMAIN log : i >= from /\ log[i] \in Wants[h]})

Subscribe(t, h) ==
    /\ todo[t] = << >> /\ h \notin active
    /\ \E from \in 1 .. (Len(log) + 1) :
          LET past == History(h, from)
          IN  /\ since' = [since EXCEPT ![h] = from]
              /\ todo' = [todo EXCEPT ![t] = [i \in DOMAIN past |-> <<h, past[i]>>]]
    /\ active' = active \cup {h}
    /\ UNCHANGED <<log, told, reader, given>>

\* The next call; an exception of the handler is noted, the call is made.
Deliver(t) ==
    /\ todo[t] # << >>
    /\ LET c == Head(todo[t])
       IN  told' = [told EXCEPT ![c[1]] = Append(@, c[2])]
    /\ todo' = [todo EXCEPT ![t] = Tail(@)]
    /\ UNCHANGED <<log, active, since, reader, given>>

-----------------------------------------------------------------------------
(* read_since.                                                             *)

Unread(r) ==
    InOrder({i \in DOMAIN log : i > reader[r].last /\ log[i] \in Wants[r]})

\* The limit counts the events that are returned.
Page(r) == SubSeq(Unread(r), 1, IF Len(Unread(r)) < Limit THEN Len(Unread(r)) ELSE Limit)

\* The first look, or the one after a notification.
LookUp(r) ==
    /\ reader[r].at \in {"idle", "woken"}
    /\ IF Page(r) # << >>
       THEN /\ given' = [given EXCEPT ![r] = @ \o Page(r)]
            /\ reader' = [reader EXCEPT ![r] = [last |-> Last(Page(r)), at |-> "idle"]]
       ELSE /\ reader' = [reader EXCEPT ![r].at = "waiting"]
            /\ UNCHANGED given
    /\ UNCHANGED <<log, active, todo, since, told>>

TimeOut(r) ==
    /\ reader[r].at = "waiting"
    /\ reader' = [reader EXCEPT ![r].at = "idle"]
    /\ UNCHANGED <<log, active, todo, since, told, given>>

ServicesNext ==
    \/ \E t \in Threads : AppendEvent(t) \/ Deliver(t) \/ \E h \in Handlers : Subscribe(t, h)
    \/ \E r \in Readers : LookUp(r) \/ TimeOut(r)

ServicesSpec == ServicesInit /\ [][ServicesNext]_servicesVars

-----------------------------------------------------------------------------
(* Properties.                                                             *)

Pending(h) ==
    UNION { {todo[t][i][2] : i \in {j \in DOMAIN todo[t] : todo[t][j][1] = h}} : t \in Threads }

\* A subscriber is called once, in some order, with every event of its types
\* from the offset it asked for: nothing falls between its history and what is
\* appended meanwhile, and nothing is delivered twice.
SubscriberHearsOnce ==
    \A h \in active :
        /\ IsInjective(told[h])
        /\ Range(told[h]) \cap Pending(h) = {}
        /\ Range(told[h]) \cup Pending(h) =
             {i \in DOMAIN log : i >= since[h] /\ log[i] \in Wants[h]}

\* A reader that goes on from the last offset it was given sees every event of
\* its types once, in order, whatever the limit and the filter skip; and while
\* its thread waits there is nothing to read: no notification is lost between
\* its look and its wait, and all that wait are woken.
ReaderServed ==
    \A r \in Readers :
        /\ Range(given[r]) = {i \in DOMAIN log : i <= reader[r].last /\ log[i] \in Wants[r]}
        /\ \A i, j \in DOMAIN given[r] : i < j => given[r][i] < given[r][j]
        /\ reader[r].at = "waiting" => Unread(r) = << >>
=============================================================================
