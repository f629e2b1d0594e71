----------------------------- MODULE TaskListing -----------------------------
(***************************************************************************)
(* ListTasks over the task store of A2ATasks: tasks carry the time of their *)
(* last change, a page is cut out of the tasks sorted by it, newest first,  *)
(* and a page token is an offset.  A client walks the pages while handlers  *)
(* create, continue and cancel tasks.                                       *)
(***************************************************************************)
EXTENDS A2ATasks, FiniteSets

CONSTANTS Filters,   \* what a client may list by
          PageSize,
          MaxClock   \* bound: the readings of the clock

Filter == [context : Contexts \cup {NoContext}, state : TaskState \cup {"any"}, after : Nat]

ASSUME ListingAssumption ==
  /\ Filters \subseteq Filter
  /\ PageSize \in Nat \ {0}
  /\ MaxClock \in Nat

VARIABLES clock,      \* the wall clock; it does not run backwards
          earliest,   \* the earliest time that each handler may have read
          timestamp,  \* the time that is stored with each task
          order,      \* the keys of _tasks, in the order of their insertion
          walk        \* where the client stands among its pages

listing == <<clock, earliest, timestamp, order, walk>>

(* due: the tasks that were there when the walk began and that nobody has
   changed since. *)
Walk == [place : {"idle", "pages", "ended"}, filter : Filters,
         offset : Nat, seen : SUBSET TaskId, due : SUBSET TaskId]

ListingInit ==
  /\ Init
  /\ clock = 1
  /\ earliest = [h \in Handlers |-> 0]
  /\ timestamp = [t \in TaskId |-> 0]
  /\ order = << >>
  /\ walk = [place |-> "idle", filter |-> CHOOSE f \in Filters : TRUE,
             offset |-> 0, seen |-> {}, due |-> {}]

Tick ==
  /\ clock < MaxClock
  /\ clock' = clock + 1
  /\ UNCHANGED <<vars, earliest, timestamp, order, walk>>

-----------------------------------------------------------------------------
(* Handlers store tasks, each with a time of its own. *)

Stores(h) ==
  \/ pc[h] = "fresh" /\ ~BuildRaises(req[h])
  \/ pc[h] = "publish" /\ tasks[target[h]] = NoTask
  \/ pc[h] \in {"append", "cancel"}

(* A handler reads the clock outside the lock: after the section that gave it
   its number or its copy, or while it builds, and before it stores. *)
Times(h) == earliest[h] .. clock

Handle(h) ==
  /\ Accept(h) \/ Proceed(h) \/ WaitTimeout(h)
  /\ earliest' = IF pc[h] \in {"idle", "build"}
                   THEN [earliest EXCEPT ![h] = clock] ELSE earliest
  /\ IF Stores(h)
       THEN /\ \E now \in Times(h) : timestamp' = [timestamp EXCEPT ![target[h]] = now]
            /\ order' = IF tasks[target[h]] = NoTask THEN Append(order, target[h]) ELSE order
            /\ walk' = [walk EXCEPT !.due = @ \ {target[h]}]
       ELSE UNCHANGED <<timestamp, order, walk>>
  /\ UNCHANGED clock

-----------------------------------------------------------------------------
Matches(t, filter) ==
  /\ tasks[t] # NoTask
  /\ filter.context \in {NoContext, tasks[t].context}
  /\ filter.state \in {"any", tasks[t].state}
  /\ timestamp[t] > filter.after

Listed(filter) == {t \in TaskId : Matches(t, filter)}

Index(t) == CHOOSE i \in DOMAIN order : order[i] = t

(* Mutant: the least recently changed task comes first. *)
BeforeOldest(u, t) ==
  \/ timestamp[u] < timestamp[t]
  \/ timestamp[u] = timestamp[t] /\ Index(u) < Index(t)

(* Tasks of one moment stay in the order of the dictionary. *)
Before(u, t) ==
  \/ timestamp[u] > timestamp[t]
  \/ timestamp[u] = timestamp[t] /\ Index(u) < Index(t)

Position(t, filter) == Cardinality({u \in Listed(filter) : Before(u, t)})

Page(filter, offset) ==
  {t \in Listed(filter) : Position(t, filter) \in offset .. (offset + PageSize - 1)}

BeginWalk(filter) ==
  /\ walk.place = "idle"
  /\ walk' = [place |-> "pages", filter |-> filter, offset |-> 0,
              seen |-> {}, due |-> Listed(filter)]
  /\ UNCHANGED <<vars, clock, earliest, timestamp, order>>

ListTasks ==
  /\ walk.place = "pages"
  /\ LET page == Page(walk.filter, walk.offset)
         next == walk.offset + Cardinality(page)
     IN  walk' = [walk EXCEPT !.seen = @ \cup page, !.offset = next,
                    !.place = IF next < Cardinality(Listed(walk.filter))
                                THEN "pages" ELSE "ended"]
  /\ UNCHANGED <<vars, clock, earliest, timestamp, order>>

ListingNext ==
  \/ Tick
  \/ \E h \in Handlers : Handle(h)
  \/ \E filter \in Filters : BeginWalk(filter)
  \/ ListTasks

ListingSpec == ListingInit /\ [][ListingNext]_<<vars, listing>>

-----------------------------------------------------------------------------
(* A client that follows the page tokens to the end has been given every task
   that was there when it began and has not changed since, however many others
   were created and changed between its pages. A filter by state is no promise:
   tasks that leave it move the rest up. *)
NothingUnchangedIsMissed ==
  walk.place = "ended" /\ walk.filter.state = "any" => walk.due \subseteq walk.seen
=============================================================================
