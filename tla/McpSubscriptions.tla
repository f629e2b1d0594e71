--------------------------- MODULE McpSubscriptions ---------------------------
(***************************************************************************)
(* Subscriptions to the changes of an MCP server's lists. Each is served   *)
(* by the thread of its connection, which writes to its stream what other  *)
(* threads put in its bounded queue, until its time is up or the stream    *)
(* breaks.                                                                 *)
(***************************************************************************)
EXTENDS Naturals, Sequences

CONSTANTS Subscribers,  \* threads that serve subscriptions/listen
          Publishers,   \* threads that call a tool which changes a list
          Kinds,        \* kinds of lists
          Capacity,     \* the length of a full queue
          NoKind

ASSUME SubscriptionsAssumption ==
  /\ Capacity \in Nat \ {0}
  /\ NoKind \notin Kinds

VARIABLES
  open,     \* _mcp_stream_subscriptions: the subscribers that are entered in it
  filters,  \* what each of them asked for
  queue,
  pc,       \* where the thread of a subscriber is
  writing,  \* the hint that it has taken and not written yet
  expired,  \* whether its deadline has passed, as its loop sees it
  kind,     \* the change that a publisher announces
  targets   \* the subscriptions that it has still to go through

subscriber == <<open, filters, pc, writing, expired>>
publisher  == <<kind, targets>>
vars       == <<subscriber, publisher, queue>>

Contents(s) == {queue[s][i] : i \in DOMAIN queue[s]}

Init ==
  /\ open = {}
  /\ filters = [s \in Subscribers |-> {}]
  /\ queue = [s \in Subscribers |-> << >>]
  /\ pc = [s \in Subscribers |-> "idle"]
  /\ writing = [s \in Subscribers |-> NoKind]
  /\ expired = [s \in Subscribers |-> FALSE]
  /\ kind = [p \in Publishers |-> NoKind]
  /\ targets = [p \in Publishers |-> {}]

Goto(s, next) == pc' = [pc EXCEPT ![s] = next]

-----------------------------------------------------------------------------
(* One subscription. *)

Listen(s, wanted) ==
  /\ pc[s] = "idle"
  /\ open' = open \cup {s}
  /\ filters' = [filters EXCEPT ![s] = wanted]
  /\ Goto(s, "begin")
  /\ UNCHANGED <<queue, writing, expired, publisher>>

(* A stream that does not even begin leaves the subscription open. *)
BeginStream(s) ==
  /\ pc[s] = "begin"
  /\ Goto(s, "acknowledge") \/ Goto(s, "unbegun")
  /\ UNCHANGED <<open, filters, queue, writing, expired, publisher>>

Acknowledge(s) ==
  /\ pc[s] = "acknowledge"
  /\ Goto(s, "loop") \/ Goto(s, "close")
  /\ UNCHANGED <<open, filters, queue, writing, expired, publisher>>

(* The clock. *)
Expire(s) ==
  /\ pc[s] \in {"loop", "write"}
  /\ expired' = [expired EXCEPT ![s] = TRUE]
  /\ UNCHANGED <<open, filters, pc, queue, writing, publisher>>

(* Mutant: the deadline is only looked at when there is nothing to write. *)
TakeHintLate(s) ==
  /\ pc[s] = "loop"
  /\ queue[s] # << >>
  /\ writing' = [writing EXCEPT ![s] = Head(queue[s])]
  /\ queue' = [queue EXCEPT ![s] = Tail(@)]
  /\ Goto(s, "write")
  /\ UNCHANGED <<open, filters, expired, publisher>>

TakeHint(s) ==
  /\ pc[s] = "loop"
  /\ ~expired[s]
  /\ queue[s] # << >>
  /\ writing' = [writing EXCEPT ![s] = Head(queue[s])]
  /\ queue' = [queue EXCEPT ![s] = Tail(@)]
  /\ Goto(s, "write")
  /\ UNCHANGED <<open, filters, expired, publisher>>

(* Hints that are in the queue by then are never written. *)
LeaveLoop(s) ==
  /\ pc[s] = "loop"
  /\ expired[s]
  /\ Goto(s, "close")
  /\ UNCHANGED <<open, filters, queue, writing, expired, publisher>>

(* Mutant: a broken stream ends the thread at once. *)
WriteUnguarded(s) ==
  /\ pc[s] = "write"
  /\ writing' = [writing EXCEPT ![s] = NoKind]
  /\ Goto(s, "loop") \/ Goto(s, "gone")
  /\ UNCHANGED <<open, filters, queue, expired, publisher>>

WriteHint(s) ==
  /\ pc[s] = "write"
  /\ writing' = [writing EXCEPT ![s] = NoKind]
  /\ Goto(s, "loop") \/ Goto(s, "close")
  /\ UNCHANGED <<open, filters, queue, expired, publisher>>

Close(s) ==
  /\ pc[s] = "close"
  /\ open' = open \ {s}
  /\ Goto(s, "gone")
  /\ UNCHANGED <<filters, queue, writing, expired, publisher>>

-----------------------------------------------------------------------------
(* One publication: a snapshot of the subscriptions, then a hint to each of
   them that asked for the kind. A queue that is full does not take it. *)

Publish(p, k) ==
  /\ targets[p] = {}
  /\ kind' = [kind EXCEPT ![p] = k]
  /\ targets' = [targets EXCEPT ![p] = open]
  /\ UNCHANGED <<subscriber, queue>>

(* Mutant: the queue has no bound. *)
PutAlways(p, s) ==
  /\ s \in targets[p]
  /\ targets' = [targets EXCEPT ![p] = @ \ {s}]
  /\ queue' = IF kind[p] \in filters[s] /\ Len(queue[s]) <= Capacity
                THEN [queue EXCEPT ![s] = Append(@, kind[p])] ELSE queue
  /\ UNCHANGED <<subscriber, kind>>

(* Mutant: the filter is not looked at. *)
PutAnyKind(p, s) ==
  /\ s \in targets[p]
  /\ targets' = [targets EXCEPT ![p] = @ \ {s}]
  /\ queue' = IF Len(queue[s]) < Capacity
                THEN [queue EXCEPT ![s] = Append(@, kind[p])] ELSE queue
  /\ UNCHANGED <<subscriber, kind>>

Put(p, s) ==
  /\ s \in targets[p]
  /\ targets' = [targets EXCEPT ![p] = @ \ {s}]
  /\ queue' = IF kind[p] \in filters[s] /\ Len(queue[s]) < Capacity
                THEN [queue EXCEPT ![s] = Append(@, kind[p])] ELSE queue
  /\ UNCHANGED <<subscriber, kind>>

-----------------------------------------------------------------------------
Serve(s) == \/ BeginStream(s)
            \/ Acknowledge(s)
            \/ TakeHint(s)
            \/ LeaveLoop(s)
            \/ WriteHint(s)
            \/ Close(s)

Next == \/ \E s \in Subscribers : \/ \E wanted \in SUBSET Kinds : Listen(s, wanted)
                                  \/ Serve(s)
                                  \/ Expire(s)
        \/ \E p \in Publishers : \/ \E k \in Kinds : Publish(p, k)
                                 \/ \E s \in Subscribers : Put(p, s)

Spec == Init /\ [][Next]_vars

Writing == {"begin", "acknowledge", "write"}

(* Threads are scheduled and deadlines pass; nobody has to publish. A write may
   block on a client that is connected and does not read: the socket has no
   timeout. *)
FairSpec ==
  /\ Spec
  /\ \A s \in Subscribers : WF_vars(Serve(s) /\ pc[s] \notin Writing) /\ WF_vars(Expire(s))

-----------------------------------------------------------------------------
Pc == {"idle", "begin", "acknowledge", "loop", "write", "close", "gone", "unbegun"}

(* Every variable stays in its range: no queue grows over its bound. *)
TypeOK ==
  /\ open \subseteq Subscribers
  /\ filters \in [Subscribers -> SUBSET Kinds]
  /\ queue \in [Subscribers -> Seq(Kinds)]
  /\ \A s \in Subscribers : Len(queue[s]) <= Capacity
  /\ pc \in [Subscribers -> Pc]
  /\ writing \in [Subscribers -> Kinds \cup {NoKind}]
  /\ expired \in [Subscribers -> BOOLEAN]
  /\ kind \in [Publishers -> Kinds \cup {NoKind}]
  /\ targets \in [Publishers -> SUBSET Subscribers]

(* A thread that has begun its stream does not leave its subscription open. *)
OpenIsServed ==
  \A s \in open :
    pc[s] \in {"begin", "acknowledge", "loop", "write", "close", "unbegun"}

(* A subscriber to one kind of list misses no change: a hint that its queue
   would not take is in the queue already. *)
FullIsHintedAbout(s) ==
  Len(queue[s]) = Capacity => filters[s] \subseteq Contents(s)

OneKindMissesNothing ==
  \A s \in Subscribers : \A k \in Kinds : filters[s] = {k} => FullIsHintedAbout(s)

(* The comment at core.py:531: what is dropped is redundant already, whatever
   the subscriber asked for. *)
DropsAreRedundant == \A s \in Subscribers : FullIsHintedAbout(s)

(* Every subscription whose stream begins is closed, however busy the publishers
   are, unless one of its writes never returns: no deadline looks at a write. *)
EverySubscriptionEnds ==
  \A s \in Subscribers :
    pc[s] = "acknowledge" ~> (pc[s] = "gone" \/ [](pc[s] \in {"acknowledge", "write"}))
=============================================================================
