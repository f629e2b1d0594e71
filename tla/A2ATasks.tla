------------------------------ MODULE A2ATasks ------------------------------
(***************************************************************************)
(* The A2A task store of the gateway (GatewayState in core.py).            *)
(*                                                                         *)
(* The HTTP server gives every connection a thread of its own, so requests *)
(* are served by concurrent handlers that share the task dictionary and    *)
(* the single-flight barriers, both guarded by one lock.  A step of this   *)
(* module is one critical section of that lock, or a stretch of code       *)
(* between two of them that touches no shared state.                       *)
(***************************************************************************)
EXTENDS Naturals, Sequences

CONSTANTS Handlers,   \* the threads of the HTTP server
          Keys,       \* idempotency keys
          Creates,    \* SendMessage requests without a taskId
          Follows,    \* messages that name an existing task
          Contexts,   \* A2A context identifiers
          MaxFresh,   \* bound: tasks created without a key
          NoKey, NoContext, NoTask, NoHandler, NoRequest

(* A task identifier is the digest of the key or of a sequence number; the
   digest is taken to be injective. *)
TaskId == Keys \cup (1 .. MaxFresh)

Terminal  == {"COMPLETED", "REJECTED", "CANCELED"}
TaskState == {"WORKING", "INPUT_REQUIRED"} \cup Terminal

Manifest  == {"none", "runs", "raises"}
Immediate == {"no", "yes", "notBoolean"}

(* What a request digest covers: two requests that differ anywhere are two
   different elements of Creates, so the element stands for its digest. *)
CreateRequest == [id : STRING, key : Keys \cup {NoKey}, context : Contexts,
                  manifest : Manifest, immediate : Immediate, asks : BOOLEAN]

FollowMessage == [id : STRING, context : Contexts \cup {NoContext},
                  completes : BOOLEAN]

ASSUME ConstantsAssumption ==
  /\ MaxFresh \in Nat
  /\ Keys \cap (1 .. MaxFresh) = {}
  /\ Creates \subseteq CreateRequest
  /\ \A r \in Creates : r.key = NoKey => r.manifest = "none"
  /\ Follows \subseteq FollowMessage

ASSUME NullsAssumption ==
  /\ NoKey \notin Keys
  /\ NoContext \notin Contexts
  /\ NoHandler \notin Handlers
  /\ NoRequest \notin Creates

(* A task holds the follow-up messages it has accepted; the message that
   created it is never equal to one that names a task. *)
Task == [request : Creates, context : Contexts, state : TaskState,
         history : Seq(Follows)]

ASSUME NoTaskAssumption == NoTask \notin Task

VARIABLES tasks,           \* _tasks
          inflight,        \* _task_inflight, by the handler that made the event
          taskIdSequence,  \* _task_id_sequence
          pc,              \* where each handler stands
          req,             \* the create request a handler serves
          target,          \* the task a handler works on
          copy,            \* the private copy of a task that it will store
          barrier,         \* the event a handler waits for, by its maker
          reply            \* the last response of each handler

vars == <<tasks, inflight, taskIdSequence, pc, req, target, copy, barrier, reply>>

Pc == {"idle", "fresh", "build", "publish", "release", "wait", "woken",
       "append", "cancel"}

Code == {"none", "task", "not_found", "invalid_params", "unsupported",
         "not_cancelable", "collision", "timed_out", "unpublished", "raised"}

Reply == [code : Code, request : Creates \cup {NoRequest},
          task : Task \cup {NoTask}]

Answer(code, r)  == [code |-> code, request |-> r, task |-> NoTask]
Returned(r, t)   == [code |-> "task", request |-> r, task |-> t]

Init ==
  /\ tasks = [t \in TaskId |-> NoTask]
  /\ inflight = [k \in Keys |-> NoHandler]
  /\ taskIdSequence = 0
  /\ pc = [h \in Handlers |-> "idle"]
  /\ req = [h \in Handlers |-> NoRequest]
  /\ target = [h \in Handlers |-> NoTask]
  /\ copy = [h \in Handlers |-> NoTask]
  /\ barrier = [h \in Handlers |-> NoHandler]
  /\ reply = [h \in Handlers |-> Answer("none", NoRequest)]

-----------------------------------------------------------------------------
(* Every response leaves the handler ready for the next request of its
   connection. *)
Respond(h, answer) ==
  /\ pc' = [pc EXCEPT ![h] = "idle"]
  /\ req' = [req EXCEPT ![h] = NoRequest]
  /\ target' = [target EXCEPT ![h] = NoTask]
  /\ copy' = [copy EXCEPT ![h] = NoTask]
  /\ barrier' = [barrier EXCEPT ![h] = NoHandler]
  /\ reply' = [reply EXCEPT ![h] = answer]

Serve(h, r, place) ==
  /\ pc' = [pc EXCEPT ![h] = place]
  /\ req' = [req EXCEPT ![h] = r]

-----------------------------------------------------------------------------
(* Building a task: the state it starts in.  Running a manifest may succeed
   or be rejected (the wall-clock budget makes that depend on the moment),
   and overrides the state that the message asks for. *)
StartStates(r) ==
  IF r.manifest = "runs" THEN {"COMPLETED", "REJECTED"}
  ELSE IF r.immediate = "yes" THEN {"WORKING"}
  ELSE IF r.asks THEN {"INPUT_REQUIRED"}
  ELSE {"COMPLETED"}

BuildRaises(r) == r.immediate = "notBoolean" \/ r.manifest = "raises"

NewTasks(r) ==
  {[request |-> r, context |-> r.context, state |-> s, history |-> << >>] :
     s \in StartStates(r)}

-----------------------------------------------------------------------------
(* SendMessage without a key: a fresh task every time. *)

(* Mutant: the number is read in one step and counted in no other. *)
TakeUncounted(h, r) ==
  /\ pc[h] = "idle"
  /\ r.key = NoKey
  /\ taskIdSequence < MaxFresh
  /\ Serve(h, r, "fresh")
  /\ target' = [target EXCEPT ![h] = taskIdSequence + 1]
  /\ UNCHANGED <<tasks, inflight, taskIdSequence, copy, barrier, reply>>

TakeSequence(h, r) ==
  /\ pc[h] = "idle"
  /\ r.key = NoKey
  /\ taskIdSequence < MaxFresh
  /\ taskIdSequence' = taskIdSequence + 1
  /\ Serve(h, r, "fresh")
  /\ target' = [target EXCEPT ![h] = taskIdSequence + 1]
  /\ UNCHANGED <<tasks, inflight, copy, barrier, reply>>

StoreFresh(h) ==
  /\ pc[h] = "fresh"
  /\ \/ /\ BuildRaises(req[h])
        /\ Respond(h, Answer("raised", NoRequest))
        /\ UNCHANGED tasks
     \/ /\ ~BuildRaises(req[h])
        /\ \E task \in NewTasks(req[h]) :
             /\ tasks' = [tasks EXCEPT ![target[h]] = task]
             /\ Respond(h, Returned(NoRequest, task))
  /\ UNCHANGED <<inflight, taskIdSequence>>

-----------------------------------------------------------------------------
(* SendMessage under an idempotency key. *)

(* Mutant: a key collision is taken for a replay. *)
CompareAcceptsAll(r, task) == Returned(r, task)

(* A request meets a task that was created under its key. *)
Compare(r, task) ==
  IF task.context = r.context /\ task.request = r
    THEN Returned(r, task)
    ELSE Answer("collision", r)

FindTask(h, r) ==
  /\ pc[h] = "idle"
  /\ r.key # NoKey
  /\ tasks[r.key] # NoTask
  /\ Respond(h, Compare(r, tasks[r.key]))
  /\ UNCHANGED <<tasks, inflight, taskIdSequence>>

(* Mutant: the barrier in the map is not looked at. *)
ClaimHeldKey(h, r) ==
  /\ pc[h] = "idle"
  /\ r.key # NoKey
  /\ tasks[r.key] = NoTask
  /\ inflight' = [inflight EXCEPT ![r.key] = h]
  /\ Serve(h, r, "build")
  /\ target' = [target EXCEPT ![h] = r.key]
  /\ UNCHANGED <<tasks, taskIdSequence, copy, barrier, reply>>

(* Mutant: the task is not looked up again under the lock that claims. *)
ClaimFinishedKey(h, r) ==
  /\ pc[h] = "idle"
  /\ r.key # NoKey
  /\ inflight[r.key] = NoHandler
  /\ inflight' = [inflight EXCEPT ![r.key] = h]
  /\ Serve(h, r, "build")
  /\ target' = [target EXCEPT ![h] = r.key]
  /\ UNCHANGED <<tasks, taskIdSequence, copy, barrier, reply>>

ClaimKey(h, r) ==
  /\ pc[h] = "idle"
  /\ r.key # NoKey
  /\ tasks[r.key] = NoTask
  /\ inflight[r.key] = NoHandler
  /\ inflight' = [inflight EXCEPT ![r.key] = h]
  /\ Serve(h, r, "build")
  /\ target' = [target EXCEPT ![h] = r.key]
  /\ UNCHANGED <<tasks, taskIdSequence, copy, barrier, reply>>

JoinKey(h, r) ==
  /\ pc[h] = "idle"
  /\ r.key # NoKey
  /\ tasks[r.key] = NoTask
  /\ inflight[r.key] # NoHandler
  /\ barrier' = [barrier EXCEPT ![h] = inflight[r.key]]
  /\ Serve(h, r, "wait")
  /\ target' = [target EXCEPT ![h] = r.key]
  /\ UNCHANGED <<tasks, inflight, taskIdSequence, copy, reply>>

(* Mutant: the release is not in a finally clause. *)
BuildWithoutFinally(h) ==
  /\ pc[h] = "build"
  /\ \/ /\ BuildRaises(req[h])
        /\ Respond(h, Answer("raised", req[h]))
     \/ /\ ~BuildRaises(req[h])
        /\ \E task \in NewTasks(req[h]) : copy' = [copy EXCEPT ![h] = task]
        /\ pc' = [pc EXCEPT ![h] = "publish"]
        /\ UNCHANGED <<req, target, barrier, reply>>
  /\ UNCHANGED <<tasks, inflight, taskIdSequence>>

(* The creator runs the manifest outside the lock. *)
Build(h) ==
  /\ pc[h] = "build"
  /\ \/ /\ BuildRaises(req[h])
        /\ pc' = [pc EXCEPT ![h] = "release"]
        /\ reply' = [reply EXCEPT ![h] = Answer("raised", req[h])]
        /\ UNCHANGED copy
     \/ /\ ~BuildRaises(req[h])
        /\ \E task \in NewTasks(req[h]) : copy' = [copy EXCEPT ![h] = task]
        /\ pc' = [pc EXCEPT ![h] = "publish"]
        /\ UNCHANGED reply
  /\ UNCHANGED <<tasks, inflight, taskIdSequence, req, target, barrier>>

Publish(h) ==
  /\ pc[h] = "publish"
  /\ \/ /\ tasks[target[h]] # NoTask
        /\ reply' = [reply EXCEPT ![h] = Compare(req[h], tasks[target[h]])]
        /\ UNCHANGED tasks
     \/ /\ tasks[target[h]] = NoTask
        /\ tasks' = [tasks EXCEPT ![target[h]] = copy[h]]
        /\ reply' = [reply EXCEPT ![h] = Returned(req[h], copy[h])]
  /\ pc' = [pc EXCEPT ![h] = "release"]
  /\ UNCHANGED <<inflight, taskIdSequence, req, target, copy, barrier>>

(* The finally clause: the event leaves the map and every handler that waits
   for that event is woken. *)
Release(h) ==
  /\ pc[h] = "release"
  /\ LET published == inflight[target[h]]
         woken == {w \in Handlers : pc[w] = "wait" /\ barrier[w] = published}
     IN  pc' = [g \in Handlers |-> IF g = h THEN "idle"
                                   ELSE IF published # NoHandler /\ g \in woken
                                   THEN "woken" ELSE pc[g]]
  /\ inflight' = [inflight EXCEPT ![target[h]] = NoHandler]
  /\ req' = [req EXCEPT ![h] = NoRequest]
  /\ target' = [target EXCEPT ![h] = NoTask]
  /\ copy' = [copy EXCEPT ![h] = NoTask]
  /\ UNCHANGED <<tasks, taskIdSequence, barrier, reply>>

(* The wait of 30 seconds ends without the event. *)
WaitTimeout(h) ==
  /\ pc[h] = "wait"
  /\ Respond(h, Answer("timed_out", req[h]))
  /\ UNCHANGED <<tasks, inflight, taskIdSequence>>

ReadPublished(h) ==
  /\ pc[h] = "woken"
  /\ Respond(h, IF tasks[target[h]] = NoTask
                  THEN Answer("unpublished", req[h])
                  ELSE Compare(req[h], tasks[target[h]]))
  /\ UNCHANGED <<tasks, inflight, taskIdSequence>>

-----------------------------------------------------------------------------
(* SendMessage to an existing task: a copy is read in one critical section
   and the changed copy is stored in another. *)

Accepted(task, f) == \E i \in DOMAIN task.history : task.history[i] = f

Refusal(task, f) ==
  IF task = NoTask THEN Answer("not_found", NoRequest)
  ELSE IF f.context \notin {NoContext, task.context}
    THEN Answer("invalid_params", NoRequest)
  ELSE IF Accepted(task, f) THEN Returned(NoRequest, task)
  ELSE Answer("unsupported", NoRequest)

(* Mutant: the history is replaced instead of extended. *)
AppendedAlone(task, f) ==
  [task EXCEPT !.history = <<f>>,
               !.state = IF f.completes THEN "COMPLETED" ELSE @]

Appended(task, f) ==
  [task EXCEPT !.history = Append(@, f),
               !.state = IF f.completes THEN "COMPLETED" ELSE @]

(* Mutant: terminal tasks take messages. *)
TakesAny(task, f) ==
  /\ task # NoTask
  /\ f.context \in {NoContext, task.context}
  /\ ~Accepted(task, f)

Takes(task, f) ==
  /\ task # NoTask
  /\ f.context \in {NoContext, task.context}
  /\ ~Accepted(task, f)
  /\ task.state \notin Terminal

ReadForAppend(h, t, f) ==
  /\ pc[h] = "idle"
  /\ \/ /\ ~Takes(tasks[t], f)
        /\ Respond(h, Refusal(tasks[t], f))
     \/ /\ Takes(tasks[t], f)
        /\ pc' = [pc EXCEPT ![h] = "append"]
        /\ target' = [target EXCEPT ![h] = t]
        /\ copy' = [copy EXCEPT ![h] = Appended(tasks[t], f)]
        /\ UNCHANGED <<req, barrier, reply>>
  /\ UNCHANGED <<tasks, inflight, taskIdSequence>>

StoreAppend(h) ==
  /\ pc[h] = "append"
  /\ tasks' = [tasks EXCEPT ![target[h]] = copy[h]]
  /\ Respond(h, Returned(NoRequest, copy[h]))
  /\ UNCHANGED <<inflight, taskIdSequence>>

-----------------------------------------------------------------------------
(* Mutant: a status outside the protocol's vocabulary. *)
CanceledMisspelt(task) == [task EXCEPT !.state = "CANCELLED"]

Canceled(task) == [task EXCEPT !.state = "CANCELED"]

(* CancelTask, with the same two critical sections. *)

ReadForCancel(h, t) ==
  /\ pc[h] = "idle"
  /\ \/ /\ tasks[t] = NoTask
        /\ Respond(h, Answer("not_found", NoRequest))
     \/ /\ tasks[t] # NoTask
        /\ tasks[t].state \in Terminal
        /\ Respond(h, Answer("not_cancelable", NoRequest))
     \/ /\ tasks[t] # NoTask
        /\ tasks[t].state \notin Terminal
        /\ pc' = [pc EXCEPT ![h] = "cancel"]
        /\ target' = [target EXCEPT ![h] = t]
        /\ copy' = [copy EXCEPT ![h] = Canceled(tasks[t])]
        /\ UNCHANGED <<req, barrier, reply>>
  /\ UNCHANGED <<tasks, inflight, taskIdSequence>>

StoreCancel(h) ==
  /\ pc[h] = "cancel"
  /\ tasks' = [tasks EXCEPT ![target[h]] = copy[h]]
  /\ Respond(h, Returned(NoRequest, copy[h]))
  /\ UNCHANGED <<inflight, taskIdSequence>>
-----------------------------------------------------------------------------
(* What a handler does once it has taken a request, timeouts apart. *)
Proceed(h) == \/ StoreFresh(h)
              \/ Build(h)
              \/ Publish(h)
              \/ Release(h)
              \/ ReadPublished(h)
              \/ StoreAppend(h)
              \/ StoreCancel(h)

Accept(h) == \/ \E r \in Creates : \/ TakeSequence(h, r)
                                   \/ FindTask(h, r)
                                   \/ ClaimKey(h, r)
                                   \/ JoinKey(h, r)
             \/ \E t \in TaskId : \/ \E f \in Follows : ReadForAppend(h, t, f)
                                  \/ ReadForCancel(h, t)

Next == \E h \in Handlers : Accept(h) \/ Proceed(h) \/ WaitTimeout(h)

Spec == Init /\ [][Next]_vars

(* Threads are scheduled by the operating system, the lock is held for a
   bounded time and a manifest's execution ends, so a handler that can proceed
   does.  Nothing obliges clients to send, and no timeout is relied upon. *)
FairSpec == Spec /\ \A h \in Handlers : WF_vars(Proceed(h))

-----------------------------------------------------------------------------
Creating == {"build", "publish", "release"}

(* Every variable stays in its range. *)
TypeOK ==
  /\ tasks \in [TaskId -> Task \cup {NoTask}]
  /\ inflight \in [Keys -> Handlers \cup {NoHandler}]
  /\ taskIdSequence \in 0 .. MaxFresh
  /\ pc \in [Handlers -> Pc]
  /\ req \in [Handlers -> Creates \cup {NoRequest}]
  /\ target \in [Handlers -> TaskId \cup {NoTask}]
  /\ copy \in [Handlers -> Task \cup {NoTask}]
  /\ barrier \in [Handlers -> Handlers \cup {NoHandler}]
  /\ reply \in [Handlers -> Reply]

(* send_message keeps at most one creator per key: a barrier in the map
   belongs to the one handler that builds, publishes or releases that key. *)
SingleFlight ==
  /\ \A h \in Handlers : pc[h] \in Creating => inflight[target[h]] = h
  /\ \A k \in Keys : inflight[k] # NoHandler =>
       /\ pc[inflight[k]] \in Creating
       /\ target[inflight[k]] = k

(* No key is executed again once its task is in the store, so the creator
   never finds another task when it publishes (core.py's "one execution"). *)
OneExecution ==
  \A h \in Handlers : pc[h] \in {"build", "publish"} => tasks[target[h]] = NoTask

(* A handler that waits holds the event that is still in the map, so the
   creator's finally clause will set it: no waiter is left to its timeout. *)
WaiterHasCreator ==
  \A h \in Handlers : pc[h] = "wait" =>
    barrier[h] # NoHandler /\ inflight[target[h]] = barrier[h]

(* A handler that builds a fresh task owns its identifier: no task is stored
   under it and no other handler was given the same number. *)
FreshIdsAreOwned ==
  /\ \A h \in Handlers : pc[h] = "fresh" =>
       /\ target[h] \in 1 .. taskIdSequence
       /\ tasks[target[h]] = NoTask
       /\ \A g \in Handlers : pc[g] = "fresh" /\ target[g] = target[h] => g = h
  /\ \A n \in 1 .. MaxFresh : n > taskIdSequence => tasks[n] = NoTask

(* The copy that an update will store is a copy of the task it replaces as far
   as the binding of its key goes: request and context never change hands. *)
CopiesKeepBinding ==
  \A h \in Handlers : pc[h] \in {"append", "cancel"} =>
    /\ tasks[target[h]] # NoTask
    /\ copy[h].request = tasks[target[h]].request
    /\ copy[h].context = tasks[target[h]].context

(* The promise of an idempotency key, read off the store and the responses. *)
KeyedRequests == {r \in Creates : r.key # NoKey}
KeyOf(r) == r.key
BoundRequest == [k \in Keys |-> IF tasks[k] = NoTask THEN NoRequest
                                ELSE tasks[k].request]
Verdict(code) == CASE code = "task" -> "granted"
                   [] code = "collision" -> "collision"
                   [] OTHER -> "failed"
KeyAnswer == [h \in Handlers |->
                [code |-> IF reply[h].request = NoRequest THEN "none"
                          ELSE Verdict(reply[h].code),
                 request |-> reply[h].request]]

KeyPromise == INSTANCE IdempotentCreation WITH
  Clients  <- Handlers,
  Requests <- KeyedRequests,
  Unbound  <- NoRequest,
  bound    <- BoundRequest,
  answer   <- KeyAnswer

(* An idempotency key keeps the request it was first bound to, and every
   answer given under the key agrees with that binding, whatever handlers
   race, fail, time out or overwrite the task's status. *)
ImplementsKeyPromise == KeyPromise!Spec

(* Every request that a handler has taken is answered; a waiter is answered
   without its timeout, because the creator always releases the key. *)
EveryRequestAnswered == \A h \in Handlers : pc[h] # "idle" ~> pc[h] = "idle"

(* A task that has reached a terminal state keeps it: send_message refuses
   with "terminal tasks cannot accept messages" and CancelTask is refused. *)
TerminalStays ==
  [][\A t \in TaskId : tasks[t] # NoTask /\ tasks[t].state \in Terminal
       => tasks'[t] # NoTask /\ tasks'[t].state = tasks[t].state]_vars

(* A follow-up message that was accepted stays in the task's history. *)
HistoryGrows ==
  [][\A t \in TaskId : tasks[t] # NoTask =>
       /\ tasks'[t] # NoTask
       /\ \A f \in Follows : Accepted(tasks[t], f) => Accepted(tasks'[t], f)]_vars
=============================================================================
