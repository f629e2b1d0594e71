-------------------------- MODULE A2ATasks_proofs --------------------------
(***************************************************************************)
(* What A2ATasks guarantees for any set of handlers, keys, requests and    *)
(* messages, and TaskListing for any number of tasks, any filters and any  *)
(* size of a page.                                                         *)
(*                                                                         *)
(* Some of it depends on updates that do not overlap: two handlers that    *)
(* both hold a copy of one task undo each other's changes.                 *)
(***************************************************************************)
EXTENDS TaskListing, FiniteSetTheorems, TLAPS

(* What a handler holds at each place of the code. *)
JobsInv ==
  \A h \in Handlers :
    /\ pc[h] \in {"build", "publish", "release", "wait", "woken"} =>
         /\ req[h] \in Creates
         /\ req[h].key \in Keys
         /\ target[h] = req[h].key
    /\ pc[h] = "fresh" => req[h] \in Creates /\ target[h] \in 1 .. MaxFresh
    /\ pc[h] \in {"append", "cancel"} => target[h] \in TaskId
    /\ pc[h] \in {"publish", "append", "cancel"} => copy[h] \in Task

----------------------------------------------------------------------------
(* Every task that a request can be built into is a task. *)
LEMMA NewTasksType ==
  ASSUME NEW r \in Creates
  PROVE  NewTasks(r) \subseteq Task
<1>1. r.context \in Contexts
  BY ConstantsAssumption DEF CreateRequest
<1>2. StartStates(r) \subseteq TaskState
  BY DEF StartStates, TaskState, Terminal
<1>3. << >> \in Seq(Follows)
  OBVIOUS
<1> SUFFICES ASSUME NEW s \in StartStates(r)
             PROVE  [request |-> r, context |-> r.context, state |-> s,
                     history |-> << >>] \in Task
  BY DEF NewTasks
<1> QED
  BY <1>1, <1>2, <1>3 DEF Task

(* An update of a task is a task. *)
LEMMA UpdatesType ==
  ASSUME NEW task \in Task, NEW f \in Follows
  PROVE  Appended(task, f) \in Task /\ Canceled(task) \in Task
<1>1. Append(task.history, f) \in Seq(Follows)
  BY DEF Task
<1>2. "COMPLETED" \in TaskState /\ "CANCELED" \in TaskState
  BY DEF TaskState, Terminal
<1> QED
  BY <1>1, <1>2 DEF Appended, Canceled, Task

(* The responses that carry a task are responses. *)
LEMMA CompareType ==
  ASSUME NEW r \in Creates, NEW task \in Task
  PROVE  Compare(r, task) \in Reply
BY DEF Compare, Returned, Answer, Reply, Code

LEMMA RefusalType ==
  ASSUME NEW task \in Task \cup {NoTask}, NEW f \in Follows
  PROVE  Refusal(task, f) \in Reply
BY DEF Refusal, Returned, Answer, Reply, Code

(* A request with a key has a key of the store. *)
LEMMA KeyType ==
  ASSUME NEW r \in Creates, r.key # NoKey
  PROVE  r.key \in Keys /\ r.key \in TaskId
BY ConstantsAssumption DEF CreateRequest, TaskId

(* Responding keeps the local variables in their range. *)
LEMMA RespondType ==
  ASSUME TypeOK, NEW h \in Handlers, NEW a \in Reply, Respond(h, a)
  PROVE  /\ pc' \in [Handlers -> Pc]
         /\ req' \in [Handlers -> Creates \cup {NoRequest}]
         /\ target' \in [Handlers -> TaskId \cup {NoTask}]
         /\ copy' \in [Handlers -> Task \cup {NoTask}]
         /\ barrier' \in [Handlers -> Handlers \cup {NoHandler}]
         /\ reply' \in [Handlers -> Reply]
BY DEF TypeOK, Respond, Pc

----------------------------------------------------------------------------
(* The variables keep their ranges, and a handler holds what its place needs. *)
LEMMA TypeInit == Init => TypeOK /\ JobsInv
<1> SUFFICES ASSUME Init PROVE TypeOK /\ JobsInv
  OBVIOUS
<1>1. 0 \in 0 .. MaxFresh
  BY ConstantsAssumption
<1>2. Answer("none", NoRequest) \in Reply
  BY DEF Answer, Reply, Code
<1>3. TypeOK
  BY <1>1, <1>2 DEF Init, TypeOK, Pc
<1>4. JobsInv
  BY DEF Init, JobsInv
<1> QED
  BY <1>3, <1>4

LEMMA TypeStep == TypeOK /\ JobsInv /\ [Next]_vars => TypeOK' /\ JobsInv'
<1> SUFFICES ASSUME TypeOK, JobsInv, [Next]_vars PROVE TypeOK' /\ JobsInv'
  OBVIOUS
<1>1. ASSUME NEW h \in Handlers, NEW r \in Creates, TakeSequence(h, r)
      PROVE  TypeOK' /\ JobsInv'
  <2>1. taskIdSequence + 1 \in 1 .. MaxFresh /\ taskIdSequence + 1 \in 0 .. MaxFresh
    BY <1>1, ConstantsAssumption DEF TakeSequence, TypeOK
  <2>2. TypeOK'
    BY <1>1, <2>1 DEF TakeSequence, Serve, TypeOK, Pc, TaskId
  <2>3. JobsInv'
    BY <1>1, <2>1 DEF TakeSequence, Serve, TypeOK, JobsInv
  <2> QED
    BY <2>2, <2>3
<1>2. ASSUME NEW h \in Handlers, NEW r \in Creates, FindTask(h, r)
      PROVE  TypeOK' /\ JobsInv'
  <2>1. r.key \in TaskId
    BY <1>2, KeyType DEF FindTask
  <2>2. Compare(r, tasks[r.key]) \in Reply
    BY <1>2, <2>1, CompareType DEF FindTask, TypeOK
  <2>3. TypeOK'
    BY <1>2, <2>2, RespondType DEF FindTask, TypeOK
  <2>4. JobsInv'
    BY <1>2 DEF FindTask, Respond, TypeOK, JobsInv
  <2> QED
    BY <2>3, <2>4
<1>3. ASSUME NEW h \in Handlers, NEW r \in Creates, ClaimKey(h, r)
      PROVE  TypeOK' /\ JobsInv'
  <2>1. r.key \in Keys /\ r.key \in TaskId
    BY <1>3, KeyType DEF ClaimKey
  <2>2. TypeOK'
    BY <1>3, <2>1 DEF ClaimKey, Serve, TypeOK, Pc
  <2>3. JobsInv'
    BY <1>3, <2>1 DEF ClaimKey, Serve, TypeOK, JobsInv
  <2> QED
    BY <2>2, <2>3
<1>4. ASSUME NEW h \in Handlers, NEW r \in Creates, JoinKey(h, r)
      PROVE  TypeOK' /\ JobsInv'
  <2>1. r.key \in Keys /\ r.key \in TaskId
    BY <1>4, KeyType DEF JoinKey
  <2>2. TypeOK'
    BY <1>4, <2>1 DEF JoinKey, Serve, TypeOK, Pc
  <2>3. JobsInv'
    BY <1>4, <2>1 DEF JoinKey, Serve, TypeOK, JobsInv
  <2> QED
    BY <2>2, <2>3
<1>5. ASSUME NEW h \in Handlers, NEW t \in TaskId, NEW f \in Follows,
             ReadForAppend(h, t, f)
      PROVE  TypeOK' /\ JobsInv'
  <2>1. CASE ~Takes(tasks[t], f)
    <3>1. Respond(h, Refusal(tasks[t], f))
      BY <1>5, <2>1 DEF ReadForAppend
    <3>2. Refusal(tasks[t], f) \in Reply
      BY RefusalType DEF TypeOK
    <3>3. TypeOK'
      BY <1>5, <3>1, <3>2, RespondType DEF ReadForAppend, TypeOK
    <3>4. JobsInv'
      BY <3>1 DEF Respond, TypeOK, JobsInv
    <3> QED
      BY <3>3, <3>4
  <2>2. CASE Takes(tasks[t], f)
    <3>1. Appended(tasks[t], f) \in Task
      BY <2>2, UpdatesType DEF Takes, TypeOK
    <3>2. TypeOK'
      BY <1>5, <2>2, <3>1 DEF ReadForAppend, TypeOK, Pc
    <3>3. JobsInv'
      BY <1>5, <2>2, <3>1 DEF ReadForAppend, TypeOK, JobsInv
    <3> QED
      BY <3>2, <3>3
  <2> QED
    BY <2>1, <2>2
<1>6. ASSUME NEW h \in Handlers, NEW t \in TaskId, ReadForCancel(h, t)
      PROVE  TypeOK' /\ JobsInv'
  <2>1. ASSUME NEW a \in Reply, Respond(h, a)
        PROVE  TypeOK' /\ JobsInv'
    <3>1. TypeOK'
      BY <1>6, <2>1, RespondType DEF ReadForCancel, TypeOK
    <3>2. JobsInv'
      BY <2>1 DEF Respond, TypeOK, JobsInv
    <3> QED
      BY <3>1, <3>2
  <2>2. Answer("not_found", NoRequest) \in Reply /\ Answer("not_cancelable", NoRequest) \in Reply
    BY DEF Answer, Reply, Code
  <2>3. CASE tasks[t] # NoTask /\ tasks[t].state \notin Terminal
    <3>1. Canceled(tasks[t]) \in Task
      <4>1. tasks[t] \in Task
        BY <2>3 DEF TypeOK
      <4>2. "CANCELED" \in TaskState
        BY DEF TaskState, Terminal
      <4> QED
        BY <4>1, <4>2 DEF Canceled, Task
    <3>2. TypeOK'
      BY <1>6, <2>3, <3>1 DEF ReadForCancel, TypeOK, Pc
    <3>3. JobsInv'
      BY <1>6, <2>3, <3>1 DEF ReadForCancel, TypeOK, JobsInv
    <3> QED
      BY <3>2, <3>3
  <2> QED
    BY <1>6, <2>1, <2>2, <2>3 DEF ReadForCancel
<1>7. ASSUME NEW h \in Handlers, StoreFresh(h)
      PROVE  TypeOK' /\ JobsInv'
  <2>1. req[h] \in Creates /\ target[h] \in TaskId
    BY <1>7 DEF StoreFresh, JobsInv, TaskId
  <2>2. CASE BuildRaises(req[h])
    <3>1. Answer("raised", NoRequest) \in Reply
      BY DEF Answer, Reply, Code
    <3>2. Respond(h, Answer("raised", NoRequest)) /\ UNCHANGED tasks
      BY <1>7, <2>2 DEF StoreFresh
    <3>3. TypeOK'
      BY <1>7, <3>1, <3>2, RespondType DEF StoreFresh, TypeOK
    <3>4. JobsInv'
      BY <3>2 DEF Respond, TypeOK, JobsInv
    <3> QED
      BY <3>3, <3>4
  <2>3. CASE ~BuildRaises(req[h])
    <3>1. PICK task \in NewTasks(req[h]) :
            /\ tasks' = [tasks EXCEPT ![target[h]] = task]
            /\ Respond(h, Returned(NoRequest, task))
      BY <1>7, <2>3 DEF StoreFresh
    <3>2. task \in Task
      BY <2>1, NewTasksType
    <3>3. Returned(NoRequest, task) \in Reply
      BY <3>2 DEF Returned, Reply, Code
    <3>4. TypeOK'
      BY <1>7, <2>1, <3>1, <3>2, <3>3, RespondType DEF StoreFresh, TypeOK
    <3>5. JobsInv'
      BY <3>1 DEF Respond, TypeOK, JobsInv
    <3> QED
      BY <3>4, <3>5
  <2> QED
    BY <2>2, <2>3
<1>8. ASSUME NEW h \in Handlers, Build(h)
      PROVE  TypeOK' /\ JobsInv'
  <2>1. req[h] \in Creates
    BY <1>8 DEF Build, JobsInv
  <2>2. CASE BuildRaises(req[h])
    <3>1. Answer("raised", req[h]) \in Reply
      BY <2>1 DEF Answer, Reply, Code
    <3>2. TypeOK'
      BY <1>8, <2>2, <3>1 DEF Build, TypeOK, Pc
    <3>3. JobsInv'
      BY <1>8, <2>2 DEF Build, TypeOK, JobsInv
    <3> QED
      BY <3>2, <3>3
  <2>3. CASE ~BuildRaises(req[h])
    <3>1. PICK task \in NewTasks(req[h]) : copy' = [copy EXCEPT ![h] = task]
      BY <1>8, <2>3 DEF Build
    <3>2. task \in Task
      BY <2>1, NewTasksType
    <3>3. TypeOK'
      BY <1>8, <2>3, <3>1, <3>2 DEF Build, TypeOK, Pc
    <3>4. JobsInv'
      BY <1>8, <2>3, <3>1, <3>2 DEF Build, TypeOK, JobsInv
    <3> QED
      BY <3>3, <3>4
  <2> QED
    BY <2>2, <2>3
<1>9. ASSUME NEW h \in Handlers, Publish(h)
      PROVE  TypeOK' /\ JobsInv'
  <2>1. req[h] \in Creates /\ target[h] \in TaskId /\ copy[h] \in Task
    BY <1>9 DEF Publish, JobsInv, TaskId
  <2>2. /\ tasks[target[h]] # NoTask => Compare(req[h], tasks[target[h]]) \in Reply
        /\ Returned(req[h], copy[h]) \in Reply
    <3>1. tasks[target[h]] # NoTask => Compare(req[h], tasks[target[h]]) \in Reply
      BY <2>1, CompareType DEF TypeOK
    <3>2. Returned(req[h], copy[h]) \in Reply
      BY <2>1 DEF Returned, Reply, Code
    <3> QED
      BY <3>1, <3>2
  <2>3. TypeOK'
    BY <1>9, <2>1, <2>2 DEF Publish, TypeOK, Pc
  <2>4. JobsInv'
    BY <1>9 DEF Publish, TypeOK, JobsInv
  <2> QED
    BY <2>3, <2>4
<1>10. ASSUME NEW h \in Handlers, Release(h)
       PROVE  TypeOK' /\ JobsInv'
  <2>1. target[h] \in Keys
    BY <1>10 DEF Release, JobsInv
  <2>2. \A g \in Handlers : pc'[g] = "idle" \/ pc'[g] = pc[g]
                             \/ (pc'[g] = "woken" /\ pc[g] = "wait")
    BY <1>10 DEF Release, TypeOK
  <2>3. pc' \in [Handlers -> Pc]
    BY <1>10 DEF Release, TypeOK, Pc
  <2>4. TypeOK'
    BY <1>10, <2>1, <2>3 DEF Release, TypeOK
  <2>5. pc'[h] = "idle"
    BY <1>10 DEF Release
  <2>6. JobsInv'
    BY <1>10, <2>2, <2>5 DEF Release, TypeOK, JobsInv
  <2> QED
    BY <2>4, <2>6
<1>11. ASSUME NEW h \in Handlers, ReadPublished(h)
       PROVE  TypeOK' /\ JobsInv'
  <2> DEFINE a == IF tasks[target[h]] = NoTask
                    THEN Answer("unpublished", req[h])
                    ELSE Compare(req[h], tasks[target[h]])
  <2>1. req[h] \in Creates /\ target[h] \in TaskId
    BY <1>11 DEF ReadPublished, JobsInv, TaskId
  <2>2. Answer("unpublished", req[h]) \in Reply
    BY <2>1 DEF Answer, Reply, Code
  <2>3. a \in Reply
    BY <2>1, <2>2, CompareType DEF TypeOK
  <2>4. Respond(h, a)
    BY <1>11 DEF ReadPublished
  <2> HIDE DEF a
  <2>5. TypeOK'
    BY <1>11, <2>3, <2>4, RespondType DEF ReadPublished, TypeOK
  <2>6. JobsInv'
    BY <2>4 DEF Respond, TypeOK, JobsInv
  <2> QED
    BY <2>5, <2>6
<1>12. ASSUME NEW h \in Handlers, StoreAppend(h) \/ StoreCancel(h)
       PROVE  TypeOK' /\ JobsInv'
  <2>1. target[h] \in TaskId /\ copy[h] \in Task
    BY <1>12 DEF StoreAppend, StoreCancel, JobsInv
  <2>2. Returned(NoRequest, copy[h]) \in Reply
    BY <2>1 DEF Returned, Reply, Code
  <2>3. Respond(h, Returned(NoRequest, copy[h]))
    BY <1>12 DEF StoreAppend, StoreCancel
  <2>4. TypeOK'
    BY <1>12, <2>1, <2>2, <2>3, RespondType DEF StoreAppend, StoreCancel, TypeOK
  <2>5. JobsInv'
    BY <2>3 DEF Respond, TypeOK, JobsInv
  <2> QED
    BY <2>4, <2>5
<1>13. ASSUME NEW h \in Handlers, WaitTimeout(h)
       PROVE  TypeOK' /\ JobsInv'
  <2>1. Answer("timed_out", req[h]) \in Reply
    BY <1>13 DEF WaitTimeout, JobsInv, Answer, Reply, Code
  <2>2. TypeOK'
    BY <1>13, <2>1, RespondType DEF WaitTimeout, TypeOK
  <2>3. JobsInv'
    BY <1>13 DEF WaitTimeout, Respond, TypeOK, JobsInv
  <2> QED
    BY <2>2, <2>3
<1>14. ASSUME UNCHANGED vars
       PROVE  TypeOK' /\ JobsInv'
  <2>1. TypeOK'
    BY <1>14 DEF vars, TypeOK
  <2>2. JobsInv'
    BY <1>14 DEF vars, JobsInv
  <2> QED
    BY <2>1, <2>2
<1> QED
  BY <1>1, <1>2, <1>3, <1>4, <1>5, <1>6, <1>7, <1>8, <1>9, <1>10, <1>11, <1>12,
     <1>13, <1>14 DEF Next, Accept, Proceed

(* Every variable of the task store stays in its range, for any handlers, keys,
   requests and messages. *)
THEOREM TypeCorrect == Spec => []TypeOK
<1>1. Init => TypeOK /\ JobsInv
  BY TypeInit
<1>2. TypeOK /\ JobsInv /\ [Next]_vars => (TypeOK /\ JobsInv)'
  BY TypeStep
<1> QED
  BY <1>1, <1>2, PTL DEF Spec

----------------------------------------------------------------------------
(* The inductive invariant.  The barrier of a key leads to its creator, the
   creator finds no task, a waiter's event is in the map, the copy that a
   creator will publish is of its own request and the copy that an update will
   store is of the task it replaces, and a fresh identifier has one owner. *)
PublishedCopies ==
  \A h \in Handlers : pc[h] = "publish" =>
    copy[h].request = req[h] /\ copy[h].context = req[h].context

(* A task's context is the context its request asked for. *)
ContextsMatch ==
  \A t \in TaskId : tasks[t] # NoTask => tasks[t].context = tasks[t].request.context

IndInv == /\ TypeOK
          /\ JobsInv
          /\ SingleFlight
          /\ OneExecution
          /\ WaiterHasCreator
          /\ FreshIdsAreOwned
          /\ CopiesKeepBinding
          /\ PublishedCopies
          /\ ContextsMatch

LEMMA IndInit == Init => IndInv
<1> SUFFICES ASSUME Init PROVE IndInv
  OBVIOUS
<1>1. TypeOK /\ JobsInv
  BY TypeInit
<1>2. SingleFlight /\ OneExecution /\ WaiterHasCreator /\ PublishedCopies
  BY DEF Init, SingleFlight, OneExecution, WaiterHasCreator, PublishedCopies, Creating
<1>3. FreshIdsAreOwned /\ CopiesKeepBinding /\ ContextsMatch
  BY DEF Init, FreshIdsAreOwned, CopiesKeepBinding, ContextsMatch, TaskId
<1> QED
  BY <1>1, <1>2, <1>3 DEF IndInv

(* A task stays in the store with the request and the context it was created
   for. *)
KeepsBinding ==
  \A t \in TaskId : tasks[t] # NoTask =>
    /\ tasks'[t] # NoTask
    /\ tasks'[t].request = tasks[t].request
    /\ tasks'[t].context = tasks[t].context

(* The barrier of a key keeps leading to the one handler that creates it. *)
LEMMA SingleFlightStep == IndInv /\ [Next]_vars => SingleFlight'
<1> SUFFICES ASSUME IndInv, [Next]_vars PROVE SingleFlight'
  OBVIOUS
<1> USE DEF IndInv
<1>1. ASSUME NEW h \in Handlers, NEW r \in Creates, TakeSequence(h, r)
      PROVE  SingleFlight'
  BY <1>1 DEF TakeSequence, Serve, SingleFlight, Creating, TypeOK
<1>2. ASSUME NEW h \in Handlers, NEW r \in Creates, FindTask(h, r)
      PROVE  SingleFlight'
  BY <1>2 DEF FindTask, Respond, SingleFlight, Creating, TypeOK
<1>3. ASSUME NEW h \in Handlers, NEW r \in Creates, ClaimKey(h, r)
      PROVE  SingleFlight'
  <2>1. r.key \in Keys
    BY <1>3, KeyType DEF ClaimKey
  <2>2. \A g \in Handlers : pc[g] \in Creating => target[g] \in Keys /\ target[g] # r.key
    BY <1>3, <2>1, NullsAssumption DEF ClaimKey, SingleFlight, JobsInv, Creating
  <2> QED
    BY <1>3, <2>1, <2>2 DEF ClaimKey, Serve, SingleFlight, Creating, TypeOK
<1>4. ASSUME NEW h \in Handlers, NEW r \in Creates, JoinKey(h, r)
      PROVE  SingleFlight'
  BY <1>4 DEF JoinKey, Serve, SingleFlight, Creating, TypeOK
<1>5. ASSUME NEW h \in Handlers, NEW t \in TaskId, NEW f \in Follows,
             ReadForAppend(h, t, f)
      PROVE  SingleFlight'
  BY <1>5 DEF ReadForAppend, Respond, SingleFlight, Creating, TypeOK
<1>6. ASSUME NEW h \in Handlers, NEW t \in TaskId, ReadForCancel(h, t)
      PROVE  SingleFlight'
  BY <1>6 DEF ReadForCancel, Respond, SingleFlight, Creating, TypeOK
<1>7. ASSUME NEW h \in Handlers, StoreFresh(h)
      PROVE  SingleFlight'
  BY <1>7 DEF StoreFresh, Respond, SingleFlight, Creating, TypeOK
<1>8. ASSUME NEW h \in Handlers, Build(h)
      PROVE  SingleFlight'
  BY <1>8 DEF Build, SingleFlight, Creating, TypeOK
<1>9. ASSUME NEW h \in Handlers, Publish(h)
      PROVE  SingleFlight'
  BY <1>9 DEF Publish, SingleFlight, Creating, TypeOK
<1>10. ASSUME NEW h \in Handlers, Release(h)
       PROVE  SingleFlight'
  <2>1. target[h] \in Keys /\ inflight[target[h]] = h
    BY <1>10 DEF Release, JobsInv, SingleFlight, Creating
  <2>2. \A g \in Handlers : pc'[g] \in Creating => g # h /\ pc[g] \in Creating
    BY <1>10 DEF Release, TypeOK, Creating
  <2>3. \A g \in Handlers : g # h /\ pc[g] \in Creating => pc'[g] = pc[g]
    BY <1>10 DEF Release, TypeOK, Creating
  <2>4. \A g \in Handlers : g # h => target'[g] = target[g]
    BY <1>10 DEF Release, TypeOK
  <2>5. \A g \in Handlers : g # h /\ pc[g] \in Creating
          => target[g] \in Keys /\ target[g] # target[h]
    BY <2>1 DEF JobsInv, SingleFlight, Creating
  <2>6. \A k \in Keys : inflight'[k] = IF k = target[h] THEN NoHandler ELSE inflight[k]
    BY <1>10 DEF Release, TypeOK
  <2>7. \A g \in Handlers : pc'[g] \in Creating => inflight'[target'[g]] = g
    BY <2>2, <2>3, <2>4, <2>5, <2>6 DEF SingleFlight
  <2>8. \A k \in Keys : inflight'[k] # NoHandler =>
          pc'[inflight'[k]] \in Creating /\ target'[inflight'[k]] = k
    <3> SUFFICES ASSUME NEW k \in Keys, inflight'[k] # NoHandler
                 PROVE  pc'[inflight'[k]] \in Creating /\ target'[inflight'[k]] = k
      OBVIOUS
    <3>1. k # target[h] /\ inflight'[k] = inflight[k]
      BY <2>6
    <3>2. inflight[k] \in Handlers /\ pc[inflight[k]] \in Creating /\ target[inflight[k]] = k
      BY <3>1 DEF SingleFlight, TypeOK
    <3>3. inflight[k] # h
      BY <3>1, <3>2
    <3> QED
      BY <3>1, <3>2, <3>3, <2>3, <2>4
  <2> QED
    BY <2>7, <2>8 DEF SingleFlight
<1>11. ASSUME NEW h \in Handlers, ReadPublished(h)
       PROVE  SingleFlight'
  BY <1>11 DEF ReadPublished, Respond, SingleFlight, Creating, TypeOK
<1>12. ASSUME NEW h \in Handlers, StoreAppend(h) \/ StoreCancel(h)
       PROVE  SingleFlight'
  BY <1>12 DEF StoreAppend, StoreCancel, Respond, SingleFlight, Creating, TypeOK
<1>13. ASSUME NEW h \in Handlers, WaitTimeout(h)
       PROVE  SingleFlight'
  BY <1>13 DEF WaitTimeout, Respond, SingleFlight, Creating, TypeOK
<1>14. ASSUME UNCHANGED vars
       PROVE  SingleFlight'
  BY <1>14 DEF vars, SingleFlight, Creating
<1> QED
  BY <1>1, <1>2, <1>3, <1>4, <1>5, <1>6, <1>7, <1>8, <1>9, <1>10, <1>11, <1>12,
     <1>13, <1>14 DEF Next, Accept, Proceed

(* No step takes a task away or changes what it was created for. *)
LEMMA BindingStep == IndInv /\ [Next]_vars => KeepsBinding
<1> SUFFICES ASSUME IndInv, [Next]_vars PROVE KeepsBinding
  OBVIOUS
<1> USE DEF IndInv
<1>1. ASSUME NEW h \in Handlers, NEW r \in Creates, TakeSequence(h, r)
      PROVE  KeepsBinding
  BY <1>1 DEF TakeSequence, Serve, KeepsBinding, TypeOK
<1>2. ASSUME NEW h \in Handlers, NEW r \in Creates, FindTask(h, r)
      PROVE  KeepsBinding
  BY <1>2 DEF FindTask, Respond, KeepsBinding, TypeOK
<1>3. ASSUME NEW h \in Handlers, NEW r \in Creates, ClaimKey(h, r)
      PROVE  KeepsBinding
  BY <1>3 DEF ClaimKey, Serve, KeepsBinding, TypeOK
<1>4. ASSUME NEW h \in Handlers, NEW r \in Creates, JoinKey(h, r)
      PROVE  KeepsBinding
  BY <1>4 DEF JoinKey, Serve, KeepsBinding, TypeOK
<1>5. ASSUME NEW h \in Handlers, NEW t \in TaskId, NEW f \in Follows,
             ReadForAppend(h, t, f)
      PROVE  KeepsBinding
  BY <1>5 DEF ReadForAppend, Respond, KeepsBinding, TypeOK
<1>6. ASSUME NEW h \in Handlers, NEW t \in TaskId, ReadForCancel(h, t)
      PROVE  KeepsBinding
  BY <1>6 DEF ReadForCancel, Respond, KeepsBinding, TypeOK
<1>7. ASSUME NEW h \in Handlers, StoreFresh(h)
      PROVE  KeepsBinding
  <2>1. tasks[target[h]] = NoTask /\ target[h] \in TaskId
    BY <1>7 DEF StoreFresh, FreshIdsAreOwned, JobsInv, TaskId
  <2>2. \A t \in TaskId : t # target[h] => tasks'[t] = tasks[t]
    BY <1>7 DEF StoreFresh, TypeOK
  <2> QED
    BY <2>1, <2>2 DEF KeepsBinding
<1>8. ASSUME NEW h \in Handlers, Build(h)
      PROVE  KeepsBinding
  BY <1>8 DEF Build, KeepsBinding, TypeOK
<1>9. ASSUME NEW h \in Handlers, Publish(h)
      PROVE  KeepsBinding
  <2>1. \A t \in TaskId : tasks'[t] # tasks[t] => tasks[t] = NoTask
    BY <1>9 DEF Publish, TypeOK
  <2> QED
    BY <2>1 DEF KeepsBinding
<1>10. ASSUME NEW h \in Handlers, Release(h)
       PROVE  KeepsBinding
  BY <1>10 DEF Release, KeepsBinding, TypeOK
<1>11. ASSUME NEW h \in Handlers, ReadPublished(h)
       PROVE  KeepsBinding
  BY <1>11 DEF ReadPublished, Respond, KeepsBinding, TypeOK
<1>12. ASSUME NEW h \in Handlers, StoreAppend(h) \/ StoreCancel(h)
       PROVE  KeepsBinding
  <2>1. copy[h] # NoTask /\ target[h] \in TaskId
    BY <1>12, NoTaskAssumption DEF StoreAppend, StoreCancel, JobsInv
  <2> QED
    BY <1>12, <2>1 DEF StoreAppend, StoreCancel, KeepsBinding, CopiesKeepBinding, TypeOK
<1>13. ASSUME NEW h \in Handlers, WaitTimeout(h)
       PROVE  KeepsBinding
  BY <1>13 DEF WaitTimeout, Respond, KeepsBinding, TypeOK
<1>14. ASSUME UNCHANGED vars
       PROVE  KeepsBinding
  BY <1>14 DEF vars, KeepsBinding, TypeOK
<1> QED
  BY <1>1, <1>2, <1>3, <1>4, <1>5, <1>6, <1>7, <1>8, <1>9, <1>10, <1>11, <1>12,
     <1>13, <1>14 DEF Next, Accept, Proceed

(* A key whose task is stored is not built again. *)
LEMMA OneExecutionStep == IndInv /\ [Next]_vars => OneExecution'
<1> SUFFICES ASSUME IndInv, [Next]_vars PROVE OneExecution'
  OBVIOUS
<1> USE DEF IndInv
<1>1. ASSUME NEW h \in Handlers, NEW r \in Creates, TakeSequence(h, r)
      PROVE  OneExecution'
  BY <1>1 DEF TakeSequence, Serve, OneExecution, TypeOK
<1>2. ASSUME NEW h \in Handlers, NEW r \in Creates, FindTask(h, r)
      PROVE  OneExecution'
  BY <1>2 DEF FindTask, Respond, OneExecution, TypeOK
<1>3. ASSUME NEW h \in Handlers, NEW r \in Creates, ClaimKey(h, r)
      PROVE  OneExecution'
  <2>1. r.key \in Keys
    BY <1>3, KeyType DEF ClaimKey
  <2> QED
    BY <1>3, <2>1 DEF ClaimKey, Serve, OneExecution, TypeOK
<1>4. ASSUME NEW h \in Handlers, NEW r \in Creates, JoinKey(h, r)
      PROVE  OneExecution'
  BY <1>4 DEF JoinKey, Serve, OneExecution, TypeOK
<1>5. ASSUME NEW h \in Handlers, NEW t \in TaskId, NEW f \in Follows,
             ReadForAppend(h, t, f)
      PROVE  OneExecution'
  BY <1>5 DEF ReadForAppend, Respond, OneExecution, TypeOK
<1>6. ASSUME NEW h \in Handlers, NEW t \in TaskId, ReadForCancel(h, t)
      PROVE  OneExecution'
  BY <1>6 DEF ReadForCancel, Respond, OneExecution, TypeOK
<1>7. ASSUME NEW h \in Handlers, StoreFresh(h)
      PROVE  OneExecution'
  <2>1. \A g \in Handlers : pc'[g] \in {"build", "publish"} =>
          pc[g] = pc'[g] /\ target'[g] = target[g] /\ target[g] \in Keys
    BY <1>7 DEF StoreFresh, Respond, JobsInv, TypeOK
  <2>2. \A k \in Keys : tasks'[k] = tasks[k]
    BY <1>7, ConstantsAssumption DEF StoreFresh, JobsInv, TypeOK, TaskId
  <2> QED
    BY <2>1, <2>2 DEF OneExecution
<1>8. ASSUME NEW h \in Handlers, Build(h)
      PROVE  OneExecution'
  BY <1>8 DEF Build, OneExecution, TypeOK
<1>9. ASSUME NEW h \in Handlers, Publish(h)
      PROVE  OneExecution'
  <2>1. \A g \in Handlers : pc'[g] \in {"build", "publish"} =>
          g # h /\ pc[g] = pc'[g] /\ target'[g] = target[g]
    BY <1>9 DEF Publish, TypeOK
  <2>2. \A g \in Handlers : pc[g] \in {"build", "publish"} /\ g # h => target[g] # target[h]
    BY <1>9 DEF Publish, SingleFlight, Creating
  <2>3. \A t \in TaskId : t # target[h] => tasks'[t] = tasks[t]
    BY <1>9 DEF Publish, TypeOK
  <2>4. \A g \in Handlers : pc[g] \in {"build", "publish"} => target[g] \in TaskId
    BY DEF JobsInv, TaskId
  <2> QED
    BY <2>1, <2>2, <2>3, <2>4 DEF OneExecution
<1>10. ASSUME NEW h \in Handlers, Release(h)
       PROVE  OneExecution'
  BY <1>10 DEF Release, OneExecution, TypeOK
<1>11. ASSUME NEW h \in Handlers, ReadPublished(h)
       PROVE  OneExecution'
  BY <1>11 DEF ReadPublished, Respond, OneExecution, TypeOK
<1>12. ASSUME NEW h \in Handlers, StoreAppend(h) \/ StoreCancel(h)
       PROVE  OneExecution'
  <2>1. \A g \in Handlers : pc'[g] \in {"build", "publish"} =>
          pc[g] = pc'[g] /\ target'[g] = target[g] /\ target[g] # target[h]
    BY <1>12 DEF StoreAppend, StoreCancel, Respond, OneExecution, CopiesKeepBinding, TypeOK
  <2>2. \A t \in TaskId : t # target[h] => tasks'[t] = tasks[t]
    BY <1>12 DEF StoreAppend, StoreCancel, TypeOK
  <2>3. \A g \in Handlers : pc[g] \in {"build", "publish"} => target[g] \in TaskId
    BY DEF JobsInv, TaskId
  <2> QED
    BY <2>1, <2>2, <2>3 DEF OneExecution
<1>13. ASSUME NEW h \in Handlers, WaitTimeout(h)
       PROVE  OneExecution'
  BY <1>13 DEF WaitTimeout, Respond, OneExecution, TypeOK
<1>14. ASSUME UNCHANGED vars
       PROVE  OneExecution'
  BY <1>14 DEF vars, OneExecution, TypeOK
<1> QED
  BY <1>1, <1>2, <1>3, <1>4, <1>5, <1>6, <1>7, <1>8, <1>9, <1>10, <1>11, <1>12,
     <1>13, <1>14 DEF Next, Accept, Proceed

(* The event a handler waits for stays in the map until it is set. *)
LEMMA WaiterStep == IndInv /\ [Next]_vars => WaiterHasCreator'
<1> SUFFICES ASSUME IndInv, [Next]_vars PROVE WaiterHasCreator'
  OBVIOUS
<1> USE DEF IndInv
<1>1. ASSUME NEW h \in Handlers, NEW r \in Creates, TakeSequence(h, r)
      PROVE  WaiterHasCreator'
  BY <1>1 DEF TakeSequence, Serve, WaiterHasCreator, TypeOK
<1>2. ASSUME NEW h \in Handlers, NEW r \in Creates, FindTask(h, r)
      PROVE  WaiterHasCreator'
  BY <1>2 DEF FindTask, Respond, WaiterHasCreator, TypeOK
<1>3. ASSUME NEW h \in Handlers, NEW r \in Creates, ClaimKey(h, r)
      PROVE  WaiterHasCreator'
  <2>1. r.key \in Keys
    BY <1>3, KeyType DEF ClaimKey
  <2>2. \A w \in Handlers : pc[w] = "wait" => target[w] \in Keys /\ target[w] # r.key
    BY <1>3 DEF ClaimKey, WaiterHasCreator, JobsInv
  <2> QED
    BY <1>3, <2>1, <2>2 DEF ClaimKey, Serve, WaiterHasCreator, TypeOK
<1>4. ASSUME NEW h \in Handlers, NEW r \in Creates, JoinKey(h, r)
      PROVE  WaiterHasCreator'
  <2>1. r.key \in Keys
    BY <1>4, KeyType DEF JoinKey
  <2> QED
    BY <1>4, <2>1 DEF JoinKey, Serve, WaiterHasCreator, TypeOK
<1>5. ASSUME NEW h \in Handlers, NEW t \in TaskId, NEW f \in Follows,
             ReadForAppend(h, t, f)
      PROVE  WaiterHasCreator'
  BY <1>5 DEF ReadForAppend, Respond, WaiterHasCreator, TypeOK
<1>6. ASSUME NEW h \in Handlers, NEW t \in TaskId, ReadForCancel(h, t)
      PROVE  WaiterHasCreator'
  BY <1>6 DEF ReadForCancel, Respond, WaiterHasCreator, TypeOK
<1>7. ASSUME NEW h \in Handlers, StoreFresh(h)
      PROVE  WaiterHasCreator'
  BY <1>7 DEF StoreFresh, Respond, WaiterHasCreator, TypeOK
<1>8. ASSUME NEW h \in Handlers, Build(h)
      PROVE  WaiterHasCreator'
  BY <1>8 DEF Build, WaiterHasCreator, TypeOK
<1>9. ASSUME NEW h \in Handlers, Publish(h)
      PROVE  WaiterHasCreator'
  BY <1>9 DEF Publish, WaiterHasCreator, TypeOK
<1>10. ASSUME NEW h \in Handlers, Release(h)
       PROVE  WaiterHasCreator'
  <2>1. target[h] \in Keys /\ inflight[target[h]] = h
    BY <1>10 DEF Release, JobsInv, SingleFlight, Creating
  <2>2. SUFFICES ASSUME NEW w \in Handlers, pc'[w] = "wait"
                 PROVE  barrier'[w] # NoHandler /\ inflight'[target'[w]] = barrier'[w]
    BY DEF WaiterHasCreator
  <2>3. pc[w] = "wait" /\ w # h /\ barrier[w] # h
    BY <1>10, <2>1, <2>2, NullsAssumption DEF Release, TypeOK
  <2>4. target[w] \in Keys /\ target[w] # target[h]
    BY <2>1, <2>3 DEF JobsInv, WaiterHasCreator
  <2> QED
    BY <1>10, <2>1, <2>3, <2>4 DEF Release, WaiterHasCreator, TypeOK
<1>11. ASSUME NEW h \in Handlers, ReadPublished(h)
       PROVE  WaiterHasCreator'
  BY <1>11 DEF ReadPublished, Respond, WaiterHasCreator, TypeOK
<1>12. ASSUME NEW h \in Handlers, StoreAppend(h) \/ StoreCancel(h)
       PROVE  WaiterHasCreator'
  BY <1>12 DEF StoreAppend, StoreCancel, Respond, WaiterHasCreator, TypeOK
<1>13. ASSUME NEW h \in Handlers, WaitTimeout(h)
       PROVE  WaiterHasCreator'
  BY <1>13 DEF WaitTimeout, Respond, WaiterHasCreator, TypeOK
<1>14. ASSUME UNCHANGED vars
       PROVE  WaiterHasCreator'
  BY <1>14 DEF vars, WaiterHasCreator, TypeOK
<1> QED
  BY <1>1, <1>2, <1>3, <1>4, <1>5, <1>6, <1>7, <1>8, <1>9, <1>10, <1>11, <1>12,
     <1>13, <1>14 DEF Next, Accept, Proceed

(* A fresh identifier keeps its one owner until its task is stored. *)
LEMMA FreshStep == IndInv /\ [Next]_vars => FreshIdsAreOwned'
<1> SUFFICES ASSUME IndInv, [Next]_vars PROVE FreshIdsAreOwned'
  OBVIOUS
<1> USE DEF IndInv
<1>1. ASSUME NEW h \in Handlers, NEW r \in Creates, TakeSequence(h, r)
      PROVE  FreshIdsAreOwned'
  <2>1. taskIdSequence \in Nat /\ taskIdSequence' = taskIdSequence + 1
        /\ taskIdSequence + 1 \in 1 .. MaxFresh
    BY <1>1, ConstantsAssumption DEF TakeSequence, TypeOK
  <2>2. \A g \in Handlers : pc[g] = "fresh" => target[g] # taskIdSequence + 1
    BY <2>1 DEF FreshIdsAreOwned
  <2>3. tasks[taskIdSequence + 1] = NoTask
    BY <2>1 DEF FreshIdsAreOwned
  <2> QED
    BY <1>1, <2>1, <2>2, <2>3 DEF TakeSequence, Serve, FreshIdsAreOwned, TypeOK
<1>2. ASSUME NEW h \in Handlers, NEW r \in Creates, FindTask(h, r)
      PROVE  FreshIdsAreOwned'
  BY <1>2 DEF FindTask, Respond, FreshIdsAreOwned, TypeOK, TaskId
<1>3. ASSUME NEW h \in Handlers, NEW r \in Creates, ClaimKey(h, r)
      PROVE  FreshIdsAreOwned'
  BY <1>3 DEF ClaimKey, Serve, FreshIdsAreOwned, TypeOK, TaskId
<1>4. ASSUME NEW h \in Handlers, NEW r \in Creates, JoinKey(h, r)
      PROVE  FreshIdsAreOwned'
  BY <1>4 DEF JoinKey, Serve, FreshIdsAreOwned, TypeOK, TaskId
<1>5. ASSUME NEW h \in Handlers, NEW t \in TaskId, NEW f \in Follows,
             ReadForAppend(h, t, f)
      PROVE  FreshIdsAreOwned'
  BY <1>5 DEF ReadForAppend, Respond, FreshIdsAreOwned, TypeOK, TaskId
<1>6. ASSUME NEW h \in Handlers, NEW t \in TaskId, ReadForCancel(h, t)
      PROVE  FreshIdsAreOwned'
  BY <1>6 DEF ReadForCancel, Respond, FreshIdsAreOwned, TypeOK, TaskId
<1>7. ASSUME NEW h \in Handlers, StoreFresh(h)
      PROVE  FreshIdsAreOwned'
  <2>1. \A g \in Handlers : pc'[g] = "fresh" =>
          g # h /\ pc[g] = "fresh" /\ target'[g] = target[g]
    BY <1>7 DEF StoreFresh, Respond, TypeOK
  <2>2. target[h] \in 1 .. taskIdSequence /\ taskIdSequence \in Nat
    BY <1>7 DEF StoreFresh, FreshIdsAreOwned, TypeOK
  <2>3. \A t \in TaskId : t # target[h] => tasks'[t] = tasks[t]
    BY <1>7 DEF StoreFresh, TypeOK
  <2>4. taskIdSequence' = taskIdSequence
    BY <1>7 DEF StoreFresh
  <2>5. \A g \in Handlers : g # h /\ pc[g] = "fresh" =>
          target[g] \in TaskId /\ target[g] # target[h]
    BY <1>7 DEF StoreFresh, FreshIdsAreOwned, JobsInv, TaskId
  <2>6. \A n \in 1 .. MaxFresh : n > taskIdSequence => n # target[h] /\ n \in TaskId
    BY <2>2 DEF TaskId
  <2> QED
    BY <2>1, <2>3, <2>4, <2>5, <2>6 DEF FreshIdsAreOwned
<1>8. ASSUME NEW h \in Handlers, Build(h)
      PROVE  FreshIdsAreOwned'
  BY <1>8 DEF Build, FreshIdsAreOwned, TypeOK, TaskId
<1>9. ASSUME NEW h \in Handlers, Publish(h)
      PROVE  FreshIdsAreOwned'
  <2>1. \A g \in Handlers : pc'[g] = "fresh" => pc[g] = "fresh" /\ target'[g] = target[g]
    BY <1>9 DEF Publish, TypeOK
  <2>2. target[h] \in Keys /\ target[h] \notin 1 .. MaxFresh
    BY <1>9, ConstantsAssumption DEF Publish, JobsInv
  <2>3. \A n \in 1 .. MaxFresh : tasks'[n] = tasks[n]
    BY <1>9, <2>2 DEF Publish, TypeOK, TaskId
  <2>4. \A g \in Handlers : pc[g] = "fresh" => target[g] \in 1 .. MaxFresh
    BY DEF JobsInv
  <2> QED
    BY <1>9, <2>1, <2>3, <2>4 DEF Publish, FreshIdsAreOwned
<1>10. ASSUME NEW h \in Handlers, Release(h)
       PROVE  FreshIdsAreOwned'
  <2>1. \A g \in Handlers : pc'[g] = "fresh" => pc[g] = "fresh" /\ target'[g] = target[g]
    BY <1>10 DEF Release, TypeOK
  <2> QED
    BY <1>10, <2>1 DEF Release, FreshIdsAreOwned
<1>11. ASSUME NEW h \in Handlers, ReadPublished(h)
       PROVE  FreshIdsAreOwned'
  BY <1>11 DEF ReadPublished, Respond, FreshIdsAreOwned, TypeOK, TaskId
<1>12. ASSUME NEW h \in Handlers, StoreAppend(h) \/ StoreCancel(h)
       PROVE  FreshIdsAreOwned'
  <2>1. \A g \in Handlers : pc'[g] = "fresh" => pc[g] = "fresh" /\ target'[g] = target[g]
    BY <1>12 DEF StoreAppend, StoreCancel, Respond, TypeOK
  <2>2. \A t \in TaskId : tasks[t] = NoTask => tasks'[t] = NoTask
    BY <1>12 DEF StoreAppend, StoreCancel, CopiesKeepBinding, TypeOK
  <2>3. \A g \in Handlers : pc[g] = "fresh" => target[g] \in TaskId
    BY DEF JobsInv, TaskId
  <2>4. taskIdSequence' = taskIdSequence
    BY <1>12 DEF StoreAppend, StoreCancel
  <2>5. \A n \in 1 .. MaxFresh : n \in TaskId
    BY DEF TaskId
  <2> QED
    BY <2>1, <2>2, <2>3, <2>4, <2>5 DEF FreshIdsAreOwned
<1>13. ASSUME NEW h \in Handlers, WaitTimeout(h)
       PROVE  FreshIdsAreOwned'
  BY <1>13 DEF WaitTimeout, Respond, FreshIdsAreOwned, TypeOK, TaskId
<1>14. ASSUME UNCHANGED vars
       PROVE  FreshIdsAreOwned'
  BY <1>14 DEF vars, FreshIdsAreOwned, TypeOK, TaskId
<1> QED
  BY <1>1, <1>2, <1>3, <1>4, <1>5, <1>6, <1>7, <1>8, <1>9, <1>10, <1>11, <1>12,
     <1>13, <1>14 DEF Next, Accept, Proceed

(* A copy of a task goes on agreeing with the task it was read from. *)
LEMMA CopiesStep == IndInv /\ [Next]_vars => CopiesKeepBinding'
<1> SUFFICES ASSUME IndInv, [Next]_vars PROVE CopiesKeepBinding'
  OBVIOUS
<1> USE DEF IndInv
<1>0. KeepsBinding
  BY BindingStep
<1>1. ASSUME NEW h \in Handlers, NEW r \in Creates, TakeSequence(h, r)
      PROVE  CopiesKeepBinding'
  <2>1. \A g \in Handlers : pc'[g] \in {"append", "cancel"} =>
          pc[g] = pc'[g] /\ target'[g] = target[g] /\ copy'[g] = copy[g]
    BY <1>1 DEF TakeSequence, Serve, TypeOK
  <2> QED
    BY <1>0, <2>1 DEF CopiesKeepBinding, KeepsBinding, JobsInv
<1>2. ASSUME NEW h \in Handlers, NEW r \in Creates, FindTask(h, r)
      PROVE  CopiesKeepBinding'
  <2>1. \A g \in Handlers : pc'[g] \in {"append", "cancel"} =>
          pc[g] = pc'[g] /\ target'[g] = target[g] /\ copy'[g] = copy[g]
    BY <1>2 DEF FindTask, Respond, TypeOK
  <2> QED
    BY <1>0, <2>1 DEF CopiesKeepBinding, KeepsBinding, JobsInv
<1>3. ASSUME NEW h \in Handlers, NEW r \in Creates, ClaimKey(h, r)
      PROVE  CopiesKeepBinding'
  <2>1. \A g \in Handlers : pc'[g] \in {"append", "cancel"} =>
          pc[g] = pc'[g] /\ target'[g] = target[g] /\ copy'[g] = copy[g]
    BY <1>3 DEF ClaimKey, Serve, TypeOK
  <2> QED
    BY <1>0, <2>1 DEF CopiesKeepBinding, KeepsBinding, JobsInv
<1>4. ASSUME NEW h \in Handlers, NEW r \in Creates, JoinKey(h, r)
      PROVE  CopiesKeepBinding'
  <2>1. \A g \in Handlers : pc'[g] \in {"append", "cancel"} =>
          pc[g] = pc'[g] /\ target'[g] = target[g] /\ copy'[g] = copy[g]
    BY <1>4 DEF JoinKey, Serve, TypeOK
  <2> QED
    BY <1>0, <2>1 DEF CopiesKeepBinding, KeepsBinding, JobsInv
<1>5. ASSUME NEW h \in Handlers, NEW t \in TaskId, NEW f \in Follows,
             ReadForAppend(h, t, f)
      PROVE  CopiesKeepBinding'
  <2>1. \A g \in Handlers : pc'[g] \in {"append", "cancel"} /\ g # h =>
          pc[g] = pc'[g] /\ target'[g] = target[g] /\ copy'[g] = copy[g]
    BY <1>5 DEF ReadForAppend, Respond, TypeOK
  <2>2. pc'[h] \in {"append", "cancel"} =>
          /\ target'[h] = t /\ tasks[t] # NoTask
          /\ copy'[h] = Appended(tasks[t], f)
    BY <1>5 DEF ReadForAppend, Respond, Takes, TypeOK
  <2>3. tasks[t] # NoTask => /\ Appended(tasks[t], f).request = tasks[t].request
                             /\ Appended(tasks[t], f).context = tasks[t].context
    BY DEF Appended, TypeOK, Task
  <2>4. tasks' = tasks
    BY <1>5 DEF ReadForAppend
  <2> QED
    BY <2>1, <2>2, <2>3, <2>4 DEF CopiesKeepBinding
<1>6. ASSUME NEW h \in Handlers, NEW t \in TaskId, ReadForCancel(h, t)
      PROVE  CopiesKeepBinding'
  <2>1. \A g \in Handlers : pc'[g] \in {"append", "cancel"} /\ g # h =>
          pc[g] = pc'[g] /\ target'[g] = target[g] /\ copy'[g] = copy[g]
    BY <1>6 DEF ReadForCancel, Respond, TypeOK
  <2>2. pc'[h] \in {"append", "cancel"} =>
          /\ target'[h] = t /\ tasks[t] # NoTask
          /\ copy'[h] = Canceled(tasks[t])
    BY <1>6 DEF ReadForCancel, Respond, TypeOK
  <2>3. tasks[t] # NoTask => /\ Canceled(tasks[t]).request = tasks[t].request
                             /\ Canceled(tasks[t]).context = tasks[t].context
    BY DEF Canceled, TypeOK, Task
  <2>4. tasks' = tasks
    BY <1>6 DEF ReadForCancel
  <2> QED
    BY <2>1, <2>2, <2>3, <2>4 DEF CopiesKeepBinding
<1>7. ASSUME NEW h \in Handlers, StoreFresh(h)
      PROVE  CopiesKeepBinding'
  <2>1. \A g \in Handlers : pc'[g] \in {"append", "cancel"} =>
          pc[g] = pc'[g] /\ target'[g] = target[g] /\ copy'[g] = copy[g]
    BY <1>7 DEF StoreFresh, Respond, TypeOK
  <2> QED
    BY <1>0, <2>1 DEF CopiesKeepBinding, KeepsBinding, JobsInv
<1>8. ASSUME NEW h \in Handlers, Build(h)
      PROVE  CopiesKeepBinding'
  <2>1. \A g \in Handlers : pc'[g] \in {"append", "cancel"} =>
          pc[g] = pc'[g] /\ target'[g] = target[g] /\ copy'[g] = copy[g]
    BY <1>8 DEF Build, TypeOK
  <2> QED
    BY <1>0, <2>1 DEF CopiesKeepBinding, KeepsBinding, JobsInv
<1>9. ASSUME NEW h \in Handlers, Publish(h)
      PROVE  CopiesKeepBinding'
  <2>1. \A g \in Handlers : pc'[g] \in {"append", "cancel"} =>
          pc[g] = pc'[g] /\ target'[g] = target[g] /\ copy'[g] = copy[g]
    BY <1>9 DEF Publish, TypeOK
  <2> QED
    BY <1>0, <2>1 DEF CopiesKeepBinding, KeepsBinding, JobsInv
<1>10. ASSUME NEW h \in Handlers, Release(h)
       PROVE  CopiesKeepBinding'
  <2>1. \A g \in Handlers : pc'[g] \in {"append", "cancel"} =>
          pc[g] = pc'[g] /\ target'[g] = target[g] /\ copy'[g] = copy[g]
    BY <1>10 DEF Release, TypeOK
  <2> QED
    BY <1>0, <2>1 DEF CopiesKeepBinding, KeepsBinding, JobsInv
<1>11. ASSUME NEW h \in Handlers, ReadPublished(h)
       PROVE  CopiesKeepBinding'
  <2>1. \A g \in Handlers : pc'[g] \in {"append", "cancel"} =>
          pc[g] = pc'[g] /\ target'[g] = target[g] /\ copy'[g] = copy[g]
    BY <1>11 DEF ReadPublished, Respond, TypeOK
  <2> QED
    BY <1>0, <2>1 DEF CopiesKeepBinding, KeepsBinding, JobsInv
<1>12. ASSUME NEW h \in Handlers, StoreAppend(h) \/ StoreCancel(h)
       PROVE  CopiesKeepBinding'
  <2>1. \A g \in Handlers : pc'[g] \in {"append", "cancel"} =>
          pc[g] = pc'[g] /\ target'[g] = target[g] /\ copy'[g] = copy[g]
    BY <1>12 DEF StoreAppend, StoreCancel, Respond, TypeOK
  <2> QED
    BY <1>0, <2>1 DEF CopiesKeepBinding, KeepsBinding, JobsInv
<1>13. ASSUME NEW h \in Handlers, WaitTimeout(h)
       PROVE  CopiesKeepBinding'
  <2>1. \A g \in Handlers : pc'[g] \in {"append", "cancel"} =>
          pc[g] = pc'[g] /\ target'[g] = target[g] /\ copy'[g] = copy[g]
    BY <1>13 DEF WaitTimeout, Respond, TypeOK
  <2> QED
    BY <1>0, <2>1 DEF CopiesKeepBinding, KeepsBinding, JobsInv
<1>14. ASSUME UNCHANGED vars
       PROVE  CopiesKeepBinding'
  BY <1>14 DEF vars, CopiesKeepBinding
<1> QED
  BY <1>1, <1>2, <1>3, <1>4, <1>5, <1>6, <1>7, <1>8, <1>9, <1>10, <1>11, <1>12,
     <1>13, <1>14 DEF Next, Accept, Proceed

(* A creator publishes the task of its own request. *)
LEMMA PublishedStep == IndInv /\ [Next]_vars => PublishedCopies'
<1> SUFFICES ASSUME IndInv, [Next]_vars PROVE PublishedCopies'
  OBVIOUS
<1> USE DEF IndInv
<1>1. ASSUME NEW h \in Handlers, NEW r \in Creates, TakeSequence(h, r)
      PROVE  PublishedCopies'
  BY <1>1 DEF TakeSequence, Serve, PublishedCopies, TypeOK
<1>2. ASSUME NEW h \in Handlers, NEW r \in Creates, FindTask(h, r)
      PROVE  PublishedCopies'
  BY <1>2 DEF FindTask, Respond, PublishedCopies, TypeOK
<1>3. ASSUME NEW h \in Handlers, NEW r \in Creates, ClaimKey(h, r)
      PROVE  PublishedCopies'
  BY <1>3 DEF ClaimKey, Serve, PublishedCopies, TypeOK
<1>4. ASSUME NEW h \in Handlers, NEW r \in Creates, JoinKey(h, r)
      PROVE  PublishedCopies'
  BY <1>4 DEF JoinKey, Serve, PublishedCopies, TypeOK
<1>5. ASSUME NEW h \in Handlers, NEW t \in TaskId, NEW f \in Follows,
             ReadForAppend(h, t, f)
      PROVE  PublishedCopies'
  BY <1>5 DEF ReadForAppend, Respond, PublishedCopies, TypeOK
<1>6. ASSUME NEW h \in Handlers, NEW t \in TaskId, ReadForCancel(h, t)
      PROVE  PublishedCopies'
  BY <1>6 DEF ReadForCancel, Respond, PublishedCopies, TypeOK
<1>7. ASSUME NEW h \in Handlers, StoreFresh(h)
      PROVE  PublishedCopies'
  BY <1>7 DEF StoreFresh, Respond, PublishedCopies, TypeOK
<1>8. ASSUME NEW h \in Handlers, Build(h)
      PROVE  PublishedCopies'
  <2>1. pc'[h] = "publish" => copy'[h] \in NewTasks(req[h])
    BY <1>8 DEF Build, TypeOK
  <2>2. \A task \in NewTasks(req[h]) :
          task.request = req[h] /\ task.context = req[h].context
    BY DEF NewTasks
  <2> QED
    BY <1>8, <2>1, <2>2 DEF Build, PublishedCopies, TypeOK
<1>9. ASSUME NEW h \in Handlers, Publish(h)
      PROVE  PublishedCopies'
  BY <1>9 DEF Publish, PublishedCopies, TypeOK
<1>10. ASSUME NEW h \in Handlers, Release(h)
       PROVE  PublishedCopies'
  BY <1>10 DEF Release, PublishedCopies, TypeOK
<1>11. ASSUME NEW h \in Handlers, ReadPublished(h)
       PROVE  PublishedCopies'
  BY <1>11 DEF ReadPublished, Respond, PublishedCopies, TypeOK
<1>12. ASSUME NEW h \in Handlers, StoreAppend(h) \/ StoreCancel(h)
       PROVE  PublishedCopies'
  BY <1>12 DEF StoreAppend, StoreCancel, Respond, PublishedCopies, TypeOK
<1>13. ASSUME NEW h \in Handlers, WaitTimeout(h)
       PROVE  PublishedCopies'
  BY <1>13 DEF WaitTimeout, Respond, PublishedCopies, TypeOK
<1>14. ASSUME UNCHANGED vars
       PROVE  PublishedCopies'
  BY <1>14 DEF vars, PublishedCopies, TypeOK
<1> QED
  BY <1>1, <1>2, <1>3, <1>4, <1>5, <1>6, <1>7, <1>8, <1>9, <1>10, <1>11, <1>12,
     <1>13, <1>14 DEF Next, Accept, Proceed

(* A task enters the store with the context of its request. *)
LEMMA ContextsStep == IndInv /\ [Next]_vars => ContextsMatch'
<1> SUFFICES ASSUME IndInv, [Next]_vars,
                    NEW t \in TaskId, tasks'[t] # NoTask
             PROVE  tasks'[t].context = tasks'[t].request.context
  BY DEF ContextsMatch
<1> USE DEF IndInv
<1>1. CASE tasks[t] # NoTask
  BY <1>1, BindingStep DEF KeepsBinding, ContextsMatch
<1>2. CASE tasks[t] = NoTask
  <2>1. ASSUME NEW h \in Handlers, StoreFresh(h)
        PROVE  tasks'[t].context = tasks'[t].request.context
    <3>1. PICK task \in NewTasks(req[h]) : tasks' = [tasks EXCEPT ![target[h]] = task]
      BY <1>2, <2>1 DEF StoreFresh
    <3>2. tasks'[t] = task
      BY <1>2, <3>1 DEF TypeOK
    <3> QED
      BY <3>2 DEF NewTasks
  <2>2. ASSUME NEW h \in Handlers, Publish(h)
        PROVE  tasks'[t].context = tasks'[t].request.context
    BY <1>2, <2>2 DEF Publish, PublishedCopies, TypeOK
  <2>3. ASSUME NEW h \in Handlers, StoreAppend(h) \/ StoreCancel(h)
        PROVE  tasks'[t].context = tasks'[t].request.context
    BY <1>2, <2>3 DEF StoreAppend, StoreCancel, CopiesKeepBinding, TypeOK
  <2>4. CASE tasks' = tasks
    BY <1>2, <2>4
  <2> QED
    BY <2>1, <2>2, <2>3, <2>4 DEF Next, Accept, Proceed, vars, TakeSequence, FindTask,
       ClaimKey, JoinKey, ReadForAppend, ReadForCancel, Build, Release, ReadPublished,
       WaitTimeout
<1> QED
  BY <1>1, <1>2

LEMMA IndStep == IndInv /\ [Next]_vars => IndInv'
BY TypeStep, SingleFlightStep, OneExecutionStep, WaiterStep, FreshStep, CopiesStep,
   PublishedStep, ContextsStep DEF IndInv

LEMMA IndInvariant == Spec => []IndInv
BY IndInit, IndStep, PTL DEF Spec

----------------------------------------------------------------------------
(* However many handlers race for a key, send_message has one creator for it
   at a time, and the barrier in the map is the creator's. *)
THEOREM SingleFlightHolds == Spec => []SingleFlight
<1>1. IndInv => SingleFlight
  BY DEF IndInv
<1> QED
  BY <1>1, IndInvariant, PTL

(* A key whose task is stored is never executed again. *)
THEOREM OneExecutionHolds == Spec => []OneExecution
<1>1. IndInv => OneExecution
  BY DEF IndInv
<1> QED
  BY <1>1, IndInvariant, PTL

(* A handler that waits always waits for an event that some creator will set. *)
THEOREM WaitersHaveCreators == Spec => []WaiterHasCreator
<1>1. IndInv => WaiterHasCreator
  BY DEF IndInv
<1> QED
  BY <1>1, IndInvariant, PTL

(* Two handlers never build a fresh task under the same identifier. *)
THEOREM FreshIdsHaveOwners == Spec => []FreshIdsAreOwned
<1>1. IndInv => FreshIdsAreOwned
  BY DEF IndInv
<1> QED
  BY <1>1, IndInvariant, PTL

(* Tasks are never removed, and the read-then-store of follow-ups and
   cancellations, however stale the copy, never rebinds a task to another
   request or context. *)
THEOREM BindingsAreKept == Spec => [][KeepsBinding]_vars
BY BindingStep, IndInvariant, PTL DEF Spec


----------------------------------------------------------------------------
(* The store implements the promise of an idempotency key. *)

LEMMA PromiseInit == Init => KeyPromise!Init
BY DEF Init, KeyPromise!Init, KeyPromise!Silent, BoundRequest, KeyAnswer, TaskId, Answer

(* A step that binds no key and answers nobody is a stutter of the promise. *)
LEMMA PromiseStutter ==
  ASSUME \A k \in Keys : tasks'[k] = tasks[k], reply' = reply
  PROVE  UNCHANGED KeyPromise!vars
BY DEF KeyPromise!vars, BoundRequest, KeyAnswer

(* A step that answers one handler and binds no key. *)
LEMMA PromiseAnswer ==
  ASSUME TypeOK, NEW h \in Handlers, NEW a \in Reply,
         BoundRequest' = BoundRequest, reply' = [reply EXCEPT ![h] = a],
         \/ a.request = NoRequest
         \/ /\ a.request \in KeyedRequests
            /\ \/ a.code = "task" /\ BoundRequest[a.request.key] = a.request
               \/ a.code = "collision"
                    /\ BoundRequest[a.request.key] \notin {NoRequest, a.request}
               \/ a.code \notin {"task", "collision"}
  PROVE  KeyPromise!Next
<1>1. KeyAnswer' = [KeyAnswer EXCEPT ![h] =
                      [code |-> IF a.request = NoRequest THEN "none" ELSE Verdict(a.code),
                       request |-> a.request]]
  BY DEF KeyAnswer, TypeOK
<1>2. CASE a.request = NoRequest
  <2>1. KeyPromise!Forget(h)
    BY <1>1, <1>2 DEF KeyPromise!Forget, KeyPromise!Silent
  <2> QED
    BY <2>1 DEF KeyPromise!Next
<1>3. CASE a.request # NoRequest /\ a.request \in KeyedRequests
  <2>1. CASE a.code = "task" /\ BoundRequest[a.request.key] = a.request
    <3>1. KeyPromise!Replay(h, a.request)
      BY <1>1, <1>3, <2>1 DEF KeyPromise!Replay, KeyPromise!Told, KeyOf, Verdict
    <3> QED
      BY <1>3, <3>1 DEF KeyPromise!Next
  <2>2. CASE a.code = "collision" /\ BoundRequest[a.request.key] \notin {NoRequest, a.request}
    <3>1. KeyPromise!Collide(h, a.request)
      BY <1>1, <1>3, <2>2 DEF KeyPromise!Collide, KeyPromise!Told, KeyOf, Verdict
    <3> QED
      BY <1>3, <3>1 DEF KeyPromise!Next
  <2>3. CASE a.code \notin {"task", "collision"}
    <3>1. KeyPromise!Fail(h, a.request)
      BY <1>1, <1>3, <2>3 DEF KeyPromise!Fail, KeyPromise!Told, KeyOf, Verdict
    <3> QED
      BY <1>3, <3>1 DEF KeyPromise!Next
  <2> QED
    BY <1>3, <2>1, <2>2, <2>3
<1> QED
  BY <1>2, <1>3

(* Comparing a request with the task under its key answers as promised. *)
LEMMA PromiseCompare ==
  ASSUME TypeOK, ContextsMatch, NEW r \in KeyedRequests, tasks[r.key] # NoTask
  PROVE  LET a == Compare(r, tasks[r.key])
         IN  /\ a \in Reply /\ a.request = r
             /\ \/ a.code = "task" /\ BoundRequest[r.key] = r
                \/ a.code = "collision" /\ BoundRequest[r.key] \notin {NoRequest, r}
<1>1. r.key \in Keys /\ r.key \in TaskId /\ r \in Creates
  BY KeyType DEF KeyedRequests
<1>2. tasks[r.key] \in Task /\ tasks[r.key].context = tasks[r.key].request.context
  BY <1>1 DEF TypeOK, ContextsMatch
<1> QED
  BY <1>1, <1>2, NullsAssumption, CompareType
     DEF Compare, Returned, Answer, BoundRequest, KeyedRequests, Task

LEMMA PromiseStep == IndInv /\ [Next]_vars => [KeyPromise!Next]_KeyPromise!vars
<1> SUFFICES ASSUME IndInv, [Next]_vars PROVE [KeyPromise!Next]_KeyPromise!vars
  OBVIOUS
<1> USE DEF IndInv
<1>1. \A k \in Keys : k \in TaskId
  BY DEF TaskId
<1>2. ASSUME tasks' = tasks PROVE BoundRequest' = BoundRequest
  BY <1>2 DEF BoundRequest
<1>3. ASSUME tasks' = tasks, reply' = reply PROVE UNCHANGED KeyPromise!vars
  BY <1>3, PromiseStutter
<1>4. ASSUME NEW h \in Handlers, NEW r \in Creates, FindTask(h, r)
      PROVE  KeyPromise!Next
  <2>1. r \in KeyedRequests /\ r.key \in Keys /\ tasks[r.key] # NoTask
    BY <1>4, KeyType DEF FindTask, KeyedRequests
  <2>2. reply' = [reply EXCEPT ![h] = Compare(r, tasks[r.key])] /\ tasks' = tasks
    BY <1>4 DEF FindTask, Respond
  <2> QED
    BY <1>2, <2>1, <2>2, PromiseCompare, PromiseAnswer
<1>5. ASSUME NEW h \in Handlers, NEW t \in TaskId, NEW f \in Follows,
             ReadForAppend(h, t, f)
      PROVE  [KeyPromise!Next]_KeyPromise!vars
  <2>1. Refusal(tasks[t], f) \in Reply /\ Refusal(tasks[t], f).request = NoRequest
    <3>1. Refusal(tasks[t], f) \in Reply
      BY RefusalType DEF TypeOK
    <3>2. Refusal(tasks[t], f).request = NoRequest
      BY DEF Refusal, Answer, Returned
    <3> QED
      BY <3>1, <3>2
  <2>2. tasks' = tasks
    BY <1>5 DEF ReadForAppend
  <2>3. reply' = reply \/ reply' = [reply EXCEPT ![h] = Refusal(tasks[t], f)]
    BY <1>5 DEF ReadForAppend, Respond
  <2> QED
    BY <1>2, <1>3, <2>1, <2>2, <2>3, PromiseAnswer
<1>6. ASSUME NEW h \in Handlers, NEW t \in TaskId, ReadForCancel(h, t)
      PROVE  [KeyPromise!Next]_KeyPromise!vars
  <2>1. \A c \in Code : Answer(c, NoRequest) \in Reply /\ Answer(c, NoRequest).request = NoRequest
    BY DEF Answer, Reply
  <2>2. tasks' = tasks
    BY <1>6 DEF ReadForCancel
  <2>3. reply' = reply \/ \E c \in Code : reply' = [reply EXCEPT ![h] = Answer(c, NoRequest)]
    BY <1>6 DEF ReadForCancel, Respond, Code
  <2> QED
    BY <1>2, <1>3, <2>1, <2>2, <2>3, PromiseAnswer
<1>7. ASSUME NEW h \in Handlers, StoreFresh(h)
      PROVE  KeyPromise!Next
  <2>1. req[h] \in Creates /\ target[h] \in 1 .. MaxFresh
    BY <1>7 DEF StoreFresh, JobsInv
  <2>2. BoundRequest' = BoundRequest
    <3>1. \A k \in Keys : tasks'[k] = tasks[k]
      BY <1>1, <1>7, <2>1, ConstantsAssumption DEF StoreFresh, TypeOK
    <3> QED
      BY <3>1 DEF BoundRequest
  <2>3. PICK a \in Reply : a.request = NoRequest /\ reply' = [reply EXCEPT ![h] = a]
    <3>1. CASE BuildRaises(req[h])
      <4>1. Answer("raised", NoRequest) \in Reply
        BY DEF Answer, Reply, Code
      <4> QED
        BY <1>7, <3>1, <4>1 DEF StoreFresh, Respond, Answer
    <3>2. CASE ~BuildRaises(req[h])
      <4>1. PICK task \in NewTasks(req[h]) : Respond(h, Returned(NoRequest, task))
        BY <1>7, <3>2 DEF StoreFresh
      <4>2. Returned(NoRequest, task) \in Reply
        BY <2>1, NewTasksType DEF Returned, Reply, Code
      <4> QED
        BY <4>1, <4>2 DEF Respond, Returned
    <3> QED
      BY <3>1, <3>2
  <2> QED
    BY <2>2, <2>3, PromiseAnswer
<1>8. ASSUME NEW h \in Handlers, Build(h)
      PROVE  [KeyPromise!Next]_KeyPromise!vars
  <2>1. req[h] \in KeyedRequests
    BY <1>8, NullsAssumption DEF Build, JobsInv, KeyedRequests
  <2>2. Answer("raised", req[h]) \in Reply
    BY <2>1 DEF Answer, Reply, Code, KeyedRequests
  <2>3. tasks' = tasks
    BY <1>8 DEF Build
  <2>4. reply' = reply \/ reply' = [reply EXCEPT ![h] = Answer("raised", req[h])]
    BY <1>8 DEF Build
  <2>5. Answer("raised", req[h]).request = req[h] /\ Answer("raised", req[h]).code = "raised"
    BY DEF Answer
  <2> QED
    BY <1>2, <1>3, <2>1, <2>2, <2>3, <2>4, <2>5, PromiseAnswer
<1>9. ASSUME NEW h \in Handlers, Publish(h)
      PROVE  KeyPromise!Next
  <2>1. /\ req[h] \in KeyedRequests /\ req[h].key = target[h] /\ target[h] \in Keys
        /\ copy[h] \in Task /\ copy[h].request = req[h] /\ tasks[target[h]] = NoTask
    BY <1>9, NullsAssumption
       DEF Publish, JobsInv, KeyedRequests, PublishedCopies, OneExecution
  <2>2. /\ tasks' = [tasks EXCEPT ![target[h]] = copy[h]]
        /\ reply' = [reply EXCEPT ![h] = Returned(req[h], copy[h])]
    BY <1>9, <2>1 DEF Publish
  <2>3. BoundRequest' = [BoundRequest EXCEPT ![target[h]] = req[h]]
    BY <1>1, <2>1, <2>2, NoTaskAssumption DEF BoundRequest, TypeOK
  <2>4. BoundRequest[target[h]] = NoRequest
    BY <2>1 DEF BoundRequest
  <2>5. KeyAnswer' = [KeyAnswer EXCEPT ![h] = [code |-> "granted", request |-> req[h]]]
    BY <2>1, <2>2, NullsAssumption DEF KeyAnswer, Returned, Verdict, KeyedRequests, TypeOK
  <2>6. KeyPromise!Create(h, req[h])
    BY <2>1, <2>3, <2>4, <2>5 DEF KeyPromise!Create, KeyPromise!Told, KeyOf
  <2> QED
    BY <2>1, <2>6 DEF KeyPromise!Next
<1>10. ASSUME NEW h \in Handlers, ReadPublished(h)
       PROVE  KeyPromise!Next
  <2>1. /\ req[h] \in KeyedRequests /\ req[h] \in Creates
        /\ req[h].key = target[h] /\ target[h] \in Keys
    BY <1>10, NullsAssumption DEF ReadPublished, JobsInv, KeyedRequests
  <2>2. tasks' = tasks
    BY <1>10 DEF ReadPublished
  <2>3. CASE tasks[target[h]] = NoTask
    <3>1. reply' = [reply EXCEPT ![h] = Answer("unpublished", req[h])]
      BY <1>10, <2>3 DEF ReadPublished, Respond
    <3>2. Answer("unpublished", req[h]) \in Reply
      BY <2>1 DEF Answer, Reply, Code
    <3>3. Answer("unpublished", req[h]).request = req[h]
          /\ Answer("unpublished", req[h]).code = "unpublished"
      BY DEF Answer
    <3> QED
      BY <1>2, <2>1, <2>2, <3>1, <3>2, <3>3, PromiseAnswer
  <2>4. CASE tasks[target[h]] # NoTask
    <3>1. reply' = [reply EXCEPT ![h] = Compare(req[h], tasks[req[h].key])]
      BY <1>10, <2>1, <2>4 DEF ReadPublished, Respond
    <3> QED
      BY <1>2, <2>1, <2>2, <2>4, <3>1, PromiseCompare, PromiseAnswer
  <2> QED
    BY <2>3, <2>4
<1>11. ASSUME NEW h \in Handlers, StoreAppend(h) \/ StoreCancel(h)
       PROVE  KeyPromise!Next
  <2>1. copy[h] \in Task /\ target[h] \in TaskId
    BY <1>11 DEF StoreAppend, StoreCancel, JobsInv
  <2>2. BoundRequest' = BoundRequest
    <3>1. \A k \in Keys : (tasks'[k] = NoTask) = (tasks[k] = NoTask)
                          /\ (tasks[k] # NoTask => tasks'[k].request = tasks[k].request)
      BY <1>1, <1>11, <2>1, NoTaskAssumption
         DEF StoreAppend, StoreCancel, CopiesKeepBinding, TypeOK
    <3> QED
      BY <3>1 DEF BoundRequest
  <2>3. Returned(NoRequest, copy[h]) \in Reply
        /\ Returned(NoRequest, copy[h]).request = NoRequest
    BY <2>1 DEF Returned, Reply, Code
  <2>4. reply' = [reply EXCEPT ![h] = Returned(NoRequest, copy[h])]
    BY <1>11 DEF StoreAppend, StoreCancel, Respond
  <2> QED
    BY <2>2, <2>3, <2>4, PromiseAnswer
<1>12. ASSUME NEW h \in Handlers, WaitTimeout(h)
       PROVE  KeyPromise!Next
  <2>1. req[h] \in KeyedRequests
    BY <1>12, NullsAssumption DEF WaitTimeout, JobsInv, KeyedRequests
  <2>2. Answer("timed_out", req[h]) \in Reply
    BY <2>1 DEF Answer, Reply, Code, KeyedRequests
  <2>3. Answer("timed_out", req[h]).request = req[h]
        /\ Answer("timed_out", req[h]).code = "timed_out"
    BY DEF Answer
  <2>4. tasks' = tasks /\ reply' = [reply EXCEPT ![h] = Answer("timed_out", req[h])]
    BY <1>12 DEF WaitTimeout, Respond
  <2> QED
    BY <1>2, <2>1, <2>2, <2>3, <2>4, PromiseAnswer
<1>13. ASSUME \/ UNCHANGED vars
              \/ \E h \in Handlers : Release(h)
              \/ \E h \in Handlers : \E r \in Creates :
                   TakeSequence(h, r) \/ ClaimKey(h, r) \/ JoinKey(h, r)
       PROVE  UNCHANGED KeyPromise!vars
  BY <1>3, <1>13 DEF vars, Release, TakeSequence, ClaimKey, JoinKey
<1> QED
  BY <1>4, <1>5, <1>6, <1>7, <1>8, <1>9, <1>10, <1>11, <1>12, <1>13
     DEF Next, Accept, Proceed

(* The task store implements the promise of an idempotency key: once bound, a
   key keeps its request, creation is one step, and every answer under the key
   agrees with the binding. *)
THEOREM StoreKeepsPromise == Spec => ImplementsKeyPromise
BY PromiseInit, PromiseStep, IndInvariant, PTL DEF Spec, ImplementsKeyPromise, KeyPromise!Spec

----------------------------------------------------------------------------
(* What a task keeps when no two updates of it overlap.  A follow-up message and
   a cancellation read a task and store the changed copy in two critical
   sections; between them nothing but another update can touch the task. *)

Updating(h) == pc[h] \in {"append", "cancel"}

OneUpdater ==
  \A g, h \in Handlers : Updating(g) /\ Updating(h) /\ target[g] = target[h] => g = h

(* The copy that an update will store is the task as it now is, and changed as
   the code changes it. *)
CopyIsCurrent(h) ==
  /\ pc[h] = "append" =>
       \E f \in Follows : /\ Takes(tasks[target[h]], f)
                          /\ copy[h] = Appended(tasks[target[h]], f)
  /\ pc[h] = "cancel" => /\ tasks[target[h]].state \notin Terminal
                         /\ copy[h] = Canceled(tasks[target[h]])

CopiesAreCurrent == \A h \in Handlers : CopyIsCurrent(h)

(* What one handler's step does to the store: nothing, or it stores a new task,
   or it stores the copy of an update. *)
StoresNothing(h) == ~Stores(h) /\ tasks' = tasks

StoresNew(h) ==
  /\ Stores(h) /\ ~Updating(h)
  /\ target[h] \in TaskId /\ tasks[target[h]] = NoTask
  /\ \E task \in Task : tasks' = [tasks EXCEPT ![target[h]] = task]

StoresUpdate(h) ==
  /\ Stores(h) /\ Updating(h)
  /\ target[h] \in TaskId /\ tasks[target[h]] # NoTask
  /\ copy[h] \in Task /\ copy[h].context = tasks[target[h]].context
  /\ tasks' = [tasks EXCEPT ![target[h]] = copy[h]]

(* An update that is under way after a step was under way before it, or has been
   started by it. *)
GoesOn(g) == Updating(g) /\ pc'[g] = pc[g] /\ target'[g] = target[g] /\ copy'[g] = copy[g]

Starts(h) == /\ pc[h] = "idle" /\ tasks' = tasks
             /\ target'[h] \in TaskId /\ tasks[target'[h]] # NoTask
             /\ copy'[h] # NoTask
             /\ CopyIsCurrent(h)'

Effect(h) ==
  /\ StoresNothing(h) \/ StoresNew(h) \/ StoresUpdate(h)
  /\ \A g \in Handlers \ {h} : Updating(g)' => GoesOn(g)
  /\ Updating(h)' => Starts(h)

LEMMA StepEffect ==
  ASSUME IndInv, NEW h \in Handlers, Accept(h) \/ Proceed(h) \/ WaitTimeout(h)
  PROVE  Effect(h)
<1> USE DEF IndInv
<1>1. ASSUME NEW r \in Creates, TakeSequence(h, r) PROVE Effect(h)
  BY <1>1 DEF TakeSequence, Serve, TypeOK, Effect, StoresNothing, Stores, Updating, GoesOn
<1>2. ASSUME NEW r \in Creates, FindTask(h, r) PROVE Effect(h)
  BY <1>2 DEF FindTask, Respond, TypeOK, Effect, StoresNothing, Stores, Updating, GoesOn
<1>3. ASSUME NEW r \in Creates, ClaimKey(h, r) PROVE Effect(h)
  BY <1>3 DEF ClaimKey, Serve, TypeOK, Effect, StoresNothing, Stores, Updating, GoesOn
<1>4. ASSUME NEW r \in Creates, JoinKey(h, r) PROVE Effect(h)
  BY <1>4 DEF JoinKey, Serve, TypeOK, Effect, StoresNothing, Stores, Updating, GoesOn
<1>5. ASSUME NEW t \in TaskId, NEW f \in Follows, ReadForAppend(h, t, f) PROVE Effect(h)
  <2>1. StoresNothing(h) /\ \A g \in Handlers \ {h} : Updating(g)' => GoesOn(g)
    BY <1>5 DEF ReadForAppend, Respond, TypeOK, StoresNothing, Stores, Updating, GoesOn
  <2>2. ASSUME Updating(h)' PROVE Starts(h)
    <3>1. /\ pc[h] = "idle" /\ tasks' = tasks /\ Takes(tasks[t], f)
          /\ pc'[h] = "append" /\ target'[h] = t /\ copy'[h] = Appended(tasks[t], f)
      BY <1>5, <2>2 DEF ReadForAppend, Respond, TypeOK, Updating
    <3>2. tasks[t] \in Task
      BY <3>1 DEF Takes, TypeOK
    <3>3. copy'[h] \in Task
      BY <3>1, <3>2, UpdatesType
    <3> QED
      BY <3>1, <3>2, <3>3, NoTaskAssumption DEF Starts, CopyIsCurrent
  <2> QED
    BY <2>1, <2>2 DEF Effect
<1>6. ASSUME NEW t \in TaskId, ReadForCancel(h, t) PROVE Effect(h)
  <2>1. StoresNothing(h) /\ \A g \in Handlers \ {h} : Updating(g)' => GoesOn(g)
    BY <1>6 DEF ReadForCancel, Respond, TypeOK, StoresNothing, Stores, Updating, GoesOn
  <2>2. ASSUME Updating(h)' PROVE Starts(h)
    <3>1. /\ pc[h] = "idle" /\ tasks' = tasks
          /\ tasks[t] # NoTask /\ tasks[t].state \notin Terminal
          /\ pc'[h] = "cancel" /\ target'[h] = t /\ copy'[h] = Canceled(tasks[t])
      BY <1>6, <2>2 DEF ReadForCancel, Respond, TypeOK, Updating
    <3>2. tasks[t] \in Task
      BY <3>1 DEF TypeOK
    <3>3. Canceled(tasks[t]) # NoTask
      <4>1. "CANCELED" \in TaskState
        BY DEF TaskState, Terminal
      <4>2. Canceled(tasks[t]) \in Task
        BY <3>2, <4>1 DEF Canceled, Task
      <4> QED
        BY <4>2, NoTaskAssumption
    <3> QED
      BY <3>1, <3>2, <3>3 DEF Starts, CopyIsCurrent
  <2> QED
    BY <2>1, <2>2 DEF Effect
<1>7. ASSUME StoreFresh(h) PROVE Effect(h)
  <2>1. \A g \in Handlers : Updating(g)' => g # h /\ GoesOn(g)
    BY <1>7 DEF StoreFresh, Respond, TypeOK, Updating, GoesOn
  <2>2. CASE BuildRaises(req[h])
    <3>1. StoresNothing(h)
      BY <1>7, <2>2 DEF StoreFresh, StoresNothing, Stores
    <3> QED
      BY <2>1, <3>1 DEF Effect
  <2>3. CASE ~BuildRaises(req[h])
    <3>1. PICK task \in NewTasks(req[h]) : tasks' = [tasks EXCEPT ![target[h]] = task]
      BY <1>7, <2>3 DEF StoreFresh
    <3>2. req[h] \in Creates /\ target[h] \in TaskId /\ tasks[target[h]] = NoTask
      BY <1>7 DEF StoreFresh, JobsInv, FreshIdsAreOwned, TaskId
    <3>3. task \in Task
      BY <3>1, <3>2, NewTasksType
    <3>4. StoresNew(h)
      BY <1>7, <2>3, <3>1, <3>2, <3>3 DEF StoreFresh, StoresNew, Stores, Updating
    <3> QED
      BY <2>1, <3>4 DEF Effect
  <2> QED
    BY <2>2, <2>3
<1>8. ASSUME Build(h) PROVE Effect(h)
  BY <1>8 DEF Build, TypeOK, Effect, StoresNothing, Stores, Updating, GoesOn
<1>9. ASSUME Publish(h) PROVE Effect(h)
  <2>1. \A g \in Handlers : Updating(g)' => g # h /\ GoesOn(g)
    BY <1>9 DEF Publish, TypeOK, Updating, GoesOn
  <2>2. CASE tasks[target[h]] # NoTask
    <3>1. StoresNothing(h)
      BY <1>9, <2>2 DEF Publish, StoresNothing, Stores
    <3> QED
      BY <2>1, <3>1 DEF Effect
  <2>3. CASE tasks[target[h]] = NoTask
    <3>1. copy[h] \in Task /\ target[h] \in TaskId
      BY <1>9 DEF Publish, JobsInv, TaskId
    <3>2. StoresNew(h)
      BY <1>9, <2>3, <3>1 DEF Publish, StoresNew, Stores, Updating
    <3> QED
      BY <2>1, <3>2 DEF Effect
  <2> QED
    BY <2>2, <2>3
<1>10. ASSUME Release(h) PROVE Effect(h)
  BY <1>10 DEF Release, TypeOK, Effect, StoresNothing, Stores, Updating, GoesOn
<1>11. ASSUME ReadPublished(h) PROVE Effect(h)
  BY <1>11 DEF ReadPublished, Respond, TypeOK, Effect, StoresNothing, Stores, Updating, GoesOn
<1>12. ASSUME StoreAppend(h) \/ StoreCancel(h) PROVE Effect(h)
  <2>1. \A g \in Handlers : Updating(g)' => g # h /\ GoesOn(g)
    BY <1>12 DEF StoreAppend, StoreCancel, Respond, TypeOK, Updating, GoesOn
  <2>2. StoresUpdate(h)
    BY <1>12 DEF StoreAppend, StoreCancel, JobsInv, CopiesKeepBinding, StoresUpdate, Stores,
       Updating
  <2> QED
    BY <2>1, <2>2 DEF Effect
<1>13. ASSUME WaitTimeout(h) PROVE Effect(h)
  BY <1>13 DEF WaitTimeout, Respond, TypeOK, Effect, StoresNothing, Stores, Updating, GoesOn
<1> QED
  BY <1>1, <1>2, <1>3, <1>4, <1>5, <1>6, <1>7, <1>8, <1>9, <1>10, <1>11, <1>12, <1>13
     DEF Accept, Proceed

(* Nothing but another update of the task makes a copy stale. *)
LEMMA CurrentStep ==
  IndInv /\ OneUpdater /\ CopiesAreCurrent /\ [Next]_vars => CopiesAreCurrent'
<1> SUFFICES ASSUME IndInv, OneUpdater, CopiesAreCurrent, [Next]_vars
             PROVE  CopiesAreCurrent'
  OBVIOUS
<1>1. CASE UNCHANGED vars
  BY <1>1 DEF vars, CopiesAreCurrent, CopyIsCurrent
<1>2. ASSUME NEW h \in Handlers, Accept(h) \/ Proceed(h) \/ WaitTimeout(h), NEW g \in Handlers
      PROVE  CopyIsCurrent(g)'
  <2>1. Effect(h)
    BY <1>2, StepEffect
  <2>2. CASE ~Updating(g)'
    BY <2>2 DEF Updating, CopyIsCurrent
  <2>3. CASE Updating(g)' /\ g = h
    BY <2>1, <2>3 DEF Effect, Starts
  <2>4. CASE Updating(g)' /\ g # h
    <3>1. GoesOn(g)
      BY <2>1, <2>4 DEF Effect
    <3>2. target[g] \in TaskId /\ tasks[target[g]] # NoTask
      BY <3>1 DEF GoesOn, Updating, IndInv, JobsInv, CopiesKeepBinding
    <3>3. tasks'[target[g]] = tasks[target[g]]
      <4>1. StoresUpdate(h) => target[h] # target[g]
        BY <2>4, <3>1 DEF StoresUpdate, GoesOn, OneUpdater
      <4>2. StoresNew(h) => target[h] # target[g]
        BY <3>2 DEF StoresNew
      <4> QED
        BY <2>1, <3>2, <4>1, <4>2
           DEF Effect, StoresNothing, StoresNew, StoresUpdate, IndInv, TypeOK
    <3>4. CopyIsCurrent(g)
      BY DEF CopiesAreCurrent
    <3> QED
      BY <3>1, <3>3, <3>4 DEF GoesOn, CopyIsCurrent
  <2> QED
    BY <2>2, <2>3, <2>4
<1> QED
  BY <1>1, <1>2 DEF Next, CopiesAreCurrent

(* What a step may do to the task t. *)
KeepsTask(t) ==
  tasks[t] # NoTask =>
    /\ tasks'[t] # NoTask
    /\ tasks[t].state \in Terminal => tasks'[t].state = tasks[t].state
    /\ \A f \in Follows : Accepted(tasks[t], f) => Accepted(tasks'[t], f)

LEMMA KeepsTaskStep ==
  IndInv /\ CopiesAreCurrent /\ [Next]_vars => \A t \in TaskId : KeepsTask(t)
<1> SUFFICES ASSUME IndInv, CopiesAreCurrent, [Next]_vars, NEW t \in TaskId,
                    tasks[t] # NoTask
             PROVE  /\ tasks'[t] # NoTask
                    /\ tasks[t].state \in Terminal => tasks'[t].state = tasks[t].state
                    /\ \A f \in Follows : Accepted(tasks[t], f) => Accepted(tasks'[t], f)
  BY DEF KeepsTask
<1>1. CASE tasks'[t] = tasks[t]
  BY <1>1
<1>2. ASSUME NEW h \in Handlers, Accept(h) \/ Proceed(h) \/ WaitTimeout(h),
             tasks'[t] # tasks[t]
      PROVE  /\ tasks'[t] # NoTask
             /\ tasks[t].state \notin Terminal
             /\ \A f \in Follows : Accepted(tasks[t], f) => Accepted(tasks'[t], f)
  <2>1. Effect(h)
    BY <1>2, StepEffect
  <2>2. StoresUpdate(h) /\ t = target[h] /\ tasks'[t] = copy[h]
    BY <1>2, <2>1 DEF Effect, StoresNothing, StoresNew, StoresUpdate, IndInv, TypeOK
  <2>3. copy[h] # NoTask /\ tasks[t] \in Task
    BY <2>2, NoTaskAssumption DEF StoresUpdate, IndInv, TypeOK
  <2>4. CopyIsCurrent(h)
    BY DEF CopiesAreCurrent
  <2>5. CASE pc[h] = "append"
    <3>1. PICK f \in Follows : Takes(tasks[t], f) /\ copy[h] = Appended(tasks[t], f)
      BY <2>2, <2>4, <2>5 DEF CopyIsCurrent
    <3>2. copy[h].history = Append(tasks[t].history, f) /\ tasks[t].history \in Seq(Follows)
      BY <2>3, <3>1 DEF Appended, Task
    <3>3. \A i \in DOMAIN tasks[t].history :
            i \in DOMAIN copy[h].history /\ copy[h].history[i] = tasks[t].history[i]
      BY <3>2
    <3> QED
      BY <2>2, <2>3, <3>1, <3>3 DEF Takes, Accepted
  <2>6. CASE pc[h] = "cancel"
    <3>1. tasks[t].state \notin Terminal /\ copy[h] = Canceled(tasks[t])
      BY <2>2, <2>4, <2>6 DEF CopyIsCurrent
    <3>2. copy[h].history = tasks[t].history
      BY <2>3, <3>1 DEF Canceled, Task
    <3> QED
      BY <2>2, <2>3, <3>1, <3>2 DEF Accepted
  <2> QED
    BY <2>2, <2>5, <2>6 DEF StoresUpdate, Updating
<1>3. CASE UNCHANGED vars
  BY <1>3 DEF vars
<1> QED
  BY <1>1, <1>2, <1>3 DEF Next

LEMMA CopiesStayCurrent == Spec /\ []OneUpdater => [](IndInv /\ CopiesAreCurrent)
<1>1. Init => CopiesAreCurrent
  BY DEF Init, CopiesAreCurrent, CopyIsCurrent
<1> QED
  BY <1>1, CurrentStep, IndInvariant, PTL DEF Spec

(* As long as no two updates of one task overlap, a task that has reached a
   terminal state keeps it (send_message and cancel_task refuse such a task, but
   look at it and store it in two critical sections). *)
THEOREM TerminalStaysUnlessUpdatesOverlap == Spec /\ []OneUpdater => TerminalStays
<1>1. IndInv /\ CopiesAreCurrent /\ [Next]_vars =>
        [\A t \in TaskId : tasks[t] # NoTask /\ tasks[t].state \in Terminal
           => tasks'[t] # NoTask /\ tasks'[t].state = tasks[t].state]_vars
  BY KeepsTaskStep DEF KeepsTask
<1> QED
  BY <1>1, CopiesStayCurrent, PTL DEF Spec, TerminalStays

(* As long as no two updates of one task overlap, a follow-up message that was
   accepted stays in the task's history. *)
THEOREM HistoryGrowsUnlessUpdatesOverlap == Spec /\ []OneUpdater => HistoryGrows
<1>1. IndInv /\ CopiesAreCurrent /\ [Next]_vars =>
        [\A t \in TaskId : tasks[t] # NoTask =>
           /\ tasks'[t] # NoTask
           /\ \A f \in Follows : Accepted(tasks[t], f) => Accepted(tasks'[t], f)]_vars
  BY KeepsTaskStep DEF KeepsTask
<1> QED
  BY <1>1, CopiesStayCurrent, PTL DEF Spec, HistoryGrows

(* A server with one thread never overlaps two updates. *)
COROLLARY OneThreadKeepsTasks ==
  ASSUME \A g, h \in Handlers : g = h
  PROVE  Spec => TerminalStays /\ HistoryGrows
<1>1. OneUpdater
  BY DEF OneUpdater
<1> QED
  BY <1>1, TerminalStaysUnlessUpdatesOverlap, HistoryGrowsUnlessUpdatesOverlap, PTL

----------------------------------------------------------------------------
(* Listing tasks page by page (TaskListing). *)

Stored == {t \in TaskId : tasks[t] # NoTask}

(* The order in which the tasks were inserted names each of them once. *)
InsertionOrder ==
  /\ IsFiniteSet(Stored)
  /\ order \in Seq(TaskId)
  /\ \A t \in TaskId : t \in Stored <=> \E i \in DOMAIN order : order[i] = t
  /\ \A i, j \in DOMAIN order : order[i] = order[j] => i = j

(* The clock runs ahead of every time that was read from it, and the time that
   an update will store is no earlier than the one it replaces. *)
Stamps ==
  /\ clock \in Nat
  /\ earliest \in [Handlers -> Nat] /\ timestamp \in [TaskId -> Nat]
  /\ \A h \in Handlers : earliest[h] <= clock
  /\ \A t \in TaskId : timestamp[t] <= clock
  /\ \A h \in Handlers : Updating(h) => timestamp[target[h]] <= earliest[h]

WalkType ==
  /\ walk \in [place : {"idle", "pages", "ended"}, filter : {walk.filter}, offset : Nat,
                seen : SUBSET TaskId, due : SUBSET TaskId]
  /\ walk.place # "idle" => walk.filter \in Filters

(* What is due and has not been seen is not before the next page. *)
DueIsAhead ==
  walk.filter.state = "any" =>
    /\ walk.place = "pages" =>
         \A t \in walk.due : /\ Matches(t, walk.filter)
                             /\ t \in walk.seen \/ Position(t, walk.filter) >= walk.offset
    /\ walk.place = "ended" => walk.due \subseteq walk.seen

ListingInv == InsertionOrder /\ Stamps /\ WalkType /\ DueIsAhead

(* Listing changes nothing that handlers see. *)
LEMMA ListingIsSpec == ListingSpec => Spec
<1>1. ListingInit => Init
  BY DEF ListingInit
<1>2. [ListingNext]_<<vars, listing>> => [Next]_vars
  BY DEF ListingNext, Tick, Handle, BeginWalk, ListTasks, Next
<1> QED
  BY <1>1, <1>2, PTL DEF ListingSpec, Spec

(* The place of a stored task in the insertion order. *)
LEMMA IndexOfStored ==
  ASSUME InsertionOrder, NEW t \in Stored
  PROVE  Index(t) \in DOMAIN order /\ order[Index(t)] = t /\ Index(t) \in Nat
<1>1. \E i \in DOMAIN order : order[i] = t
  BY DEF InsertionOrder, Stored
<1>2. Index(t) \in DOMAIN order /\ order[Index(t)] = t
  BY <1>1 DEF Index
<1> QED
  BY <1>2 DEF InsertionOrder

(* The tasks stand in one order, newest first. *)
LEMMA BeforeIsAnOrder ==
  ASSUME InsertionOrder, timestamp \in [TaskId -> Nat],
         NEW t \in Stored, NEW u \in Stored, NEW v \in Stored
  PROVE  /\ ~Before(t, t)
         /\ t # u => Before(t, u) \/ Before(u, t)
         /\ Before(t, u) /\ Before(u, v) => Before(t, v)
<1>1. /\ Index(t) \in Nat /\ Index(u) \in Nat /\ Index(v) \in Nat
      /\ t # u => Index(t) # Index(u)
  BY IndexOfStored
<1>2. timestamp[t] \in Nat /\ timestamp[u] \in Nat /\ timestamp[v] \in Nat
  BY DEF Stored
<1> QED
  BY <1>1, <1>2 DEF Before

(* The tasks of a list are finitely many; a task of it is as many places down
   as there are tasks before it, and no two stand at one place. *)
LEMMA Positions ==
  ASSUME InsertionOrder, timestamp \in [TaskId -> Nat], NEW filter,
         NEW t \in Listed(filter)
  PROVE  /\ IsFiniteSet(Listed(filter)) /\ Cardinality(Listed(filter)) \in Nat
         /\ Position(t, filter) \in Nat
         /\ Position(t, filter) < Cardinality(Listed(filter))
         /\ \A u \in Listed(filter) : Before(t, u) => Position(t, filter) < Position(u, filter)
<1> DEFINE Ahead(x) == {y \in Listed(filter) : Before(y, x)}
<1>1. Listed(filter) \subseteq Stored
  BY DEF Listed, Matches, Stored
<1>2. IsFiniteSet(Listed(filter)) /\ Cardinality(Listed(filter)) \in Nat
  BY <1>1, FS_Subset, FS_CardinalityType DEF InsertionOrder
<1>3. \A S \in SUBSET Listed(filter) : IsFiniteSet(S) /\ Cardinality(S) \in Nat
  BY <1>2, FS_Subset, FS_CardinalityType
<1>4. \A x \in Listed(filter) : Ahead(x) \subseteq Listed(filter) /\ x \notin Ahead(x)
  BY <1>1, BeforeIsAnOrder
<1>5. ASSUME NEW S \in SUBSET Listed(filter), NEW x \in Listed(filter), NEW T \in SUBSET S,
             x \in S, x \notin T
      PROVE  Cardinality(T) < Cardinality(S)
  <2>1. IsFiniteSet(S) /\ IsFiniteSet(T) /\ Cardinality(S) \in Nat /\ Cardinality(T) \in Nat
    BY <1>3
  <2>2. Cardinality(T) <= Cardinality(S) /\ (Cardinality(S) = Cardinality(T) => S = T)
    BY <2>1, FS_Subset
  <2>3. S # T
    BY <1>5
  <2> QED
    BY <2>1, <2>2, <2>3
<1>6. ASSUME NEW u \in Listed(filter), Before(t, u)
      PROVE  Cardinality(Ahead(t)) < Cardinality(Ahead(u))
  <2>1. Ahead(t) \subseteq Ahead(u) /\ t \in Ahead(u)
    BY <1>1, <1>6, BeforeIsAnOrder
  <2> QED
    BY <1>4, <1>5, <2>1
<1>7. Cardinality(Ahead(t)) < Cardinality(Listed(filter))
  BY <1>4, <1>5
<1> QED
  BY <1>2, <1>3, <1>4, <1>6, <1>7 DEF Position

(* A page is no larger than it may be. *)
LEMMA PageIsSmall ==
  ASSUME InsertionOrder, timestamp \in [TaskId -> Nat], NEW filter, NEW offset \in Nat
  PROVE  /\ Cardinality(Page(filter, offset)) \in Nat
         /\ Cardinality(Page(filter, offset)) <= PageSize
<1> DEFINE page == Page(filter, offset)
           places == offset .. (offset + PageSize - 1)
           f == [t \in page |-> Position(t, filter)]
<1>1. page \subseteq Listed(filter) /\ \A t \in page : Position(t, filter) \in places
  BY DEF Page
<1>2. \A t, u \in page : t # u => Position(t, filter) # Position(u, filter)
  <2> SUFFICES ASSUME NEW t \in page, NEW u \in page, t # u
               PROVE  Position(t, filter) # Position(u, filter)
    OBVIOUS
  <2>1. t \in Stored /\ u \in Stored
    BY <1>1 DEF Listed, Matches, Stored
  <2>2. Before(t, u) \/ Before(u, t)
    BY <2>1, BeforeIsAnOrder
  <2>3. Position(t, filter) \in Nat /\ Position(u, filter) \in Nat
    BY <1>1, Positions
  <2>4. /\ Before(t, u) => Position(t, filter) < Position(u, filter)
        /\ Before(u, t) => Position(u, filter) < Position(t, filter)
    BY <1>1, Positions
  <2> QED
    BY <2>2, <2>3, <2>4
<1>3. f \in Injection(page, places)
  BY <1>1, <1>2 DEF Injection, IsInjective
<1>4. IsFiniteSet(places) /\ Cardinality(places) = PageSize
  <2>1. offset + PageSize - 1 \in Int /\ offset \in Int /\ PageSize \in Nat /\ PageSize > 0
    BY ListingAssumption
  <2> QED
    BY <2>1, FS_Interval
<1> HIDE DEF f, places, page
<1>5. IsFiniteSet(page) /\ Cardinality(page) <= Cardinality(places)
  BY <1>3, <1>4, FS_Injection
<1> QED
  BY <1>4, <1>5, FS_CardinalityType DEF page

(* What holds of a store that one handler's step changes. *)
HandleSets(h) ==
  IF Stores(h)
    THEN /\ \E now \in Times(h) : timestamp' = [timestamp EXCEPT ![target[h]] = now]
         /\ order' = IF tasks[target[h]] = NoTask THEN Append(order, target[h]) ELSE order
         /\ walk' = [walk EXCEPT !.due = @ \ {target[h]}]
    ELSE UNCHANGED <<timestamp, order, walk>>

LEMMA HandleOrder ==
  ASSUME TypeOK, InsertionOrder, NEW h \in Handlers, Effect(h), HandleSets(h)
  PROVE  /\ InsertionOrder'
         /\ \A t \in Stored : t \in Stored' /\ Index(t)' = Index(t)
<1>1. CASE StoresNothing(h)
  BY <1>1 DEF StoresNothing, HandleSets, InsertionOrder, Stored, Index
<1>2. CASE StoresUpdate(h)
  <2>1. order' = order
    BY <1>2 DEF StoresUpdate, HandleSets
  <2>2. Stored' = Stored
    BY <1>2, NoTaskAssumption DEF StoresUpdate, Stored, TypeOK
  <2> QED
    BY <2>1, <2>2 DEF InsertionOrder, Index
<1>3. CASE StoresNew(h)
  <2> DEFINE new == target[h]
  <2>1. /\ new \in TaskId /\ new \notin Stored /\ order' = Append(order, new)
        /\ Stored' = Stored \cup {new}
    BY <1>3, NoTaskAssumption DEF StoresNew, HandleSets, Stored, TypeOK
  <2> HIDE DEF new
  <2>2. /\ order \in Seq(TaskId) /\ order' \in Seq(TaskId)
        /\ DOMAIN order = 1 .. Len(order) /\ DOMAIN order' = 1 .. (Len(order) + 1)
        /\ Len(order) \in Nat
        /\ order'[Len(order) + 1] = new
        /\ \A i \in DOMAIN order : order'[i] = order[i]
    BY <2>1 DEF InsertionOrder
  <2>3. \A i \in DOMAIN order : order[i] \in Stored
    BY <2>2 DEF InsertionOrder
  <2>4. \A i \in DOMAIN order' : /\ i \in DOMAIN order \/ i = Len(order) + 1
                                 /\ order'[i] = new => i = Len(order) + 1
    BY <2>1, <2>2, <2>3
  <2>5. IsFiniteSet(Stored')
    BY <2>1, FS_AddElement DEF InsertionOrder
  <2>6. \A i, j \in DOMAIN order' : order'[i] = order'[j] => i = j
    <3> SUFFICES ASSUME NEW i \in DOMAIN order', NEW j \in DOMAIN order',
                        order'[i] = order'[j]
                 PROVE  i = j
      OBVIOUS
    <3>1. CASE i \in DOMAIN order /\ j \in DOMAIN order
      BY <2>2, <3>1 DEF InsertionOrder
    <3>2. CASE i = Len(order) + 1 \/ j = Len(order) + 1
      BY <2>2, <2>4, <3>2
    <3> QED
      BY <2>4, <3>1, <3>2
  <2>7. \A t \in TaskId : t \in Stored' <=> \E i \in DOMAIN order' : order'[i] = t
    BY <2>1, <2>2, <2>4 DEF InsertionOrder
  <2>8. InsertionOrder'
    BY <2>2, <2>5, <2>6, <2>7 DEF InsertionOrder
  <2>9. ASSUME NEW t \in Stored PROVE Index(t)' = Index(t)
    <3>1. Index(t) \in DOMAIN order /\ order[Index(t)] = t
      BY IndexOfStored
    <3>2. t \in Stored'
      BY <2>1
    <3>3. \A i \in DOMAIN order' : order'[i] = t => i = Index(t)
      BY <2>2, <2>6, <3>1
    <3>4. \E i \in DOMAIN order' : order'[i] = t
      BY <2>2, <3>1
    <3> QED
      BY <3>3, <3>4 DEF Index
  <2> QED
    BY <2>1, <2>8, <2>9
<1> QED
  BY <1>1, <1>2, <1>3 DEF Effect

(* No stored time goes back, and the clock stays ahead. *)
LEMMA HandleStamps ==
  ASSUME IndInv, OneUpdater, Stamps, NEW h \in Handlers, Effect(h), HandleSets(h),
         UNCHANGED clock,
         earliest' = IF pc[h] \in {"idle", "build"} THEN [earliest EXCEPT ![h] = clock] ELSE earliest
  PROVE  /\ Stamps'
         /\ \A t \in Stored : timestamp[t] <= timestamp'[t]
         /\ \A t \in TaskId : timestamp'[t] # timestamp[t] => Stores(h) /\ t = target[h]
<1>1. /\ earliest' \in [Handlers -> Nat] /\ \A g \in Handlers : earliest'[g] <= clock
      /\ \A g \in Handlers \ {h} : earliest'[g] = earliest[g]
  BY DEF Stamps
<1>2. Stores(h) => target[h] \in TaskId
  BY DEF Effect, StoresNothing, StoresNew, StoresUpdate
<1>3. \A now \in Times(h) : now \in Nat /\ earliest[h] <= now /\ now <= clock
  BY DEF Times, Stamps
<1>4. /\ timestamp' \in [TaskId -> Nat]
      /\ \A t \in TaskId : timestamp'[t] <= clock
      /\ \A t \in TaskId : timestamp'[t] # timestamp[t] =>
            Stores(h) /\ t = target[h] /\ earliest[h] <= timestamp'[t]
  <2>1. CASE Stores(h)
    <3>1. PICK now \in Times(h) : timestamp' = [timestamp EXCEPT ![target[h]] = now]
      BY <2>1 DEF HandleSets
    <3> QED
      BY <1>2, <1>3, <2>1, <3>1 DEF Stamps
  <2>2. CASE ~Stores(h)
    BY <2>2 DEF HandleSets, Stamps
  <2> QED
    BY <2>1, <2>2
<1>5. \A t \in Stored : timestamp[t] <= timestamp'[t]
  <2> SUFFICES ASSUME NEW t \in Stored, timestamp'[t] # timestamp[t]
               PROVE  timestamp[t] <= timestamp'[t]
    BY <1>4 DEF Stored, Stamps
  <2>1. Stores(h) /\ t = target[h] /\ earliest[h] <= timestamp'[t] /\ tasks[t] # NoTask
    BY <1>4 DEF Stored
  <2>2. Updating(h)
    BY <2>1 DEF Effect, StoresNothing, StoresNew, StoresUpdate
  <2>3. /\ timestamp[t] <= earliest[h] /\ timestamp[t] \in Nat /\ earliest[h] \in Nat
        /\ timestamp'[t] \in Nat
    BY <1>2, <1>4, <2>1, <2>2 DEF Stamps
  <2> QED
    BY <2>1, <2>3
<1>6. ASSUME NEW g \in Handlers, Updating(g)'
      PROVE  timestamp'[target'[g]] <= earliest'[g]
  <2>1. CASE g = h
    <3>1. Starts(h)
      BY <1>6, <2>1 DEF Effect
    <3>2. pc[h] \in {"idle", "build"}
      BY <3>1 DEF Starts
    <3>3. earliest'[h] = clock
      BY <3>2 DEF Stamps
    <3> QED
      BY <1>4, <2>1, <3>1, <3>3 DEF Starts
  <2>2. CASE g # h
    <3>1. GoesOn(g)
      BY <1>6, <2>2 DEF Effect
    <3>2. target[g] \in TaskId /\ tasks[target[g]] # NoTask
      BY <3>1 DEF GoesOn, Updating, IndInv, JobsInv, CopiesKeepBinding
    <3>3. timestamp'[target[g]] = timestamp[target[g]]
      <4> SUFFICES ASSUME Stores(h), target[g] = target[h] PROVE FALSE
        BY <1>4, <3>2
      <4>1. Updating(h)
        BY <3>2 DEF Effect, StoresNothing, StoresNew, StoresUpdate
      <4> QED
        BY <2>2, <3>1, <4>1 DEF GoesOn, OneUpdater
    <3> QED
      BY <1>1, <2>2, <3>1, <3>3 DEF GoesOn, Stamps
  <2> QED
    BY <2>1, <2>2
<1> QED
  BY <1>1, <1>4, <1>5, <1>6 DEF Stamps

(* A task that is not stored by a step stays in a list by context and time, and
   does not come nearer to the top of it: what stood before it still does. *)
LEMMA PositionsOnlyRise ==
  ASSUME TypeOK, InsertionOrder, InsertionOrder', Stamps, Stamps',
         NEW h \in Handlers, Effect(h),
         \A t \in Stored : t \in Stored' /\ Index(t)' = Index(t),
         \A t \in Stored : timestamp[t] <= timestamp'[t],
         \A t \in TaskId : timestamp'[t] # timestamp[t] => Stores(h) /\ t = target[h],
         NEW filter \in Filters, filter.state = "any",
         NEW t \in TaskId, Matches(t, filter), ~(Stores(h) /\ t = target[h])
  PROVE  /\ Matches(t, filter)'
         /\ Position(t, filter) \in Nat /\ Position(t, filter)' \in Nat
         /\ Position(t, filter) <= Position(t, filter)'
<1>1. \A u \in Stored : tasks'[u].context = tasks[u].context
  BY DEF Effect, StoresNothing, StoresNew, StoresUpdate, Stored, TypeOK
<1>2. filter.after \in Nat
  BY ListingAssumption DEF Filter
<1>3. ASSUME NEW u \in Listed(filter) PROVE u \in Stored /\ u \in Listed(filter)'
  <2>1. u \in Stored /\ timestamp[u] \in Nat /\ timestamp'[u] \in Nat
    BY DEF Listed, Matches, Stored, Stamps
  <2> QED
    BY <1>1, <1>2, <2>1 DEF Listed, Matches, Stored
<1>4. t \in Listed(filter) /\ t \in Stored /\ timestamp'[t] = timestamp[t]
  BY DEF Listed, Matches, Stored
<1>5. ASSUME NEW u \in Listed(filter), Before(u, t) PROVE Before(u, t)'
  <2>1. /\ u \in Stored /\ timestamp[u] \in Nat /\ timestamp'[u] \in Nat
        /\ timestamp[t] \in Nat /\ timestamp[u] <= timestamp'[u]
        /\ Index(u)' = Index(u) /\ Index(t)' = Index(t)
    BY <1>3, <1>4 DEF Stored, Stamps
  <2> QED
    BY <1>4, <1>5, <2>1 DEF Before
<1> DEFINE Ahead == {u \in Listed(filter) : Before(u, t)}
<1>6. Ahead \subseteq Ahead'
  BY <1>3, <1>5
<1>7. IsFiniteSet(Ahead')
  <2>1. Ahead' \subseteq Stored'
    BY DEF Listed, Matches, Stored
  <2> QED
    BY <2>1, FS_Subset DEF InsertionOrder
<1>8. /\ Cardinality(Ahead) <= Cardinality(Ahead')
      /\ Cardinality(Ahead) \in Nat /\ Cardinality(Ahead') \in Nat
  BY <1>6, <1>7, FS_Subset, FS_CardinalityType
<1>9. Matches(t, filter)'
  BY <1>3, <1>4 DEF Listed
<1> QED
  BY <1>8, <1>9 DEF Position

LEMMA ListingInitInv == ListingInit => ListingInv
<1> SUFFICES ASSUME ListingInit PROVE ListingInv
  OBVIOUS
<1>1. Stored = {} /\ \A h \in Handlers : ~Updating(h)
  BY DEF ListingInit, Init, Stored, Updating
<1>2. InsertionOrder
  BY <1>1, FS_EmptySet DEF ListingInit, InsertionOrder
<1>3. Stamps
  BY <1>1 DEF ListingInit, Stamps
<1>4. WalkType /\ DueIsAhead
  BY DEF ListingInit, WalkType, DueIsAhead
<1> QED
  BY <1>2, <1>3, <1>4 DEF ListingInv

(* A handler's step: what it stores is no longer due, and the rest stays ahead. *)
LEMMA HandleKeepsListing ==
  ASSUME IndInv, IndInv', OneUpdater, ListingInv, NEW h \in Handlers, Handle(h)
  PROVE  ListingInv'
<1> USE DEF ListingInv
<1>1. /\ Effect(h) /\ HandleSets(h) /\ UNCHANGED clock
      /\ earliest' = IF pc[h] \in {"idle", "build"} THEN [earliest EXCEPT ![h] = clock] ELSE earliest
  BY StepEffect DEF Handle, HandleSets
<1>2. InsertionOrder' /\ \A t \in Stored : t \in Stored' /\ Index(t)' = Index(t)
  BY <1>1, HandleOrder DEF IndInv
<1>3. /\ Stamps'
      /\ \A t \in Stored : timestamp[t] <= timestamp'[t]
      /\ \A t \in TaskId : timestamp'[t] # timestamp[t] => Stores(h) /\ t = target[h]
  BY <1>1, HandleStamps
<1>4. /\ walk'.place = walk.place /\ walk'.filter = walk.filter
      /\ walk'.offset = walk.offset /\ walk'.seen = walk.seen
      /\ walk'.due \subseteq walk.due
      /\ Stores(h) => target[h] \notin walk'.due
      /\ WalkType'
  BY <1>1 DEF HandleSets, WalkType
<1>5. ASSUME walk.filter.state = "any", walk.place = "pages", NEW t \in walk'.due
      PROVE  /\ Matches(t, walk.filter)'
             /\ t \in walk'.seen \/ Position(t, walk.filter)' >= walk'.offset
  <2>1. /\ t \in TaskId /\ Matches(t, walk.filter) /\ walk.filter \in Filters
        /\ t \in walk.seen \/ Position(t, walk.filter) >= walk.offset
        /\ ~(Stores(h) /\ t = target[h])
    BY <1>4, <1>5 DEF DueIsAhead, WalkType
  <2>2. PICK filter \in Filters : filter = walk.filter
    BY <2>1
  <2>3. /\ Matches(t, filter)'
        /\ Position(t, filter) \in Nat /\ Position(t, filter)' \in Nat
        /\ Position(t, filter) <= Position(t, filter)'
    BY <1>1, <1>2, <1>3, <1>5, <2>1, <2>2, PositionsOnlyRise DEF IndInv
  <2>4. Matches(t, walk.filter)'
    BY <1>4, <2>2, <2>3 DEF Matches
  <2>5. Position(t, walk.filter)' = Position(t, filter)'
    BY <1>4, <2>2 DEF Position, Listed, Matches
  <2> QED
    BY <1>4, <2>1, <2>2, <2>3, <2>4, <2>5 DEF WalkType
<1>6. DueIsAhead'
  BY <1>4, <1>5 DEF DueIsAhead
<1> QED
  BY <1>2, <1>3, <1>4, <1>6

(* The steps of the client and of the clock change nothing that is listed. *)
LEMMA SameStore ==
  ASSUME InsertionOrder, Stamps, UNCHANGED <<vars, timestamp, order, earliest>>,
         clock' \in Nat, clock <= clock'
  PROVE  InsertionOrder' /\ Stamps'
<1>1. InsertionOrder'
  BY DEF InsertionOrder, Stored, vars
<1>2. Stamps'
  BY DEF Stamps, Updating, vars
<1> QED
  BY <1>1, <1>2

LEMMA BeginKeepsListing ==
  ASSUME ListingInv, NEW filter \in Filters, BeginWalk(filter)
  PROVE  ListingInv'
<1> USE DEF ListingInv
<1>1. InsertionOrder' /\ Stamps'
  BY SameStore DEF BeginWalk, Stamps
<1>2. /\ walk'.place = "pages" /\ walk'.filter = filter /\ walk'.offset = 0
      /\ walk'.seen = {} /\ walk'.due = Listed(filter)
      /\ WalkType'
  BY DEF BeginWalk, WalkType, Listed
<1>3. \A t \in Listed(filter) : Matches(t, filter) /\ Position(t, filter) >= 0
  <2> TAKE t \in Listed(filter)
  <2>1. timestamp \in [TaskId -> Nat] /\ InsertionOrder
    BY DEF Stamps
  <2>2. Position(t, filter) \in Nat
    BY <2>1, Positions
  <2> QED
    BY <2>2 DEF Listed
<1>4. ASSUME NEW t \in Listed(filter)
      PROVE  /\ Matches(t, walk.filter)' <=> Matches(t, filter)
             /\ Position(t, walk.filter)' = Position(t, filter)
  BY <1>2 DEF BeginWalk, vars, Matches, Position, Listed, Before, Index
<1>5. DueIsAhead'
  BY <1>2, <1>3, <1>4 DEF DueIsAhead
<1> QED
  BY <1>1, <1>2, <1>5

(* A page that is not the last is full, so what it leaves out stands after it;
   behind the last page there is no place. *)
LEMMA ListKeepsListing == ListingInv /\ ListTasks => ListingInv'
<1> SUFFICES ASSUME ListingInv, ListTasks PROVE ListingInv'
  OBVIOUS
<1> USE DEF ListingInv
<1> DEFINE filter == walk.filter
           page == Page(filter, walk.offset)
           next == walk.offset + Cardinality(page)
           all == Cardinality(Listed(filter))
<1>1. InsertionOrder' /\ Stamps'
  BY SameStore DEF ListTasks, Stamps
<1>2. /\ walk.place = "pages" /\ filter \in Filters /\ walk.offset \in Nat
      /\ walk'.place = IF next < all THEN "pages" ELSE "ended"
      /\ walk'.filter = filter /\ walk'.offset = next
      /\ walk'.seen = walk.seen \cup page /\ walk'.due = walk.due
  BY DEF ListTasks, WalkType
<1>3. /\ Cardinality(page) \in Nat /\ Cardinality(page) <= PageSize
      /\ next \in Nat /\ PageSize \in Nat
  BY <1>2, PageIsSmall, ListingAssumption DEF Stamps
<1>4. page \subseteq TaskId
  BY DEF Page, Listed
<1>5. WalkType'
  BY <1>2, <1>3, <1>4 DEF ListTasks, WalkType
<1>6. ASSUME filter.state = "any", NEW t \in walk.due
      PROVE  /\ Matches(t, filter)
             /\ t \in walk'.seen \/ Position(t, filter) >= next
             /\ all \in Nat /\ Position(t, filter) \in Nat /\ Position(t, filter) < all
  <2>1. Matches(t, filter) /\ (t \in walk.seen \/ Position(t, filter) >= walk.offset)
    BY <1>2, <1>6 DEF DueIsAhead
  <2>2. t \in Listed(filter)
    BY <1>6, <2>1 DEF Listed, WalkType
  <2>3. all \in Nat /\ Position(t, filter) \in Nat /\ Position(t, filter) < all
    BY <2>2, Positions DEF Stamps
  <2>4. ASSUME t \notin walk'.seen PROVE Position(t, filter) >= next
    <3>1. t \notin page /\ Position(t, filter) >= walk.offset
      BY <1>2, <2>1, <2>4
    <3>2. Position(t, filter) \notin walk.offset .. (walk.offset + PageSize - 1)
      BY <2>2, <3>1 DEF Page
    <3> QED
      BY <1>2, <1>3, <2>3, <3>1, <3>2
  <2> QED
    BY <2>1, <2>3, <2>4
<1>7. ASSUME NEW t
      PROVE  /\ Matches(t, walk.filter)' <=> Matches(t, filter)
             /\ Position(t, walk.filter)' = Position(t, filter)
  BY <1>2 DEF ListTasks, vars, Matches, Position, Listed, Before, Index
<1> HIDE DEF filter, page, next, all
<1>8. DueIsAhead'
  BY <1>2, <1>3, <1>6, <1>7 DEF DueIsAhead, filter
<1> QED
  BY <1>1, <1>5, <1>8

LEMMA ListingStep ==
  /\ IndInv /\ IndInv' /\ OneUpdater /\ ListingInv
  /\ [ListingNext]_<<vars, listing>>
  => ListingInv'
<1> SUFFICES ASSUME IndInv, IndInv', OneUpdater, ListingInv,
                    [ListingNext]_<<vars, listing>>
             PROVE  ListingInv'
  OBVIOUS
<1>1. CASE Tick \/ UNCHANGED <<vars, listing>>
  <2>1. /\ UNCHANGED <<vars, timestamp, order, earliest, walk>>
        /\ clock' \in Nat /\ clock <= clock'
    BY <1>1 DEF Tick, listing, ListingInv, Stamps
  <2>2. InsertionOrder' /\ Stamps'
    BY <2>1, SameStore DEF ListingInv
  <2>3. WalkType'
    BY <2>1 DEF ListingInv, WalkType
  <2>4. ASSUME NEW t
        PROVE  /\ Matches(t, walk.filter)' <=> Matches(t, walk.filter)
               /\ Position(t, walk.filter)' = Position(t, walk.filter)
    BY <2>1 DEF vars, Matches, Position, Listed, Before, Index
  <2>5. DueIsAhead'
    BY <2>1, <2>4 DEF ListingInv, DueIsAhead
  <2> QED
    BY <2>2, <2>3, <2>5 DEF ListingInv
<1> QED
  BY <1>1, HandleKeepsListing, BeginKeepsListing, ListKeepsListing DEF ListingNext

LEMMA ListingInvariant == ListingSpec /\ []OneUpdater => []ListingInv
BY ListingInitInv, ListingStep, ListingIsSpec, IndInvariant, PTL DEF ListingSpec

(* As long as no two updates of one task overlap, a client that follows the page
   tokens to the end has been given every task that was there when it began and
   has not changed since: what is stored between its pages only moves up the
   list, so what it has not seen only moves down (list_tasks). *)
THEOREM NothingIsMissedUnlessUpdatesOverlap ==
  ListingSpec /\ []OneUpdater => []NothingUnchangedIsMissed
<1>1. ListingInv => NothingUnchangedIsMissed
  BY DEF ListingInv, DueIsAhead, NothingUnchangedIsMissed
<1> QED
  BY <1>1, ListingInvariant, PTL

(* A server with one thread gives such a client everything. *)
COROLLARY OneThreadMissesNothing ==
  ASSUME \A g, h \in Handlers : g = h
  PROVE  ListingSpec => []NothingUnchangedIsMissed
<1>1. OneUpdater
  BY DEF OneUpdater
<1> QED
  BY <1>1, NothingIsMissedUnlessUpdatesOverlap, PTL
=============================================================================
