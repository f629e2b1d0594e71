---------------------- MODULE McpClientRequests_proofs ----------------------
(***************************************************************************)
(* What McpClientRequests guarantees for any tool calls, sessions and      *)
(* results.                                                                *)
(***************************************************************************)
EXTENDS McpClientRequests, FiniteSetTheorems, TLAPS

(* Where a thread has a request of its own. *)
Asking == {"write", "wait", "expire", "collect"}

(* What a thread knows at each statement. *)
ThreadInv ==
  \A h \in Handlers :
    /\ pc[h] # "idle" => session[h] \in Sessions
    /\ pc[h] \in {"idle", "create", "add"} => request[h] = 0
    /\ pc[h] \in Asking => request[h] # 0
    /\ pc[h] = "add" \/ request[h] # 0 => session[h] \in issued
    /\ request[h] = 0 => ~signalled[h]
    /\ pc[h] = "collect" => signalled[h]
    /\ answer[h] # "none" => pc[h] = "done"
    /\ answer[h] \in {"told", "E_MCP_CLIENT_RESPONSE"} => request[h] # 0

Asked == {h \in Handlers : request[h] # 0}

(* No two requests have one number, and no number was left out. *)
NumberInv ==
  /\ \A g, h \in Handlers : request[g] = request[h] /\ request[g] # 0 => g = h
  /\ counter = Cardinality(Asked)

(* A request that was signalled has a response or is gone, and one that is gone
   was signalled when its session ended. *)
SignalInv ==
  \A h \in Handlers :
    pc[h] \in Asking =>
      /\ signalled[h] => pending[KeyOf(h)] # NoResponse
      /\ pending[KeyOf(h)] = Absent => signalled[h] /\ session[h] \notin sessions

IndInv == /\ TypeOK
          /\ ThreadInv
          /\ NumberInv
          /\ SignalInv
          /\ PendingIsTaken
          /\ MissingMeansEnded

-----------------------------------------------------------------------------

LEMMA HandlersCount == IsFiniteSet(Handlers) /\ Cardinality(Handlers) \in Nat
BY HandlersAssumption, FS_CardinalityType

(* The request of a thread that asks has a key of its own. *)
LEMMA KeysAreOwn ==
  ASSUME IndInv, NEW h \in Handlers, request[h] # 0
  PROVE  /\ KeyOf(h) \in Keys
         /\ request[h] \in Requests
         /\ \A g \in Handlers : KeyOf(g) = KeyOf(h) => g = h
<1>1. request[h] \in 1 .. Cardinality(Handlers) /\ session[h] \in Sessions
  BY HandlersCount DEF IndInv, TypeOK, ThreadInv
<1>2. \A g \in Handlers : KeyOf(g) = KeyOf(h) => request[g] = request[h]
  BY DEF KeyOf
<1> QED
  BY <1>1, <1>2 DEF IndInv, NumberInv, KeyOf, Keys, Requests

(* A key belongs to a thread that has a number. *)
LEMMA KeysAreAsked ==
  ASSUME NEW h \in Handlers, KeyOf(h) \in Keys
  PROVE  request[h] # 0
<1>1. KeyOf(h)[2] \in Requests
  BY DEF Keys
<1>2. KeyOf(h)[2] = request[h]
  BY DEF KeyOf
<1> QED
  BY <1>1, <1>2, HandlersCount DEF Requests

(* Numbers that are not given yet have nothing pending. *)
LEMMA FutureIsAbsent ==
  ASSUME IndInv, NEW s \in Sessions, NEW i \in Requests, i > counter
  PROVE  pending[<<s, i>>] = Absent
<1>1. <<s, i>> \in Keys
  BY DEF Keys
<1>2. \A h \in Handlers : KeyOf(h) # <<s, i>>
  BY HandlersCount DEF KeyOf, IndInv, TypeOK, Requests
<1> QED
  BY <1>1, <1>2 DEF IndInv, PendingIsTaken

LEMMA InitInv == Init => IndInv
<1> SUFFICES ASSUME Init PROVE IndInv
  OBVIOUS
<1>1. TypeOK
  BY HandlersCount DEF Init, TypeOK, Pc, Answer
<1>2. ThreadInv /\ SignalInv /\ PendingIsTaken /\ MissingMeansEnded
  BY DEF Init, ThreadInv, SignalInv, PendingIsTaken, MissingMeansEnded, Asking
<1>3. Asked = {}
  BY DEF Init, Asked
<1>4. NumberInv
  BY <1>3, FS_EmptySet DEF Init, NumberInv
<1> QED
  BY <1>1, <1>2, <1>4 DEF IndInv

-----------------------------------------------------------------------------
(* Sessions and responses. *)

LEMMA InitializeStep ==
  ASSUME IndInv, NEW s \in Sessions, Initialize(s)
  PROVE  IndInv'
<1> USE DEF IndInv, Initialize
<1>1. TypeOK'
  BY DEF TypeOK
<1>2. ThreadInv' /\ NumberInv'
  BY DEF ThreadInv, NumberInv, Asked
<1>3. \A h \in Handlers : request[h] # 0 => session[h] # s
  BY DEF ThreadInv
<1>4. SignalInv'
  BY <1>3 DEF SignalInv, ThreadInv, KeyOf
<1>5. PendingIsTaken'
  BY DEF PendingIsTaken, KeyOf
<1>6. \A h \in Handlers : answer[h] = "E_MCP_CLIENT_RESPONSE" => request[h] # 0
  BY DEF ThreadInv
<1>7. MissingMeansEnded'
  BY <1>3, <1>6 DEF MissingMeansEnded
<1> QED
  BY <1>1, <1>2, <1>4, <1>5, <1>7

LEMMA UnregisterStep ==
  ASSUME IndInv, NEW s \in Sessions, Unregister(s)
  PROVE  IndInv'
<1> USE DEF IndInv, Unregister
<1>1. TypeOK'
  BY DEF TypeOK
<1>2. \A h \in Handlers : signalled'[h] = TRUE /\ signalled[h] = FALSE => request[h] # 0
  BY DEF TypeOK, KeyOf, Keys, Requests
<1>3. ThreadInv'
  BY <1>2 DEF ThreadInv, TypeOK
<1>4. NumberInv'
  BY DEF NumberInv, Asked
<1>5. SignalInv'
  <2> SUFFICES ASSUME NEW h \in Handlers, pc[h] \in Asking
               PROVE  /\ signalled'[h] => pending'[KeyOf(h)] # NoResponse
                      /\ pending'[KeyOf(h)] = Absent =>
                           signalled'[h] /\ session[h] \notin sessions'
    BY DEF SignalInv, KeyOf
  <2>1. KeyOf(h) \in Keys /\ KeyOf(h)[1] = session[h]
    BY KeysAreOwn DEF ThreadInv, KeyOf
  <2>2. CASE session[h] = s
    <3>1. pending'[KeyOf(h)] = Absent
      BY <2>1, <2>2
    <3>2. signalled'[h]
      BY <2>1, <2>2 DEF SignalInv
    <3> QED
      BY <3>1, <3>2, <2>2, NullsAssumption
  <2>3. CASE session[h] # s
    <3>1. pending'[KeyOf(h)] = pending[KeyOf(h)] /\ signalled'[h] = signalled[h]
      BY <2>1, <2>3 DEF TypeOK
    <3> QED
      BY <3>1 DEF SignalInv
  <2> QED
    BY <2>2, <2>3
<1>6. PendingIsTaken'
  BY DEF PendingIsTaken, KeyOf
<1>7. MissingMeansEnded'
  BY DEF MissingMeansEnded
<1> QED
  BY <1>1, <1>3, <1>4, <1>5, <1>6, <1>7

LEMMA ResolveStep ==
  ASSUME IndInv, NEW s \in Sessions, NEW i \in Requests, NEW body \in Bodies \cup {"error"},
         Resolve(s, i, body)
  PROVE  IndInv'
<1> DEFINE k == <<s, i>>
           r == [from |-> s, body |-> body]
<1> USE DEF IndInv
<1>1. CASE pending[k] # Absent
  <2>1. /\ pending' = [pending EXCEPT ![k] = r]
        /\ signalled' = [h \in Handlers |-> signalled[h] \/ KeyOf(h) = k]
        /\ UNCHANGED <<issued, sessions, counter, pc, session, request, response, answer>>
    BY <1>1 DEF Resolve
  <2>2. k \in Keys /\ r \in Response /\ r # NoResponse /\ r # Absent
    BY NullsAssumption DEF Keys, Response
  <2>3. TypeOK'
    BY <2>1, <2>2 DEF TypeOK
  <2>4. \A h \in Handlers : KeyOf(h) = k => request[h] # 0
    BY DEF KeyOf, Requests
  <2>5. ThreadInv' /\ NumberInv'
    BY <2>1, <2>4 DEF ThreadInv, TypeOK, NumberInv, Asked
  <2>6. SignalInv'
    <3> SUFFICES ASSUME NEW h \in Handlers, pc[h] \in Asking
                 PROVE  /\ signalled'[h] => pending'[KeyOf(h)] # NoResponse
                        /\ pending'[KeyOf(h)] = Absent =>
                             signalled'[h] /\ session[h] \notin sessions
      BY <2>1 DEF SignalInv, KeyOf
    <3>1. KeyOf(h) \in Keys
      BY KeysAreOwn DEF ThreadInv
    <3>2. CASE KeyOf(h) = k
      BY <2>1, <2>2, <3>2 DEF TypeOK
    <3>3. CASE KeyOf(h) # k
      <4>1. pending'[KeyOf(h)] = pending[KeyOf(h)]
        BY <2>1, <3>1, <3>3 DEF TypeOK
      <4>2. signalled'[h] = signalled[h]
        BY <2>1, <3>3 DEF TypeOK
      <4> QED
        BY <4>1, <4>2 DEF SignalInv
    <3> QED
      BY <3>2, <3>3
  <2>7. \A key \in Keys : pending'[key] # Absent => pending[key] # Absent
    BY <1>1, <2>1, <2>2 DEF TypeOK
  <2>8. PendingIsTaken' /\ MissingMeansEnded'
    BY <2>1, <2>7 DEF PendingIsTaken, MissingMeansEnded, KeyOf
  <2> QED
    BY <2>3, <2>5, <2>6, <2>8
<1>2. CASE pending[k] = Absent
  <2>1. UNCHANGED vars
    BY <1>2 DEF Resolve, vars
  <2> QED
    BY <2>1 DEF vars, TypeOK, ThreadInv, NumberInv, Asked, SignalInv, PendingIsTaken,
                MissingMeansEnded, KeyOf
<1> QED
  BY <1>1, <1>2

-----------------------------------------------------------------------------
(* One tool call. *)

LEMMA CallStep ==
  ASSUME IndInv, NEW h \in Handlers, NEW s \in Sessions, Call(h, s)
  PROVE  IndInv'
<1> USE DEF IndInv, Call, Finish, Proceed
<1>1. TypeOK'
  BY DEF TypeOK, Pc, Answer
<1>2. request[h] = 0
  BY DEF ThreadInv
<1>3. ThreadInv'
  BY <1>2 DEF ThreadInv, TypeOK, Asking
<1>8. NumberInv'
  BY DEF NumberInv, Asked
<1>4. \A g \in Handlers : request[g] # 0 => g # h
  BY <1>2
<1>5. SignalInv'
  BY <1>4 DEF SignalInv, ThreadInv, TypeOK, KeyOf, Asking
<1>6. PendingIsTaken'
  <2> SUFFICES ASSUME NEW k \in Keys, pending[k] # Absent
               PROVE  \E g \in Handlers :
                        KeyOf(g)' = k /\ (pc'[g] \in Asking \/ answer'[g] = "broken")
    BY DEF PendingIsTaken, Asking
  <2>1. PICK g \in Handlers : KeyOf(g) = k /\ (pc[g] \in Asking \/ answer[g] = "broken")
    BY DEF PendingIsTaken, Asking
  <2>2. g # h
    BY <1>2, <2>1, KeysAreAsked
  <2> QED
    BY <2>1, <2>2 DEF KeyOf, TypeOK
<1>7. MissingMeansEnded'
  BY <1>2 DEF MissingMeansEnded, ThreadInv, TypeOK
<1> QED
  BY <1>1, <1>3, <1>5, <1>6, <1>7, <1>8

(* The steps that change nothing but where a thread is and its answer. *)
LEMMA QuietStep ==
  ASSUME IndInv, NEW h \in Handlers,
         CheckSession(h) \/ WriteRequest(h) \/ WaitReturns(h) \/ WaitTimesOut(h)
  PROVE  IndInv'
<1> USE DEF IndInv, CheckSession, WriteRequest, WaitReturns, WaitTimesOut, Finish, Proceed
<1>1. TypeOK'
  BY DEF TypeOK, Pc, Answer
<1>2. ThreadInv'
  BY DEF ThreadInv, TypeOK, Asking
<1>3. NumberInv'
  BY DEF NumberInv, Asked
<1>4. SignalInv'
  BY DEF SignalInv, TypeOK, KeyOf, Asking
<1>5. PendingIsTaken'
  <2> SUFFICES ASSUME NEW k \in Keys, pending[k] # Absent
               PROVE  \E g \in Handlers :
                        KeyOf(g)' = k /\ (pc'[g] \in Asking \/ answer'[g] = "broken")
    BY DEF PendingIsTaken, Asking
  <2>1. PICK g \in Handlers : KeyOf(g) = k /\ (pc[g] \in Asking \/ answer[g] = "broken")
    BY DEF PendingIsTaken, Asking
  <2>2. pc[g] # "create"
    BY <2>1, KeysAreAsked DEF ThreadInv
  <2>3. pc[g] \in Asking => pc'[g] \in Asking \/ answer'[g] = "broken"
    BY <2>2 DEF TypeOK, Asking
  <2>4. answer[g] = "broken" => answer'[g] = "broken"
    BY DEF TypeOK, ThreadInv
  <2> QED
    BY <2>1, <2>3, <2>4 DEF KeyOf
<1>6. MissingMeansEnded'
  BY DEF MissingMeansEnded, TypeOK
<1> QED
  BY <1>1, <1>2, <1>3, <1>4, <1>5, <1>6

LEMMA AddStep ==
  ASSUME IndInv, NEW h \in Handlers, AddPending(h)
  PROVE  IndInv'
<1> DEFINE n == counter + 1
           k == <<session[h], n>>
<1> USE DEF IndInv
<1>1. /\ pc[h] = "add" /\ request[h] = 0 /\ ~signalled[h]
      /\ session[h] \in Sessions /\ session[h] \in issued
      /\ counter \in Nat /\ answer[h] = "none"
  BY HandlersCount DEF AddPending, ThreadInv, TypeOK
<1>2. n <= Cardinality(Handlers)
  <2>1. Asked \subseteq Handlers \ {h}
    BY <1>1 DEF Asked
  <2>2. IsFiniteSet(Handlers \ {h}) /\ Cardinality(Handlers \ {h}) = Cardinality(Handlers) - 1
    BY HandlersCount, FS_RemoveElement
  <2>3. Cardinality(Asked) <= Cardinality(Handlers \ {h})
    BY <2>1, <2>2, FS_Subset
  <2> QED
    BY <2>2, <2>3, <1>1, HandlersCount DEF NumberInv
<1>3. n \in Requests /\ k \in Keys
  BY <1>1, <1>2, HandlersCount DEF Requests, Keys
<1>4. pending[k] = Absent
  BY <1>1, <1>3, FutureIsAbsent
<1>5. /\ counter' = n
      /\ request' = [request EXCEPT ![h] = n]
      /\ pending' = [pending EXCEPT ![k] = NoResponse]
      /\ pc' = [pc EXCEPT ![h] = "write"]
      /\ UNCHANGED <<issued, sessions, session, signalled, response, answer>>
  BY DEF AddPending, Proceed
<1>6. KeyOf(h)' = k /\ \A g \in Handlers \ {h} : KeyOf(g)' = KeyOf(g) /\ KeyOf(g) # k
  <2>1. request'[h] = n /\ \A g \in Handlers \ {h} : request'[g] = request[g] /\ request[g] # n
    BY <1>1, <1>5, HandlersCount DEF TypeOK
  <2> QED
    BY <1>5, <2>1 DEF KeyOf
<1>7. TypeOK'
  <2>1. counter' \in 0 .. Cardinality(Handlers)
    BY <1>1, <1>2, <1>5, HandlersCount
  <2>2. request' \in [Handlers -> 0 .. counter']
    BY <1>1, <1>5 DEF TypeOK
  <2>3. pending' \in [Keys -> Response \cup {NoResponse, Absent}]
    BY <1>5 DEF TypeOK
  <2> QED
    BY <1>5, <2>1, <2>2, <2>3 DEF TypeOK, Pc
<1>8. ThreadInv'
  BY <1>1, <1>5 DEF ThreadInv, TypeOK, Asking
<1>9. NumberInv'
  <2>1. \A g \in Handlers \ {h} : request'[g] = request[g] /\ request[g] # n
    BY <1>1, <1>5, HandlersCount DEF TypeOK
  <2>2. request'[h] = n /\ n # 0
    BY <1>1, <1>5 DEF TypeOK
  <2>3. Asked' = Asked \cup {h} /\ h \notin Asked
    BY <1>1, <2>1, <2>2 DEF Asked
  <2>4. IsFiniteSet(Asked)
    BY HandlersCount, FS_Subset DEF Asked
  <2>5. Cardinality(Asked') = Cardinality(Asked) + 1
    BY <2>3, <2>4, FS_AddElement
  <2> QED
    BY <1>5, <2>1, <2>2, <2>5 DEF NumberInv
<1>10. \A key \in Keys : pending'[key] = IF key = k THEN NoResponse ELSE pending[key]
  BY <1>3, <1>5 DEF TypeOK
<1>11. SignalInv'
  <2> SUFFICES ASSUME NEW g \in Handlers, pc'[g] \in Asking
               PROVE  /\ signalled[g] => pending'[KeyOf(g)'] # NoResponse
                      /\ pending'[KeyOf(g)'] = Absent => signalled[g] /\ session[g] \notin sessions
    BY <1>5 DEF SignalInv, KeyOf
  <2>1. CASE g = h
    BY <1>1, <1>3, <1>6, <1>10, <2>1, NullsAssumption
  <2>2. CASE g # h
    <3>1. pc[g] \in Asking /\ request[g] # 0
      BY <1>5, <2>2 DEF TypeOK, ThreadInv
    <3>2. KeyOf(g) \in Keys
      BY <3>1, KeysAreOwn
    <3>3. pending'[KeyOf(g)'] = pending[KeyOf(g)]
      BY <1>6, <1>10, <2>2, <3>2
    <3> QED
      BY <3>1, <3>3 DEF SignalInv
  <2> QED
    BY <2>1, <2>2
<1>12. PendingIsTaken'
  <2> SUFFICES ASSUME NEW key \in Keys, pending'[key] # Absent
               PROVE  \E g \in Handlers :
                        KeyOf(g)' = key /\ (pc'[g] \in Asking \/ answer'[g] = "broken")
    BY DEF PendingIsTaken, Asking
  <2>1. CASE key = k
    BY <1>5, <1>6, <2>1 DEF TypeOK, Asking
  <2>2. CASE key # k
    <3>1. PICK g \in Handlers : KeyOf(g) = key /\ (pc[g] \in Asking \/ answer[g] = "broken")
      BY <1>10, <2>2 DEF PendingIsTaken, Asking
    <3>2. g # h
      BY <1>1, <3>1 DEF Asking
    <3> QED
      BY <1>5, <1>6, <3>1, <3>2 DEF TypeOK
  <2> QED
    BY <2>1, <2>2
<1>13. MissingMeansEnded'
  BY <1>5 DEF MissingMeansEnded
<1> QED
  BY <1>7, <1>8, <1>9, <1>11, <1>12, <1>13

(* A thread that takes its request out of pending ends, and what it answers when
   it found none is that its session has ended. *)
LEMMA TakeOutStep ==
  ASSUME IndInv, NEW h \in Handlers, pc[h] \in {"expire", "collect"},
         NEW reply \in Answer \ {"none", "broken"}, Finish(h, reply),
         pending' = [pending EXCEPT ![KeyOf(h)] = Absent],
         response' \in [Handlers -> Response \cup {NoResponse}],
         \A g \in Handlers \ {h} : response'[g] = response[g],
         reply = "E_MCP_CLIENT_RESPONSE" /\ response'[h] = NoResponse => session[h] \notin sessions,
         UNCHANGED <<issued, sessions, counter, session, request, signalled>>
  PROVE  IndInv'
<1> USE DEF IndInv, Finish
<1>1. KeyOf(h) \in Keys /\ request[h] # 0 /\ \A g \in Handlers \ {h} : KeyOf(g) # KeyOf(h)
  BY KeysAreOwn DEF ThreadInv, Asking
<1>2. TypeOK'
  BY <1>1 DEF TypeOK, Pc
<1>3. ThreadInv' /\ NumberInv'
  <2>1. ThreadInv'
    BY <1>1 DEF ThreadInv, TypeOK, Asking
  <2>2. NumberInv'
    BY DEF NumberInv, Asked
  <2> QED
    BY <2>1, <2>2
<1>4. \A key \in Keys : pending'[key] = IF key = KeyOf(h) THEN Absent ELSE pending[key]
  BY <1>1 DEF TypeOK
<1>5. SignalInv'
  <2> SUFFICES ASSUME NEW g \in Handlers, pc'[g] \in Asking
               PROVE  /\ signalled[g] => pending'[KeyOf(g)] # NoResponse
                      /\ pending'[KeyOf(g)] = Absent => signalled[g] /\ session[g] \notin sessions
    BY DEF SignalInv, KeyOf
  <2>1. g # h /\ pc[g] \in Asking
    BY DEF TypeOK, Asking
  <2>2. KeyOf(g) \in Keys
    BY <2>1, KeysAreOwn DEF ThreadInv
  <2> QED
    BY <1>1, <1>4, <2>1, <2>2 DEF SignalInv
<1>6. PendingIsTaken'
  <2> SUFFICES ASSUME NEW key \in Keys, pending'[key] # Absent
               PROVE  \E g \in Handlers :
                        KeyOf(g) = key /\ (pc'[g] \in Asking \/ answer'[g] = "broken")
    BY DEF PendingIsTaken, Asking, KeyOf
  <2>1. PICK g \in Handlers : KeyOf(g) = key /\ (pc[g] \in Asking \/ answer[g] = "broken")
    BY <1>4 DEF PendingIsTaken, Asking
  <2>2. g # h
    BY <1>4, <2>1
  <2> QED
    BY <2>1, <2>2 DEF TypeOK
<1>7. MissingMeansEnded'
  BY DEF MissingMeansEnded, TypeOK
<1> QED
  BY <1>2, <1>3, <1>5, <1>6, <1>7

LEMMA ExpireStep ==
  ASSUME IndInv, NEW h \in Handlers, Expire(h)
  PROVE  IndInv'
BY TakeOutStep DEF Expire, IndInv, TypeOK, Answer

LEMMA CollectStep ==
  ASSUME IndInv, NEW h \in Handlers, Collect(h)
  PROVE  IndInv'
<1> USE DEF IndInv
<1> DEFINE found == pending[KeyOf(h)]
<1>1. pc[h] = "collect" /\ signalled[h] /\ KeyOf(h) \in Keys
  BY KeysAreOwn DEF Collect, ThreadInv, Asking
<1>2. found \in Response \cup {Absent} /\ (found = Absent => session[h] \notin sessions)
  BY <1>1 DEF SignalInv, TypeOK, Asking
<1>3. /\ pending' = [pending EXCEPT ![KeyOf(h)] = Absent]
      /\ response' = [response EXCEPT ![h] = IF found = Absent THEN NoResponse ELSE found]
      /\ UNCHANGED <<issued, sessions, counter, session, request, signalled>>
  BY DEF Collect
<1>4. PICK reply \in {"told", "E_MCP_CLIENT_RESPONSE"} : Finish(h, reply)
  BY DEF Collect
<1>5. /\ response' \in [Handlers -> Response \cup {NoResponse}]
      /\ \A g \in Handlers \ {h} : response'[g] = response[g]
      /\ response'[h] = NoResponse => session[h] \notin sessions
  BY <1>2, <1>3, NullsAssumption DEF TypeOK
<1> QED
  BY <1>1, <1>3, <1>4, <1>5, TakeOutStep DEF Answer

LEMMA NextInv == IndInv /\ [Next]_vars => IndInv'
<1> SUFFICES ASSUME IndInv, [Next]_vars PROVE IndInv'
  OBVIOUS
<1>1. CASE UNCHANGED vars
  BY <1>1 DEF vars, IndInv, TypeOK, ThreadInv, NumberInv, Asked, SignalInv, PendingIsTaken,
              MissingMeansEnded, KeyOf
<1>2. CASE Next
  BY <1>2, InitializeStep, UnregisterStep, ResolveStep, CallStep, QuietStep, AddStep,
     ExpireStep, CollectStep
     DEF Next, Serve
<1> QED
  BY <1>1, <1>2

(* The inductive invariant holds throughout. *)
THEOREM Invariance == Spec => []IndInv
<1> QED
  BY InitInv, NextInv, PTL DEF Spec

-----------------------------------------------------------------------------

(* No more requests are numbered than there are tool calls, and every variable
   stays in its range (create_mcp_client_request). *)
THEOREM TypeCorrect == Spec => []TypeOK
<1> QED
  BY Invariance, PTL DEF IndInv

(* However responses, time-outs and ends of sessions interleave, no thread waits
   for an event that nobody can set any more (wait_mcp_client_response). *)
THEOREM WaitersCanAlwaysBeWoken == Spec => []WaitersCanBeWoken
<1>1. IndInv => WaitersCanBeWoken
  BY DEF IndInv, SignalInv, WaitersCanBeWoken, Asking
<1> QED
  BY <1>1, Invariance, PTL

(* Only a broken stream leaves a request behind in pending
   (wait_mcp_client_response). *)
THEOREM PendingIsAlwaysTaken == Spec => []PendingIsTaken
<1> QED
  BY Invariance, PTL DEF IndInv

(* A thread that was woken and found no response has lost its session
   (wait_mcp_client_response). *)
THEOREM MissingAlwaysMeansEnded == Spec => []MissingMeansEnded
<1> QED
  BY Invariance, PTL DEF IndInv

-----------------------------------------------------------------------------
(* The requests implement the slots that ReplySlots promises. *)

(* What SlotOf chooses is the only one there is. *)
SlotShape ==
  \A i \in Requests :
    /\ i > counter => SlotOf(i) = Slots!Unused
    /\ i <= counter /\ (\A s \in Sessions : pending[<<s, i>>] = Absent) =>
         SlotOf(i) = Slots!Closed
    /\ \A s \in Sessions :
         pending[<<s, i>>] # Absent => SlotOf(i) = Slots!OpenSlot(s, pending[<<s, i>>])

ToldShape ==
  \A i \in Requests :
    /\ (\A h \in Handlers : ~(request[h] = i /\ answer[h] = "told")) => Told(i) = NoResponse
    /\ \A h \in Handlers : request[h] = i /\ answer[h] = "told" => Told(i) = response[h]

LEMMA SlotsHaveShape == IndInv => SlotShape
<1> SUFFICES ASSUME IndInv, NEW i \in Requests
             PROVE  /\ i > counter => SlotOf(i) = Slots!Unused
                    /\ i <= counter /\ (\A s \in Sessions : pending[<<s, i>>] = Absent) =>
                         SlotOf(i) = Slots!Closed
                    /\ \A s \in Sessions :
                         pending[<<s, i>>] # Absent =>
                           SlotOf(i) = Slots!OpenSlot(s, pending[<<s, i>>])
  BY DEF SlotShape
<1>t. i \in Nat \ {0} /\ counter \in Nat
  BY HandlersCount DEF IndInv, TypeOK, Requests
<1>1. i > counter => SlotOf(i) = Slots!Unused
  BY DEF SlotOf, Slots!Unused
<1>2. i <= counter /\ (\A s \in Sessions : pending[<<s, i>>] = Absent) =>
        SlotOf(i) = Slots!Closed
  BY <1>t DEF SlotOf, Slots!Closed
<1>3. ASSUME NEW s \in Sessions, pending[<<s, i>>] # Absent
      PROVE  SlotOf(i) = Slots!OpenSlot(s, pending[<<s, i>>])
  <2>1. i <= counter
    BY <1>3, <1>t, FutureIsAbsent
  <2>2. ASSUME NEW r \in Sessions, pending[<<r, i>>] # Absent PROVE r = s
    <3>1. <<r, i>> \in Keys /\ <<s, i>> \in Keys
      BY DEF Keys
    <3>2. PICK g \in Handlers : KeyOf(g) = <<r, i>>
      BY <2>2, <3>1 DEF IndInv, PendingIsTaken
    <3>3. PICK h \in Handlers : KeyOf(h) = <<s, i>>
      BY <1>3, <3>1 DEF IndInv, PendingIsTaken
    <3>4. request[g] = i /\ request[h] = i
      BY <3>2, <3>3 DEF KeyOf
    <3>5. g = h
      BY <1>t, <3>4 DEF IndInv, NumberInv
    <3> QED
      BY <3>2, <3>3, <3>5
  <2> DEFINE chosen == CHOOSE r \in Sessions : pending[<<r, i>>] # Absent
  <2>3. chosen = s
    BY <1>3, <2>2
  <2>4. SlotOf(i) = [state |-> "open", owner |-> chosen, response |-> pending[<<chosen, i>>]]
    BY <1>3, <1>t, <2>1 DEF SlotOf
  <2> HIDE DEF chosen
  <2> QED
    BY <2>3, <2>4 DEF Slots!OpenSlot
<1> QED
  BY <1>1, <1>2, <1>3

LEMMA ToldHasShape == IndInv => ToldShape
<1> SUFFICES ASSUME IndInv, NEW i \in Requests
             PROVE  /\ (\A h \in Handlers : ~(request[h] = i /\ answer[h] = "told")) =>
                         Told(i) = NoResponse
                    /\ \A h \in Handlers :
                         request[h] = i /\ answer[h] = "told" => Told(i) = response[h]
  BY DEF ToldShape
<1>1. (\A h \in Handlers : ~(request[h] = i /\ answer[h] = "told")) => Told(i) = NoResponse
  BY DEF Told
<1>2. ASSUME NEW h \in Handlers, request[h] = i, answer[h] = "told"
      PROVE  Told(i) = response[h]
  <2>1. \A g \in Handlers : request[g] = i => g = h
    BY <1>2, HandlersCount DEF IndInv, NumberInv, Requests
  <2>2. (CHOOSE g \in Handlers : request[g] = i /\ answer[g] = "told") = h
    BY <1>2, <2>1
  <2> QED
    BY <1>2, <2>2 DEF Told
<1> QED
  BY <1>1, <1>2

LEMMA ShapesAfter == IndInv' => SlotShape' /\ ToldShape'
BY SlotsHaveShape, ToldHasShape, PTL

(* A request that nothing happened to keeps its slot. *)
LEMMA SameSlot ==
  ASSUME SlotShape, SlotShape', NEW i \in Requests, counter \in Nat, counter' \in Nat,
         i <= counter <=> i <= counter',
         \A s \in Sessions : pending'[<<s, i>>] = pending[<<s, i>>]
  PROVE  SlotOf(i)' = SlotOf(i)
<1>t. i \in Nat
  BY HandlersCount DEF Requests
<1>1. CASE i > counter
  <2>1. i > counter'
    BY <1>1, <1>t
  <2> QED
    BY <1>1, <2>1 DEF SlotShape
<1>2. CASE i <= counter /\ \A s \in Sessions : pending[<<s, i>>] = Absent
  BY <1>2 DEF SlotShape
<1>3. ASSUME NEW s \in Sessions, pending[<<s, i>>] # Absent PROVE SlotOf(i)' = SlotOf(i)
  BY <1>3 DEF SlotShape
<1> QED
  BY <1>t, <1>1, <1>2, <1>3

(* Nobody else is told anything. *)
LEMMA SameTold ==
  ASSUME ToldShape, ToldShape',
         \A h \in Handlers :
           /\ answer'[h] = "told" <=> answer[h] = "told"
           /\ answer[h] = "told" => request'[h] = request[h] /\ response'[h] = response[h]
  PROVE  UNCHANGED [i \in Requests |-> Told(i)]
<1> SUFFICES ASSUME NEW i \in Requests PROVE Told(i)' = Told(i)
  OBVIOUS
<1>1. CASE \A h \in Handlers : ~(request[h] = i /\ answer[h] = "told")
  <2>1. \A h \in Handlers : ~(request'[h] = i /\ answer'[h] = "told")
    BY <1>1
  <2> QED
    BY <1>1, <2>1 DEF ToldShape
<1>2. ASSUME NEW h \in Handlers, request[h] = i, answer[h] = "told" PROVE Told(i)' = Told(i)
  BY <1>2 DEF ToldShape
<1> QED
  BY <1>1, <1>2

LEMMA SlotsInit == Init => Slots!Init
<1> SUFFICES ASSUME Init PROVE Slots!Init
  OBVIOUS
<1>1. SlotShape /\ ToldShape
  BY InitInv, SlotsHaveShape, ToldHasShape
<1>2. \A i \in Requests : SlotOf(i) = Slots!Unused
  BY <1>1, HandlersCount DEF Init, SlotShape, Requests
<1>3. \A i \in Requests : Told(i) = NoResponse
  BY <1>1 DEF Init, ToldShape
<1> QED
  BY <1>2, <1>3 DEF Slots!Init

(* The steps that touch neither what is pending nor what a tool was told. *)
LEMMA SlotsStutter ==
  ASSUME IndInv, SlotShape, SlotShape', ToldShape, ToldShape',
         UNCHANGED <<pending, counter, request, response>>,
         \A h \in Handlers : answer'[h] = "told" <=> answer[h] = "told"
  PROVE  /\ UNCHANGED [i \in Requests |-> SlotOf(i)]
         /\ UNCHANGED [i \in Requests |-> Told(i)]
<1>1. counter \in Nat /\ counter' \in Nat
  BY HandlersCount DEF IndInv, TypeOK
<1>2. \A i \in Requests : SlotOf(i)' = SlotOf(i)
  BY <1>1, SameSlot
<1> QED
  BY <1>2, SameTold

LEMMA SlotsUnregister ==
  ASSUME IndInv, SlotShape, SlotShape', ToldShape, ToldShape', NEW s \in Sessions, Unregister(s)
  PROVE  Slots!Next
<1>t. counter \in Nat /\ counter' = counter
  BY HandlersCount DEF IndInv, TypeOK, Unregister
<1>1. \A r \in Sessions, i \in Requests :
        pending'[<<r, i>>] = IF r = s THEN Absent ELSE pending[<<r, i>>]
  BY DEF Unregister, Keys
<1>2. ASSUME NEW i \in Requests
      PROVE  SlotOf(i)' = IF SlotOf(i).state = "open" /\ SlotOf(i).owner = s
                            THEN Slots!Closed ELSE SlotOf(i)
  <2>t. i \in Nat
    BY HandlersCount DEF Requests
  <2>1. CASE pending[<<s, i>>] # Absent
    <3>1. SlotOf(i).state = "open" /\ SlotOf(i).owner = s
      BY <2>1 DEF SlotShape, Slots!OpenSlot
    <3>2. i <= counter
      BY <1>t, <2>t, <2>1, FutureIsAbsent
    <3>3. \A r \in Sessions \ {s} : pending[<<r, i>>] = Absent
      BY <2>1 DEF SlotShape, Slots!OpenSlot
    <3>4. \A r \in Sessions : pending'[<<r, i>>] = Absent
      BY <1>1, <3>3
    <3> QED
      BY <1>t, <3>1, <3>2, <3>4 DEF SlotShape
  <2>2. CASE pending[<<s, i>>] = Absent
    <3>1. SlotOf(i)' = SlotOf(i)
      BY <1>1, <1>t, <2>2, SameSlot
    <3>2. ~(SlotOf(i).state = "open" /\ SlotOf(i).owner = s)
      <4>1. CASE \A r \in Sessions : pending[<<r, i>>] = Absent
        BY <1>t, <2>t, <4>1 DEF SlotShape, Slots!Unused, Slots!Closed
      <4>2. ASSUME NEW r \in Sessions, pending[<<r, i>>] # Absent
            PROVE  SlotOf(i).owner # s
        BY <2>2, <4>2 DEF SlotShape, Slots!OpenSlot
      <4> QED
        BY <4>1, <4>2
    <3> QED
      BY <3>1, <3>2
  <2> QED
    BY <2>1, <2>2
<1>3. UNCHANGED [i \in Requests |-> Told(i)]
  BY SameTold DEF Unregister
<1>4. Slots!End(s)
  BY <1>2, <1>3 DEF Slots!End, Slots!IsOpen
<1> QED
  BY <1>4 DEF Slots!Next

(* One slot that is open takes another value. *)
LEMMA SlotChanges ==
  ASSUME SlotShape, SlotShape', NEW k \in Requests, counter \in Nat, counter' = counter,
         \A s \in Sessions, i \in Requests \ {k} : pending'[<<s, i>>] = pending[<<s, i>>]
  PROVE  [i \in Requests |-> SlotOf(i)]' =
           [[i \in Requests |-> SlotOf(i)] EXCEPT ![k] = SlotOf(k)']
<1>1. \A i \in Requests \ {k} : SlotOf(i)' = SlotOf(i)
  BY SameSlot
<1> QED
  BY <1>1

LEMMA SlotsResolve ==
  ASSUME IndInv, SlotShape, SlotShape', ToldShape, ToldShape',
         NEW s \in Sessions, NEW i \in Requests, NEW body \in Bodies \cup {"error"},
         Resolve(s, i, body)
  PROVE  \/ Slots!Next
         \/ /\ UNCHANGED [j \in Requests |-> SlotOf(j)]
            /\ UNCHANGED [j \in Requests |-> Told(j)]
<1> DEFINE r == [from |-> s, body |-> body]
<1>1. CASE pending[<<s, i>>] = Absent
  BY <1>1, SlotsStutter DEF Resolve
<1>2. CASE pending[<<s, i>>] # Absent
  <2>1. /\ pending' = [pending EXCEPT ![<<s, i>>] = r]
        /\ UNCHANGED <<counter, request, response, answer>>
    BY <1>2 DEF Resolve
  <2>2. counter \in Nat /\ <<s, i>> \in Keys /\ r \in Response /\ r # Absent
    BY HandlersCount, NullsAssumption DEF IndInv, TypeOK, Keys, Response
  <2>3. /\ pending'[<<s, i>>] = r
        /\ \A t \in Sessions, j \in Requests \ {i} : pending'[<<t, j>>] = pending[<<t, j>>]
    BY <2>1, <2>2 DEF IndInv, TypeOK, Keys
  <2>4. SlotOf(i) = Slots!OpenSlot(s, pending[<<s, i>>]) /\ SlotOf(i)' = Slots!OpenSlot(s, r)
    BY <1>2, <2>2, <2>3 DEF SlotShape
  <2>5. [j \in Requests |-> SlotOf(j)]' =
          [[j \in Requests |-> SlotOf(j)] EXCEPT ![i] = Slots!OpenSlot(s, r)]
    BY <2>1, <2>2, <2>3, <2>4, SlotChanges
  <2>6. UNCHANGED [j \in Requests |-> Told(j)]
    BY <2>1, SameTold
  <2>7. Slots!Fill(i, r)
    BY <2>4, <2>5, <2>6 DEF Slots!Fill, Slots!IsOpen, Slots!OpenSlot
  <2> QED
    BY <2>2, <2>7 DEF Slots!Next
<1> QED
  BY <1>1, <1>2

LEMMA SlotsAdd ==
  ASSUME IndInv, IndInv', SlotShape, SlotShape', ToldShape, ToldShape',
         NEW h \in Handlers, AddPending(h)
  PROVE  Slots!Next
<1>1. /\ pc[h] = "add" /\ session[h] \in Sessions /\ request[h] = 0 /\ answer[h] = "none"
      /\ counter \in Nat
  BY HandlersCount DEF AddPending, IndInv, ThreadInv, TypeOK
<1>2. PICK s \in Sessions : s = session[h]
  BY <1>1
<1>3. PICK n \in Requests : n = counter + 1
  <2>1. counter + 1 \in 0 .. Cardinality(Handlers)
    BY DEF AddPending, IndInv, TypeOK
  <2> QED
    BY <1>1, <2>1, HandlersCount DEF Requests
<1>4. /\ counter' = n
      /\ request' = [request EXCEPT ![h] = n]
      /\ pending' = [pending EXCEPT ![<<s, n>>] = NoResponse]
      /\ UNCHANGED <<response, answer>>
  BY <1>2, <1>3 DEF AddPending, Proceed
<1>5. <<s, n>> \in Keys
  BY DEF Keys
<1>6. /\ pending'[<<s, n>>] = NoResponse
      /\ \A t \in Sessions, i \in Requests \ {n} : pending'[<<t, i>>] = pending[<<t, i>>]
  BY <1>4, <1>5 DEF IndInv, TypeOK, Keys
<1>7. SlotOf(n) = Slots!Unused /\ SlotOf(n)' = Slots!OpenSlot(s, NoResponse)
  BY <1>1, <1>3, <1>6, NullsAssumption DEF SlotShape
<1>8. \A i \in Requests \ {n} : SlotOf(i)' = SlotOf(i)
  <2> SUFFICES ASSUME NEW i \in Requests \ {n} PROVE SlotOf(i)' = SlotOf(i)
    OBVIOUS
  <2>1. i <= counter <=> i <= counter'
    BY <1>1, <1>3, <1>4, HandlersCount DEF Requests
  <2> QED
    BY <1>1, <1>3, <1>4, <1>6, <2>1, SameSlot
<1>9. [i \in Requests |-> SlotOf(i)]' =
        [[i \in Requests |-> SlotOf(i)] EXCEPT ![n] = Slots!OpenSlot(s, NoResponse)]
  BY <1>7, <1>8
<1>10. \A i \in Requests : i < n => SlotOf(i) # Slots!Unused
  <2> SUFFICES ASSUME NEW i \in Requests, i < n PROVE SlotOf(i) # Slots!Unused
    OBVIOUS
  <2>1. i <= counter
    BY <1>1, <1>3, HandlersCount DEF Requests
  <2>2. CASE \A t \in Sessions : pending[<<t, i>>] = Absent
    BY <2>1, <2>2 DEF SlotShape, Slots!Unused, Slots!Closed
  <2>3. ASSUME NEW t \in Sessions, pending[<<t, i>>] # Absent PROVE SlotOf(i) # Slots!Unused
    BY <2>3 DEF SlotShape, Slots!Unused, Slots!OpenSlot
  <2> QED
    BY <2>2, <2>3
<1>11. UNCHANGED [i \in Requests |-> Told(i)]
  BY <1>1, <1>4, SameTold DEF IndInv, TypeOK
<1>12. Slots!Open(n, s)
  BY <1>7, <1>9, <1>10, <1>11 DEF Slots!Open
<1> QED
  BY <1>12 DEF Slots!Next

(* A thread that takes its request out closes its slot, and tells at most what
   the slot held. *)
LEMMA SlotsTakeOut ==
  ASSUME IndInv, SlotShape, SlotShape', ToldShape, ToldShape',
         NEW h \in Handlers, Expire(h) \/ Collect(h)
  PROVE  \/ Slots!Next
         \/ /\ UNCHANGED [j \in Requests |-> SlotOf(j)]
            /\ UNCHANGED [j \in Requests |-> Told(j)]
<1>1. request[h] # 0 /\ KeyOf(h) \in Keys /\ answer[h] = "none" /\ request[h] \in Requests
  BY KeysAreOwn DEF Expire, Collect, IndInv, ThreadInv, Asking
<1>2. PICK s \in Sessions, i \in Requests : KeyOf(h) = <<s, i>> /\ request[h] = i
  BY <1>1 DEF KeyOf, Keys
<1>3. counter \in Nat /\ counter' = counter /\ request' = request
  BY HandlersCount DEF IndInv, TypeOK, Expire, Collect
<1>4. pending' = [pending EXCEPT ![<<s, i>>] = Absent]
  BY <1>2 DEF Expire, Collect
<1>5. /\ pending'[<<s, i>>] = Absent
      /\ \A t \in Sessions, j \in Requests : <<t, j>> # <<s, i>> =>
           pending'[<<t, j>>] = pending[<<t, j>>]
  BY <1>4 DEF IndInv, TypeOK, Keys
<1>6. i <= counter
  BY <1>2, <1>3, HandlersCount DEF IndInv, TypeOK
<1>7. \A g \in Handlers \ {h} : answer'[g] = answer[g] /\ response'[g] = response[g]
  BY DEF Expire, Collect, Finish, IndInv, TypeOK
<1>8. ASSUME answer'[h] # "told" PROVE UNCHANGED [j \in Requests |-> Told(j)]
  <2>1. \A g \in Handlers : answer[g] = "told" => g # h
    BY <1>1
  <2> QED
    BY <1>3, <1>7, <1>8, <2>1, SameTold
<1>9. CASE pending[<<s, i>>] = Absent
  <2>1. pending' = pending
    BY <1>4, <1>9 DEF IndInv, TypeOK
  <2>2. \A j \in Requests : SlotOf(j)' = SlotOf(j)
    BY <1>3, <2>1, SameSlot
  <2>3. answer'[h] # "told"
    BY <1>2, <1>9, NullsAssumption DEF Expire, Collect, Finish, IndInv, TypeOK
  <2> QED
    BY <1>8, <2>2, <2>3
<1>10. CASE pending[<<s, i>>] # Absent
  <2>1. \A t \in Sessions : t # s => pending[<<t, i>>] = Absent
    BY <1>10 DEF SlotShape, Slots!OpenSlot
  <2>2. \A t \in Sessions : pending'[<<t, i>>] = Absent
    BY <1>5, <2>1
  <2>3. SlotOf(i) = Slots!OpenSlot(s, pending[<<s, i>>]) /\ SlotOf(i)' = Slots!Closed
    BY <1>3, <1>6, <1>10, <2>2 DEF SlotShape
  <2>4. [j \in Requests |-> SlotOf(j)]' =
          [[j \in Requests |-> SlotOf(j)] EXCEPT ![i] = Slots!Closed]
    BY <1>3, <1>5, <2>3, SlotChanges
  <2>5. CASE answer'[h] # "told"
    <3>1. Slots!Abandon(i)
      BY <1>8, <2>3, <2>4, <2>5 DEF Slots!Abandon, Slots!IsOpen, Slots!OpenSlot
    <3> QED
      BY <3>1 DEF Slots!Next
  <2>6. CASE answer'[h] = "told"
    <3>1. /\ pending[<<s, i>>] \in Response \ Rejection
          /\ response'[h] = pending[<<s, i>>]
      BY <1>2, <1>10, <2>6 DEF Expire, Collect, Finish, IndInv, TypeOK
    <3>2. Told(i)' = pending[<<s, i>>]
      BY <1>2, <1>3, <2>6, <3>1 DEF ToldShape
    <3>3. \A j \in Requests \ {i} : Told(j)' = Told(j)
      <4> SUFFICES ASSUME NEW j \in Requests \ {i} PROVE Told(j)' = Told(j)
        OBVIOUS
      <4>1. ASSUME NEW g \in Handlers, request[g] = j, answer[g] = "told"
            PROVE  Told(j)' = Told(j)
        BY <1>2, <1>3, <1>7, <4>1 DEF ToldShape
      <4>2. CASE \A g \in Handlers : ~(request[g] = j /\ answer[g] = "told")
        <5>1. \A g \in Handlers : ~(request'[g] = j /\ answer'[g] = "told")
          BY <1>2, <1>3, <1>7, <4>2
        <5> QED
          BY <4>2, <5>1 DEF ToldShape
      <4> QED
        BY <4>1, <4>2
    <3>4. [j \in Requests |-> Told(j)]' =
            [[j \in Requests |-> Told(j)] EXCEPT ![i] = pending[<<s, i>>]]
      BY <3>2, <3>3
    <3>5. SlotOf(i).state = "open" /\ SlotOf(i).response = pending[<<s, i>>]
      BY <2>3 DEF Slots!OpenSlot
    <3>6. Slots!Tell(i)
      BY <2>4, <3>1, <3>4, <3>5 DEF Slots!Tell, Slots!IsOpen
    <3> QED
      BY <3>6 DEF Slots!Next
  <2> QED
    BY <2>5, <2>6
<1> QED
  BY <1>9, <1>10

LEMMA SlotsStep ==
  IndInv /\ IndInv' /\ [Next]_vars =>
    [Slots!Next]_<<[i \in Requests |-> SlotOf(i)], [i \in Requests |-> Told(i)]>>
<1> SUFFICES ASSUME IndInv, IndInv', [Next]_vars
             PROVE  \/ Slots!Next
                    \/ /\ UNCHANGED [i \in Requests |-> SlotOf(i)]
                       /\ UNCHANGED [i \in Requests |-> Told(i)]
  OBVIOUS
<1>1. SlotShape /\ ToldShape /\ SlotShape' /\ ToldShape'
  BY SlotsHaveShape, ToldHasShape, ShapesAfter
<1>2. CASE UNCHANGED vars
  BY <1>1, <1>2, SlotsStutter DEF vars
<1>3. ASSUME NEW s \in Sessions, Initialize(s)
      PROVE  /\ UNCHANGED [i \in Requests |-> SlotOf(i)]
             /\ UNCHANGED [i \in Requests |-> Told(i)]
  BY <1>1, <1>3, SlotsStutter DEF Initialize
<1>4. ASSUME NEW h \in Handlers, NEW s \in Sessions, Call(h, s)
      PROVE  /\ UNCHANGED [i \in Requests |-> SlotOf(i)]
             /\ UNCHANGED [i \in Requests |-> Told(i)]
  <2>1. answer[h] # "told"
    BY <1>4 DEF Call, IndInv, ThreadInv
  <2>2. \A g \in Handlers : answer'[g] = "told" <=> answer[g] = "told"
    BY <1>4, <2>1 DEF Call, Finish, Proceed, IndInv, TypeOK
  <2> QED
    BY <1>1, <1>4, <2>2, SlotsStutter DEF Call
<1>5. ASSUME NEW h \in Handlers,
             CheckSession(h) \/ WriteRequest(h) \/ WaitReturns(h) \/ WaitTimesOut(h)
      PROVE  /\ UNCHANGED [i \in Requests |-> SlotOf(i)]
             /\ UNCHANGED [i \in Requests |-> Told(i)]
  <2>1. answer[h] # "told"
    BY <1>5 DEF CheckSession, WriteRequest, WaitReturns, WaitTimesOut, IndInv, ThreadInv
  <2>2. \A g \in Handlers : answer'[g] = "told" <=> answer[g] = "told"
    BY <1>5, <2>1 DEF CheckSession, WriteRequest, WaitReturns, WaitTimesOut, Finish, Proceed,
                      IndInv, TypeOK
  <2> QED
    BY <1>1, <1>5, <2>2, SlotsStutter DEF CheckSession, WriteRequest, WaitReturns, WaitTimesOut
<1> QED
  BY <1>1, <1>2, <1>3, <1>4, <1>5, SlotsUnregister, SlotsResolve, SlotsAdd, SlotsTakeOut
     DEF Next, Serve

(* For any calls, sessions and responses, a tool is told the last response that
   was accepted for its own request from its own session, and nothing is
   accepted after that (resolve_mcp_client_response and
   wait_mcp_client_response). *)
THEOREM RequestsImplementSlots == Spec => ImplementsReplySlots
<1> QED
  BY SlotsInit, SlotsStep, Invariance, PTL DEF Spec, ImplementsReplySlots, Slots!Spec
=============================================================================
