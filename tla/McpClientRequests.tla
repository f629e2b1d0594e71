-------------------------- MODULE McpClientRequests --------------------------
(***************************************************************************)
(* The requests that the gateway sends to an MCP client while it serves    *)
(* one of its tool calls (sampling and elicitation), and the responses     *)
(* that the client posts on other connections. Each tool call is served by *)
(* a thread of its own; sessions begin and end meanwhile.                  *)
(*                                                                         *)
(* A critical section on GatewayState._lock is one action. The tools that  *)
(* only write notifications to their stream share no state and are left    *)
(* out.                                                                    *)
(***************************************************************************)
EXTENDS Naturals, FiniteSets

CONSTANTS Handlers,     \* threads, each of which serves one tool call
          Sessions,     \* session identifiers that initialize may draw
          Bodies,       \* results that a client may respond with
          NoSession, NoResponse, Absent

ASSUME HandlersAssumption ==
  /\ IsFiniteSet(Handlers)
  /\ "error" \notin Bodies
  /\ NoSession \notin Sessions

Requests  == 1 .. Cardinality(Handlers)
Keys      == Sessions \X Requests

(* A response is marked with the session it was posted under. *)
Response  == [from : Sessions, body : Bodies \cup {"error"}]
Rejection == [from : Sessions, body : {"error"}]

ASSUME NullsAssumption == {NoResponse, Absent} \cap Response = {} /\ NoResponse # Absent

VARIABLES
  issued,     \* identifiers that initialize has drawn
  sessions,   \* _mcp_sessions
  pending,    \* _mcp_pending: the response to each request that is waited for
  counter,    \* _mcp_request_counter
  pc,         \* where each thread is
  session,    \* the Mcp-Session-Id of its tool call
  request,    \* the number of its request
  signalled,  \* whether the event of its request is set
  response,   \* what it took out of pending
  answer      \* what it answers the tool call with

vars == <<issued, sessions, pending, counter, pc, session, request, signalled,
          response, answer>>

Init ==
  /\ issued = {}
  /\ sessions = {}
  /\ pending = [k \in Keys |-> Absent]
  /\ counter = 0
  /\ pc = [h \in Handlers |-> "idle"]
  /\ session = [h \in Handlers |-> NoSession]
  /\ request = [h \in Handlers |-> 0]
  /\ signalled = [h \in Handlers |-> FALSE]
  /\ response = [h \in Handlers |-> NoResponse]
  /\ answer = [h \in Handlers |-> "none"]

KeyOf(h) == <<session[h], request[h]>>

-----------------------------------------------------------------------------
(* Sessions. *)

(* initialize: identifiers are drawn at random and never drawn twice. *)
Initialize(s) ==
  /\ s \notin issued
  /\ issued' = issued \cup {s}
  /\ sessions' = sessions \cup {s}
  /\ UNCHANGED <<pending, counter, pc, session, request, signalled, response, answer>>

(* Mutant: what was asked of a session is dropped without waking who asked. *)
UnregisterSilently(s) ==
  /\ sessions' = sessions \ {s}
  /\ pending' = [k \in Keys |-> IF k[1] = s THEN Absent ELSE pending[k]]
  /\ UNCHANGED <<issued, counter, pc, session, request, signalled, response, answer>>

(* Mutant: the requests of every session are dropped. *)
UnregisterAll(s) ==
  /\ sessions' = sessions \ {s}
  /\ pending' = [k \in Keys |-> Absent]
  /\ signalled' = [h \in Handlers |-> signalled[h] \/ pc[h] \in {"write", "wait"}]
  /\ UNCHANGED <<issued, counter, pc, session, request, response, answer>>

(* DELETE /mcp, for any identifier, registered or not. *)
Unregister(s) ==
  /\ sessions' = sessions \ {s}
  /\ pending' = [k \in Keys |-> IF k[1] = s THEN Absent ELSE pending[k]]
  /\ signalled' = [h \in Handlers |->
       signalled[h] \/ (/\ session[h] = s
                        /\ KeyOf(h) \in Keys
                        /\ pending[KeyOf(h)] # Absent)]
  /\ UNCHANGED <<issued, counter, pc, session, request, response, answer>>

(* Mutant: the response is looked up by its number alone. *)
ResolveByNumber(s, i, body) ==
  /\ \E k \in Keys :
       /\ k[2] = i /\ pending[k] # Absent
       /\ pending' = [pending EXCEPT ![k] = [from |-> s, body |-> body]]
       /\ signalled' = [h \in Handlers |-> signalled[h] \/ KeyOf(h) = k]
  /\ UNCHANGED <<issued, sessions, counter, pc, session, request, response, answer>>

(* A client posts a response: 202 when the request is waited for, whether or
   not it has been answered before, and 400 otherwise. *)
Resolve(s, i, body) ==
  /\ \/ /\ pending[<<s, i>>] # Absent
        /\ pending' = [pending EXCEPT ![<<s, i>>] = [from |-> s, body |-> body]]
        /\ signalled' = [h \in Handlers |-> signalled[h] \/ KeyOf(h) = <<s, i>>]
     \/ /\ pending[<<s, i>>] = Absent
        /\ UNCHANGED <<pending, signalled>>
  /\ UNCHANGED <<issued, sessions, counter, pc, session, request, response, answer>>

-----------------------------------------------------------------------------
(* One tool call. *)

Finish(h, reply) ==
  /\ pc' = [pc EXCEPT ![h] = "done"]
  /\ answer' = [answer EXCEPT ![h] = reply]

Proceed(h, next) ==
  /\ pc' = [pc EXCEPT ![h] = next]
  /\ UNCHANGED answer

(* The session is looked up before the stream begins. *)
Call(h, s) ==
  /\ pc[h] = "idle"
  /\ session' = [session EXCEPT ![h] = s]
  /\ \/ s \notin sessions /\ Finish(h, "session required")
     \/ s \in sessions /\ Proceed(h, "create")
     \/ s \in sessions /\ Finish(h, "broken")
  /\ UNCHANGED <<issued, sessions, pending, counter, request, signalled, response>>

(* create_mcp_client_request looks it up again, in one critical section, *)
CheckSession(h) ==
  /\ pc[h] = "create"
  /\ \/ session[h] \in sessions /\ Proceed(h, "add")
     \/ session[h] \notin sessions /\ Finish(h, "E_MCP_SESSION")
  /\ UNCHANGED <<issued, sessions, pending, counter, session, request, signalled,
                 response>>

(* and adds the request in another, without looking. *)
AddPending(h) ==
  /\ pc[h] = "add"
  /\ counter' = counter + 1
  /\ request' = [request EXCEPT ![h] = counter + 1]
  /\ pending' = [pending EXCEPT ![<<session[h], counter + 1>>] = NoResponse]
  /\ Proceed(h, "write")
  /\ UNCHANGED <<issued, sessions, session, signalled, response>>

(* A stream that breaks leaves the request behind in pending. *)
WriteRequest(h) ==
  /\ pc[h] = "write"
  /\ Proceed(h, "wait") \/ Finish(h, "broken")
  /\ UNCHANGED <<issued, sessions, pending, counter, session, request, signalled,
                 response>>

WaitReturns(h) ==
  /\ pc[h] = "wait"
  /\ signalled[h]
  /\ Proceed(h, "collect")
  /\ UNCHANGED <<issued, sessions, pending, counter, session, request, signalled,
                 response>>

(* Mutant: the wait has no timeout. *)
WaitForever(h) == FALSE /\ UNCHANGED vars

WaitTimesOut(h) ==
  /\ pc[h] = "wait"
  /\ ~signalled[h]
  /\ Proceed(h, "expire")
  /\ UNCHANGED <<issued, sessions, pending, counter, session, request, signalled,
                 response>>

(* Mutant: the request is left in pending. *)
ExpireKeeping(h) ==
  /\ pc[h] = "expire"
  /\ Finish(h, "E_MCP_CLIENT_TIMEOUT")
  /\ UNCHANGED <<issued, sessions, pending, counter, session, request, signalled,
                 response>>

(* The request is taken out of pending, with the response that may have arrived
   since the wait ended. *)
Expire(h) ==
  /\ pc[h] = "expire"
  /\ pending' = [pending EXCEPT ![KeyOf(h)] = Absent]
  /\ Finish(h, "E_MCP_CLIENT_TIMEOUT")
  /\ UNCHANGED <<issued, sessions, counter, session, request, signalled, response>>

(* Mutant: a request that is missing is not told from one that was answered. *)
CollectUnchecked(h) ==
  /\ pc[h] = "collect"
  /\ pending' = [pending EXCEPT ![KeyOf(h)] = Absent]
  /\ response' = [response EXCEPT ![h] = pending[KeyOf(h)]]
  /\ Finish(h, IF pending[KeyOf(h)] \in Rejection THEN "E_MCP_CLIENT_RESPONSE" ELSE "told")
  /\ UNCHANGED <<issued, sessions, counter, session, request, signalled>>

(* The tool is told the response, unless it rejects the request or is missing. *)
Collect(h) ==
  /\ pc[h] = "collect"
  /\ LET found == pending[KeyOf(h)]
     IN  /\ pending' = [pending EXCEPT ![KeyOf(h)] = Absent]
         /\ response' = [response EXCEPT ![h] = IF found = Absent THEN NoResponse
                                                                  ELSE found]
         /\ \/ found \in Response \ Rejection /\ Finish(h, "told")
            \/ found \notin Response \ Rejection /\ Finish(h, "E_MCP_CLIENT_RESPONSE")
  /\ UNCHANGED <<issued, sessions, counter, session, request, signalled>>

Serve(h) == \/ CheckSession(h)
            \/ AddPending(h)
            \/ WriteRequest(h)
            \/ WaitReturns(h)
            \/ WaitTimesOut(h)
            \/ Expire(h)
            \/ Collect(h)

Next == \/ \E s \in Sessions : Initialize(s) \/ Unregister(s)
        \/ \E s \in Sessions, i \in Requests, body \in Bodies \cup {"error"} :
             Resolve(s, i, body)
        \/ \E h \in Handlers : \/ \E s \in Sessions : Call(h, s)
                               \/ Serve(h)

Spec == Init /\ [][Next]_vars

(* Threads are scheduled, and a wait ends with its timeout if not before. The
   write of a request may block on a client that is connected and does not read:
   the socket has no timeout. *)
FairSpec == Spec /\ \A h \in Handlers : WF_vars(Serve(h) /\ pc[h] # "write")

-----------------------------------------------------------------------------
Pc == {"idle", "create", "add", "write", "wait", "expire", "collect", "done"}
Answer == {"none", "told", "broken", "session required", "E_MCP_SESSION",
           "E_MCP_CLIENT_TIMEOUT", "E_MCP_CLIENT_RESPONSE"}

(* Every variable stays in its range. *)
TypeOK ==
  /\ issued \subseteq Sessions /\ sessions \subseteq issued
  /\ pending \in [Keys -> Response \cup {NoResponse, Absent}]
  /\ counter \in 0 .. Cardinality(Handlers)
  /\ pc \in [Handlers -> Pc]
  /\ session \in [Handlers -> Sessions \cup {NoSession}]
  /\ request \in [Handlers -> 0 .. counter]
  /\ signalled \in [Handlers -> BOOLEAN]
  /\ response \in [Handlers -> Response \cup {NoResponse}]
  /\ answer \in [Handlers -> Answer]

(* A thread that waits can still be woken: its request is where responses and
   the end of its session will find it, or it has been signalled already. *)
WaitersCanBeWoken ==
  \A h \in Handlers : pc[h] = "wait" => signalled[h] \/ pending[KeyOf(h)] # Absent

(* A request that a client may still answer is one that a thread will take out
   again, or one that was left behind by a broken stream. *)
PendingIsTaken ==
  \A k \in Keys : pending[k] # Absent =>
    \E h \in Handlers :
      KeyOf(h) = k /\ (pc[h] \in {"write", "wait", "expire", "collect"}
                       \/ answer[h] = "broken")

(* A thread that was woken and finds no response has lost its session. *)
MissingMeansEnded ==
  \A h \in Handlers :
    answer[h] = "E_MCP_CLIENT_RESPONSE" /\ response[h] = NoResponse =>
      session[h] \notin sessions

(* The abstract promise: a tool is told the last response that was accepted for
   its own request, from its own session, and nothing is accepted after that. *)
SlotOf(i) ==
  IF i > counter THEN [state |-> "unused"]
  ELSE IF \E s \in Sessions : pending[<<s, i>>] # Absent
    THEN LET s == CHOOSE s \in Sessions : pending[<<s, i>>] # Absent
         IN  [state |-> "open", owner |-> s, response |-> pending[<<s, i>>]]
  ELSE [state |-> "closed"]

Told(i) ==
  IF \E h \in Handlers : request[h] = i /\ answer[h] = "told"
    THEN response[CHOOSE h \in Handlers : request[h] = i /\ answer[h] = "told"]
    ELSE NoResponse

Slots == INSTANCE ReplySlots
           WITH Responses <- Response, Rejections <- Rejection,
                slot <- [i \in Requests |-> SlotOf(i)],
                told <- [i \in Requests |-> Told(i)]

ImplementsReplySlots == Slots!Spec

(* Every tool call comes to its end, whether or not the client responds and
   whatever becomes of its session, unless the request itself is never written:
   a thread that has got as far as to wait does not depend on anybody. *)
EveryCallEnds ==
  \A h \in Handlers : pc[h] # "idle" ~> (pc[h] = "done" \/ [](pc[h] = "write"))
=============================================================================
