--------------------------- MODULE HttpConnection ---------------------------
(***************************************************************************)
(* One persistent HTTP/1.1 connection of the gateway and the thread that   *)
(* serves it (GatewayRequestHandler in server.py): how each route gates,   *)
(* consumes and checks a request before it operates on the gateway state,  *)
(* what it answers, and when the connection is kept for the next request.  *)
(*                                                                         *)
(* What a request's bytes say is abstracted to the checks it would fail.   *)
(***************************************************************************)
EXTENDS Naturals, Sequences

CONSTANTS Requests,    \* the requests that the client may send
          MaxRequests  \* bound: requests sent on the connection

(* How a route handles a request: what it looks at before the body, what it
   does with the body, what it checks then and in which order, and how it goes
   on when nothing failed. *)
Handling(gate, body, checks, goOn) ==
  [gate |-> gate, body |-> body, checks |-> checks, goOn |-> goOn]

Plain(checks, goOn) == Handling("open", "ignored", checks, goOn)

(* Header and query agree on a version of A2A, and it is 1.0. *)
A2aVersion == <<"version">>

(* A message that carries a manifest names the extension for it. *)
A2aExtension == <<"extension">>

(* A JSON-RPC 2.0 request with a method, and parameters that are an object. *)
RpcShape == <<"rpc">>

GetRoutes ==
  [public       |-> Plain(<< >>, "reply"),
   extendedCard |-> Plain(A2aVersion, "reply"),
   getPush      |-> Plain(A2aVersion, "refuse"),
   getSubscribe |-> Plain(A2aVersion, "refuse"),
   getTask      |-> Plain(A2aVersion \o <<"query">>, "operate"),
   getTasks     |-> Plain(A2aVersion \o <<"query">>, "operate"),
   getMcp       |-> Plain(<< >>, "refuse"),
   getUnknown   |-> Plain(<< >>, "refuse")]

DeleteRoutes ==
  [deleteMcp     |-> Plain(<<"legacy">>, "operate"),
   deletePush    |-> Plain(A2aVersion, "refuse"),
   deleteUnknown |-> Plain(<< >>, "refuse")]

(* Mutant: a task is canceled whatever version of A2A was asked for. *)
PostRoutesUnversioned ==
  [cancel        |-> Handling("open", "drained", << >>, "operate"),
   subscribe     |-> Handling("open", "drained", A2aVersion, "refuse"),
   messageSend   |-> Handling("media", "read", A2aVersion \o A2aExtension, "operate"),
   messageStream |-> Handling("media", "read", A2aVersion, "refuse"),
   postPush      |-> Handling("media", "read", A2aVersion, "refuse"),
   execute       |-> Handling("open", "read", <<"manifest">>, "operate"),
   postUnknown   |-> Handling("open", "read", << >>, "refuse")]

PostRoutes ==
  [cancel        |-> Handling("open", "drained", A2aVersion, "operate"),
   subscribe     |-> Handling("open", "drained", A2aVersion, "refuse"),
   messageSend   |-> Handling("media", "read", A2aVersion \o A2aExtension, "operate"),
   messageStream |-> Handling("media", "read", A2aVersion, "refuse"),
   postPush      |-> Handling("media", "read", A2aVersion, "refuse"),
   execute       |-> Handling("open", "read", <<"manifest">>, "operate"),
   postUnknown   |-> Handling("open", "read", << >>, "refuse")]

A2aRpcRoutes ==
  [a2aRpc |-> Handling("media", "read",
                       A2aVersion \o A2aExtension \o RpcShape \o <<"method">>, "operate")]

(* What a request of the stateless MCP says of itself in _meta, what its headers
   repeat of it, and what they repeat of a tool's arguments. *)
MetaChecks     == <<"meta", "protocolVersion", "capabilities", "clientInfo">>
HeaderChecks   == <<"accept", "versionHeader", "methodHeader", "named", "nameHeader">>
ArgumentChecks == <<"arguments", "boundValue", "paramHeader">>

ModernChecks == MetaChecks \o HeaderChecks \o ArgumentChecks \o <<"supported">>

McpRoutes ==
  [clientResponse |-> Handling("origin", "read", << >>, "operate"),
   initialized    |-> Handling("origin", "read", RpcShape, "reply"),
   legacyCall     |-> Handling("origin", "read", RpcShape \o <<"method">>, "operate"),
   legacyStream   |-> Handling("origin", "read", RpcShape \o <<"session">>, "begin"),
   modernCall     |-> Handling("origin", "read",
                               RpcShape \o ModernChecks \o <<"method">>, "operate"),
   progressTool   |-> Handling("origin", "read", RpcShape \o ModernChecks, "feed"),
   listen         |-> Handling("origin", "read", RpcShape \o ModernChecks, "feed")]

Routes == DOMAIN GetRoutes \cup DOMAIN DeleteRoutes \cup DOMAIN PostRoutes
          \cup DOMAIN A2aRpcRoutes \cup DOMAIN McpRoutes

How(route) == CASE route \in DOMAIN GetRoutes    -> GetRoutes[route]
                [] route \in DOMAIN DeleteRoutes -> DeleteRoutes[route]
                [] route \in DOMAIN PostRoutes   -> PostRoutes[route]
                [] route \in DOMAIN A2aRpcRoutes -> A2aRpcRoutes[route]
                [] route \in DOMAIN McpRoutes    -> McpRoutes[route]

(* How a request delimits its body: not at all, by a Content-Length that holds
   or whose bytes do not all arrive, by chunks, or by a Content-Length that is
   not a number or above MAX_BODY. *)
Framing == {"none", "stated", "truncated", "chunked", "malformed", "large"}

(* What of the payload is echoed and cannot be encoded: nothing, the request's
   id, its progress token, or arguments that the result repeats. *)
Wire == {"plain", "badId", "badToken", "badResult"}

(* The routes that echo the id, and those with a method that echoes arguments. *)
Echoing == DOMAIN A2aRpcRoutes \cup (DOMAIN McpRoutes \ {"clientResponse", "initialized"})
Repeating == {"legacyCall", "modernCall"}

(* faults: the checks that the request would not pass. *)
Request == [route : Routes, framing : Framing, closes : BOOLEAN,
            notification : BOOLEAN, faults : SUBSET STRING, wire : Wire]

ASSUME RequestsAssumption ==
  /\ Requests \subseteq Request
  /\ MaxRequests \in Nat
  /\ \A r \in Requests :
       /\ r.wire = "badId" => r.route \in Echoing /\ ~r.notification
       /\ r.wire = "badToken" => r.route = "progressTool"
       /\ r.wire = "badResult" => r.route \in Repeating /\ ~r.notification

(* What arrives of a body, in bodies. *)
BodyBytes(r) == IF r.framing \in {"none", "truncated"} THEN 0 ELSE 1

VARIABLES sent,     \* the requests sent on the connection
          client,   \* whether the client reads what it is sent
          parsed,   \* how many requests the server has parsed
          unread,   \* what is still in the stream of the parsed request's body
          phase,    \* where the connection's thread stands
          answers,  \* what was written to the client
          effects   \* the requests whose operation was carried out

vars == <<sent, client, parsed, unread, phase, answers, effects>>

Phase == {"idle", "gate", "body", "check", "operate", "reply", "refuse",
          "feed", "begin", "stream", "closed"}

Client == {"reads", "stalled", "gone"}

Why == {"done", "garbage", "framing", "json", "operation", "encode", "route", "internal"}
       \cup {How(r.route).gate : r \in Requests}
       \cup UNION {{How(r.route).checks[i] : i \in DOMAIN How(r.route).checks} : r \in Requests}

Answer == [to : Nat, kind : {"ok", "refused", "stream"}, why : Why]

Current == sent[parsed]

Route == How(Current.route)

Init ==
  /\ sent = << >>
  /\ client = "reads"
  /\ parsed = 0
  /\ unread = 0
  /\ phase = "idle"
  /\ answers = << >>
  /\ effects = {}

-----------------------------------------------------------------------------
(* The client. It may send a request before the last one is answered; one whose
   body stays incomplete is its last. *)

Send(r) ==
  /\ client # "gone"
  /\ Len(sent) < MaxRequests
  /\ \A i \in DOMAIN sent : sent[i].framing # "truncated"
  /\ sent' = Append(sent, r)
  /\ UNCHANGED <<client, parsed, unread, phase, answers, effects>>

(* It need not read what it is answered: its end of the connection fills up. *)
StopReading ==
  /\ client = "reads"
  /\ client' = "stalled"
  /\ UNCHANGED <<sent, parsed, unread, phase, answers, effects>>

Hangup ==
  /\ client # "gone"
  /\ client' = "gone"
  /\ UNCHANGED <<sent, parsed, unread, phase, answers, effects>>

-----------------------------------------------------------------------------
(* The loop of http.server around the handlers. *)

Receive ==
  /\ phase = "idle"
  /\ unread = 0
  /\ parsed < Len(sent)
  /\ parsed' = parsed + 1
  /\ unread' = BodyBytes(sent[parsed + 1])
  /\ phase' = "gate"
  /\ UNCHANGED <<sent, client, answers, effects>>

(* Bytes of a body that nobody read are taken for a request line. *)
Misread ==
  /\ phase = "idle"
  /\ unread > 0
  /\ answers' = Append(answers, [to |-> 0, kind |-> "refused", why |-> "garbage"])
  /\ unread' = 0
  /\ phase' = "closed"
  /\ UNCHANGED <<sent, client, parsed, effects>>

EndOfInput ==
  /\ phase = "idle"
  /\ client = "gone"
  /\ unread = 0
  /\ parsed = Len(sent)
  /\ phase' = "closed"
  /\ UNCHANGED <<sent, client, parsed, unread, answers, effects>>

-----------------------------------------------------------------------------
(* The handlers. *)

(* The id of a request is known, and echoed, once its body is read. *)
Encodes == Current.wire = "badId" => phase \in {"gate", "body"}

(* Answer the request and wait for the next one, or close. An answer that
   cannot be encoded, or written, raises out of the handler. One that a
   connected client does not read may find room on the way to it, or be
   written for ever: the step may then be taken, and need not be. *)
Finish(kind, why, close) ==
  /\ \/ /\ Encodes
        /\ answers' = Append(answers, [to |-> parsed, kind |-> kind, why |-> why])
        /\ phase' = IF close \/ Current.closes THEN "closed" ELSE "idle"
     \/ /\ client = "gone" \/ ~Encodes
        /\ phase' = "closed"
        /\ UNCHANGED answers
  /\ UNCHANGED <<sent, client, parsed, effects>>

(* Mutant: a refusal before the body is read keeps the connection. *)
GateKeepingOpen ==
  /\ phase = "gate"
  /\ IF Route.gate \in Current.faults
       THEN Finish("refused", Route.gate, FALSE)
       ELSE phase' = "body" /\ UNCHANGED <<sent, client, parsed, answers, effects>>
  /\ UNCHANGED unread

Gate ==
  /\ phase = "gate"
  /\ IF Route.gate \in Current.faults
       THEN Finish("refused", Route.gate, TRUE)
       ELSE phase' = "body" /\ UNCHANGED <<sent, client, parsed, answers, effects>>
  /\ UNCHANGED unread

TakeBody ==
  /\ unread' = 0
  /\ phase' = "check"
  /\ UNCHANGED <<sent, client, parsed, answers, effects>>

SkipBody ==
  /\ phase = "body"
  /\ Route.body = "ignored"
  /\ phase' = "check"
  /\ UNCHANGED <<sent, client, parsed, unread, answers, effects>>

(* Mutant: a body that stays incomplete is waited for, whoever is gone. *)
DiscardBodyForever ==
  /\ phase = "body"
  /\ Route.body = "drained"
  /\ \/ Current.framing \in {"none", "stated"} /\ TakeBody
     \/ /\ Current.framing \in {"chunked", "malformed", "large"}
        /\ Finish("refused", "framing", TRUE)
        /\ UNCHANGED unread

(* The read of a body blocks until all of it is there or the client is gone. *)
DiscardBody ==
  /\ phase = "body"
  /\ Route.body = "drained"
  /\ \/ Current.framing \in {"none", "stated"} /\ TakeBody
     \/ /\ \/ Current.framing \in {"chunked", "malformed", "large"}
           \/ Current.framing = "truncated" /\ client = "gone"
        /\ Finish("refused", "framing", TRUE)
        /\ UNCHANGED unread

(* A body that is not JSON is refused; one nested too deep for the parser, or
   with a number too long for it, raises out of the handler. *)
ReadJson ==
  /\ phase = "body"
  /\ Route.body = "read"
  /\ \/ Current.framing = "stated" /\ "json" \notin Current.faults /\ TakeBody
     \/ /\ Current.framing = "stated" /\ "json" \in Current.faults
        /\ Finish("refused", "json", FALSE)
        /\ unread' = 0
     \/ /\ Current.framing = "stated" /\ "json" \in Current.faults
        /\ phase' = "closed"
        /\ unread' = 0
        /\ UNCHANGED <<sent, client, parsed, answers, effects>>
     \/ /\ \/ Current.framing \in {"none", "chunked", "malformed", "large"}
           \/ Current.framing = "truncated" /\ client = "gone"
        /\ Finish("refused", "framing", FALSE)
        /\ UNCHANGED unread

(* A notification of A2A is accepted before its method is looked at, and not
   carried out. *)
Acknowledged(r) == r.route \in DOMAIN A2aRpcRoutes /\ r.notification

Fails(r) ==
  {i \in DOMAIN How(r.route).checks :
     /\ How(r.route).checks[i] \in r.faults
     /\ ~(Acknowledged(r) /\ How(r.route).checks[i] = "method")}

Pass ==
  /\ phase = "check"
  /\ Fails(Current) = {}
  /\ phase' = IF Acknowledged(Current) THEN "reply" ELSE Route.goOn
  /\ UNCHANGED <<sent, client, parsed, unread, answers, effects>>

Reject ==
  /\ phase = "check"
  /\ \E i \in Fails(Current) :
       /\ \A j \in Fails(Current) : i <= j
       /\ Finish("refused", Route.checks[i], FALSE)
  /\ UNCHANGED unread

(* What repeats its arguments in its result only reads: prompts, completions and
   echoing tools. *)
Reads(r) == r.wire = "badResult"

(* The gateway state carries the operation out or raises. *)
Operate ==
  /\ phase \in {"operate", "feed"}
  /\ phase' = IF phase = "feed" THEN "begin" ELSE "reply"
  /\ effects' = IF Reads(Current) THEN effects ELSE effects \cup {parsed}
  /\ UNCHANGED <<sent, client, parsed, unread, answers>>

(* Mutant: the operation raises after it has changed the state. *)
FailHalfway ==
  /\ phase \in {"operate", "feed"}
  /\ answers' = Append(answers, [to |-> parsed, kind |-> "refused", why |-> "operation"])
  /\ phase' = "idle"
  /\ effects' = effects \cup {parsed}
  /\ UNCHANGED <<sent, client, parsed, unread>>

FailOperation ==
  /\ phase \in {"operate", "feed"}
  /\ Finish("refused", "operation", FALSE)
  /\ UNCHANGED unread

(* A result that cannot be encoded is refused after the operation. *)
Reply ==
  /\ phase = "reply"
  /\ IF Current.wire = "badResult"
       THEN Finish("refused", "encode", FALSE)
       ELSE Finish("ok", "done", FALSE)
  /\ UNCHANGED unread

RefuseRoute ==
  /\ phase = "refuse"
  /\ Finish("refused", "route", FALSE)
  /\ UNCHANGED unread

BeginStream ==
  /\ phase = "begin"
  /\ \/ /\ answers' = Append(answers, [to |-> parsed, kind |-> "stream", why |-> "done"])
        /\ phase' = "stream"
     \/ client = "gone" /\ phase' = "closed" /\ UNCHANGED answers
  /\ UNCHANGED <<sent, client, parsed, unread, effects>>

(* Mutant: the connection is kept after a stream. *)
EndStreamKeepingOpen ==
  /\ phase = "stream"
  /\ phase' = "idle"
  /\ UNCHANGED <<sent, client, parsed, unread, answers, effects>>

(* A progress token that cannot be encoded raises in the stream, and the error
   is answered there with a head of its own. *)
EndStream ==
  /\ phase = "stream"
  /\ phase' = "closed"
  /\ answers' = IF Current.wire = "badToken"
                  THEN Append(answers, [to |-> parsed, kind |-> "refused", why |-> "internal"])
                  ELSE answers
  /\ UNCHANGED <<sent, client, parsed, unread, effects>>

Serve == \/ Receive \/ Misread \/ EndOfInput
         \/ Gate \/ SkipBody \/ DiscardBody \/ ReadJson
         \/ Pass \/ Reject
         \/ Operate \/ FailOperation \/ Reply \/ RefuseRoute
         \/ BeginStream \/ EndStream

Next == (\E r \in Requests : Send(r)) \/ StopReading \/ Hangup \/ Serve

Spec == Init /\ [][Next]_vars

(* The socket has no timeout: what is written to a client that is connected and
   does not read, an answer or an event of a stream, may never return. *)
MayBlock == client = "stalled" /\ (answers' # answers \/ phase = "stream")

(* The connection's thread is scheduled; every stream has a deadline. Clients
   owe nothing: a body may stay away for good, and an answer may stay unread. *)
FairSpec == Spec /\ WF_vars(Serve /\ ~MayBlock)

-----------------------------------------------------------------------------
(* Every variable stays in its range: no request is parsed that was not sent. *)
TypeOK ==
  /\ sent \in Seq(Requests)
  /\ client \in Client
  /\ parsed \in 0..Len(sent)
  /\ unread \in 0..1
  /\ phase \in Phase
  /\ answers \in Seq(Answer)
  /\ effects \subseteq 1..parsed
  /\ phase \notin {"idle", "closed"} => parsed > 0

(* A request whose body its route reads, or that has none, or that is refused
   together with its connection. *)
WellFramed(r) ==
  CASE How(r.route).body = "ignored" -> r.framing = "none"
    [] How(r.route).body = "drained" -> TRUE
    [] OTHER -> r.framing \in {"none", "stated", "truncated"}
                \/ How(r.route).gate \in r.faults

(* After requests whose bodies are where their routes look for them, a
   connection that is kept for another request starts at the head of it. *)
StartsAtHead ==
  phase = "idle" /\ (\A i \in 1..parsed : WellFramed(sent[i])) => unread = 0

(* server.py:336-341 and 1412-1413: so it does whatever was sent, because a body
   is drained before the connection is reused or the connection is closed. *)
BodiesAreDrained == phase = "idle" => unread = 0

(* The client of a connection that is still open can tell which answer is
   whose: every request so far has one, in their order, and no stream among
   them. What is not an answer to a request of its own (to a body taken for a
   request, to a stream that broke) comes last, before the end. *)
AnswersInOrder ==
  /\ \A i \in DOMAIN answers :
       answers[i].to = i \/ (i = Len(answers) /\ phase = "closed")
  /\ phase = "idle" => /\ Len(answers) = parsed
                       /\ \A i \in DOMAIN answers : answers[i].kind # "stream"

(* Nothing is carried out for a request that its route's gate or one of its
   checks would refuse, nor for a notification of A2A. A version of A2A that is
   not spoken is such a fault on every route that carries something out. *)
OperationsAreEarned ==
  \A n \in effects :
    /\ sent[n].faults = {}
    /\ ~Acknowledged(sent[n])

(* On a connection that is still open what was answered is what was done: an
   operation was carried out exactly if its request was told so. *)
AnswersTellEffects ==
  phase = "idle" =>
    effects = {n \in DOMAIN answers :
                 /\ answers[n].kind = "ok"
                 /\ How(sent[n].route).goOn = "operate"
                 /\ ~Acknowledged(sent[n])}

(* Whatever is being handled ends, unless the client keeps the connection and
   either withholds the rest of a body or stops reading: the reads of a body and
   the writes of an answer have no deadline of their own, and a client that
   closes its end releases both. *)
EveryRequestSettles ==
  phase \notin {"idle", "closed"} /\ (client = "gone" \/ Current.framing # "truncated")
    ~> phase \in {"idle", "closed"} \/ client = "stalled"
=============================================================================
