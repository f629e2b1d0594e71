------------------------ MODULE HttpConnection_proofs ------------------------
(***************************************************************************)
(* What HttpConnection guarantees for any requests and any number of them. *)
(***************************************************************************)
EXTENDS HttpConnection, SequenceTheorems, TLAPS

(* What a route does with a body and how it goes on, whatever it checks. *)
HandlingOK(how) ==
  /\ how.gate \in {"open", "media", "origin"}
  /\ how.body \in {"ignored", "drained", "read"}
  /\ how.goOn \in {"reply", "refuse", "operate", "feed", "begin"}

LEMMA GetsAreOK == \A route \in DOMAIN GetRoutes : HandlingOK(GetRoutes[route])
<1>1. \A checks : \A goOn \in {"reply", "refuse", "operate"} : HandlingOK(Plain(checks, goOn))
  BY DEF Plain, Handling, HandlingOK
<1> QED
  BY <1>1 DEF GetRoutes

LEMMA DeletesAreOK == \A route \in DOMAIN DeleteRoutes : HandlingOK(DeleteRoutes[route])
BY DEF DeleteRoutes, Plain, Handling, HandlingOK

LEMMA PostsAreOK == \A route \in DOMAIN PostRoutes : HandlingOK(PostRoutes[route])
BY DEF PostRoutes, Handling, HandlingOK

LEMMA A2aRpcIsOK == \A route \in DOMAIN A2aRpcRoutes : HandlingOK(A2aRpcRoutes[route])
BY DEF A2aRpcRoutes, Handling, HandlingOK

LEMMA McpsAreOK == \A route \in DOMAIN McpRoutes : HandlingOK(McpRoutes[route])
BY DEF McpRoutes, Handling, HandlingOK

LEMMA RoutesAreOK == \A route \in Routes : HandlingOK(How(route))
BY GetsAreOK, DeletesAreOK, PostsAreOK, A2aRpcIsOK, McpsAreOK DEF Routes, How

-----------------------------------------------------------------------------

InHandler == {"gate", "body", "check", "operate", "feed", "reply", "refuse"}

(* What of its faults a request would have been refused for by now. *)
PassedBody(r) ==
  /\ How(r.route).gate \notin r.faults
  /\ How(r.route).body = "read" => "json" \notin r.faults

Passed(r) == PassedBody(r) /\ Fails(r) = {} /\ ~Acknowledged(r)

(* A body is in the stream until the handler takes it, and one that the handler
   leaves there is one that was not where its route looks for it. *)
BodyInv ==
  /\ phase = "gate" => unread = BodyBytes(Current)
  /\ phase = "body" => unread = BodyBytes(Current) /\ How(Current.route).gate \notin Current.faults
  /\ phase \in InHandler \ {"gate", "body"} /\ WellFramed(Current) => unread = 0
  /\ StartsAtHead

(* Each answer is in the place of its request. *)
PlaceInv ==
  /\ phase \in InHandler \cup {"begin"} => Len(answers) = parsed - 1
  /\ phase \in {"idle", "stream"} => Len(answers) = parsed
  /\ phase \notin {"stream", "closed"} => \A i \in 1 .. Len(answers) : answers[i].kind # "stream"
  /\ \A i \in 1 .. Len(answers) : answers[i].to = i \/ (i = Len(answers) /\ phase = "closed")

(* Where a handler stands, its request has passed what comes before. *)
PassInv ==
  /\ phase = "check" => PassedBody(Current)
  /\ phase \in {"operate", "feed"} => Passed(Current) /\ How(Current.route).goOn = phase
  /\ \A n \in effects : Passed(sent[n])

ToldOf(n) == /\ answers[n].kind = "ok"
             /\ How(sent[n].route).goOn = "operate"
             /\ ~Acknowledged(sent[n])

(* A request whose answer will tell of an operation. *)
Tells(r) == How(r.route).goOn = "operate" /\ ~Acknowledged(r) /\ ~Reads(r)

(* The operations that were carried out are those that were told of, and the one
   that is about to be. *)
EffectInv ==
  /\ phase \in {"idle"} \cup InHandler =>
       \A n \in 1 .. Len(answers) : n \in effects <=> ToldOf(n)
  /\ phase \in InHandler \ {"reply"} => parsed \notin effects
  /\ phase = "reply" => (parsed \in effects <=> Tells(Current))

IndInv == TypeOK /\ BodyInv /\ PlaceInv /\ PassInv /\ EffectInv

LEMMA CurrentType ==
  ASSUME TypeOK, parsed > 0
  PROVE  /\ parsed \in 1 .. Len(sent)
         /\ Current \in Requests /\ Current \in Request
         /\ HandlingOK(How(Current.route))
         /\ BodyBytes(Current) \in 0 .. 1
<1>1. parsed \in 1 .. Len(sent) /\ Current \in Requests
  BY DEF TypeOK, Current
<1>2. Current \in Request
  BY <1>1, RequestsAssumption
<1> QED
  BY <1>1, <1>2, RoutesAreOK DEF Request, BodyBytes

LEMMA InitInv == Init => IndInv
<1> SUFFICES ASSUME Init PROVE IndInv
  OBVIOUS
<1>1. sent \in Seq(Requests) /\ answers \in Seq(Answer) /\ Len(sent) = 0 /\ Len(answers) = 0
  BY DEF Init
<1>2. TypeOK
  <2>1. parsed \in 0 .. Len(sent) /\ effects \subseteq 1 .. parsed
    BY <1>1 DEF Init
  <2>2. client \in Client
    BY DEF Init, Client
  <2>3. unread \in 0 .. 1 /\ phase = "idle" /\ phase \in Phase
    BY DEF Init, Phase
  <2> QED
    BY <1>1, <2>1, <2>2, <2>3 DEF TypeOK
<1>3. BodyInv /\ PlaceInv /\ PassInv /\ EffectInv
  BY <1>1 DEF Init, BodyInv, PlaceInv, PassInv, EffectInv, StartsAtHead, InHandler
<1> QED
  BY <1>2, <1>3 DEF IndInv

(* What the client sends is after whatever was parsed. *)
LEMMA SendStep ==
  ASSUME IndInv, NEW r \in Requests, Send(r)
  PROVE  IndInv'
<1> USE DEF IndInv
<1>1. /\ sent' \in Seq(Requests)
      /\ Len(sent') = Len(sent) + 1
      /\ \A n \in 1 .. Len(sent) : sent'[n] = sent[n]
  BY AppendProperties DEF Send, TypeOK
<1>2. UNCHANGED <<client, parsed, unread, phase, answers, effects>>
  BY DEF Send
<1>3. \A n \in 1 .. parsed : n \in 1 .. Len(sent) /\ sent'[n] = sent[n]
  BY <1>1 DEF TypeOK
<1>4. TypeOK'
  BY <1>1, <1>2 DEF TypeOK
<1>5. parsed > 0 => Current' = Current
  BY <1>2, <1>3 DEF Current, TypeOK
<1>6. phase \notin {"idle", "closed"} => parsed > 0
  BY DEF TypeOK
<1>7. BodyInv'
  <2>1. StartsAtHead'
    BY <1>2, <1>3 DEF BodyInv, StartsAtHead
  <2> QED
    BY <1>2, <1>5, <1>6, <2>1 DEF BodyInv, InHandler
<1>8. PlaceInv'
  BY <1>2 DEF PlaceInv
<1>9. PassInv'
  BY <1>2, <1>3, <1>5, <1>6 DEF PassInv, TypeOK
<1>10. EffectInv'
  <2>1. phase \in {"idle"} \cup InHandler => \A n \in 1 .. Len(answers) : n \in 1 .. parsed
    BY DEF PlaceInv, TypeOK
  <2> QED
    BY <1>2, <1>3, <1>5, <1>6, <2>1 DEF EffectInv, ToldOf, InHandler
<1> QED
  BY <1>4, <1>7, <1>8, <1>9, <1>10

(* One more answer leaves the earlier ones as they are. *)
LEMMA AnswerAppended ==
  ASSUME TypeOK, NEW e \in Answer, answers' = Append(answers, e)
  PROVE  /\ answers' \in Seq(Answer)
         /\ Len(answers') = Len(answers) + 1
         /\ \A i \in 1 .. Len(answers) : answers'[i] = answers[i]
         /\ answers'[Len(answers')] = e
BY AppendProperties DEF TypeOK

(* A handler that ends its connection without an answer. *)
LEMMA CloseStep ==
  ASSUME IndInv, phase \in InHandler, phase' = "closed", unread' \in 0 .. 1,
         UNCHANGED <<sent, client, parsed, answers, effects>>
  PROVE  IndInv'
<1> USE DEF IndInv
<1>1. parsed > 0
  BY DEF TypeOK, InHandler
<1>2. TypeOK'
  BY <1>1 DEF TypeOK, Phase
<1>3. BodyInv' /\ PlaceInv' /\ PassInv' /\ EffectInv'
  BY DEF BodyInv, StartsAtHead, PlaceInv, PassInv, EffectInv, InHandler
<1> QED
  BY <1>2, <1>3

(* A handler that answers, or closes because it cannot. *)
LEMMA FinishStep ==
  ASSUME IndInv, phase \in InHandler, NEW kind \in {"ok", "refused"}, NEW why \in Why,
         NEW close \in BOOLEAN, Finish(kind, why, close),
         kind = "ok" <=> phase = "reply" /\ ~Reads(Current),
         unread' \in 0 .. 1,
         ~close /\ WellFramed(Current) => unread' = 0
  PROVE  IndInv'
<1> USE DEF IndInv
<1> DEFINE e == [to |-> parsed, kind |-> kind, why |-> why]
<1>1. /\ parsed \in Nat /\ parsed > 0 /\ parsed \in 1 .. Len(sent)
      /\ Len(answers) = parsed - 1 /\ Len(answers) \in Nat
      /\ e \in Answer
      /\ UNCHANGED <<sent, client, parsed, effects>>
  BY CurrentType DEF Finish, TypeOK, InHandler, PlaceInv, Answer
<1>2. CASE /\ answers' = Append(answers, e)
           /\ phase' = IF close \/ Current.closes THEN "closed" ELSE "idle"
  <2>1. /\ answers' \in Seq(Answer) /\ Len(answers') = parsed
        /\ \A i \in 1 .. Len(answers) : answers'[i] = answers[i]
        /\ answers'[parsed] = e
    BY <1>1, <1>2, AnswerAppended
  <2>2. TypeOK'
    BY <1>1, <1>2, <2>1 DEF TypeOK, Phase
  <2>3. BodyInv'
    BY <1>1, <1>2 DEF BodyInv, StartsAtHead, InHandler, Current
  <2>4. \A i \in 1 .. parsed : i = parsed \/ i \in 1 .. Len(answers)
    BY <1>1
  <2>5. PlaceInv'
    BY <1>1, <1>2, <2>1, <2>4 DEF PlaceInv, InHandler
  <2>6. PassInv'
    BY <1>1, <1>2 DEF PassInv
  <2>7. EffectInv'
    <3>1. ASSUME NEW n \in 1 .. parsed PROVE n \in effects <=> ToldOf(n)'
      <4>1. CASE n = parsed
        BY <1>1, <2>1, <4>1 DEF EffectInv, ToldOf, Tells, Current
      <4>2. CASE n \in 1 .. Len(answers)
        BY <1>1, <2>1, <4>2 DEF EffectInv, ToldOf
      <4> QED
        BY <2>4, <4>1, <4>2
    <3> QED
      BY <1>1, <1>2, <2>1, <3>1 DEF EffectInv, InHandler
  <2> QED
    BY <2>2, <2>3, <2>5, <2>6, <2>7
<1>3. CASE phase' = "closed" /\ answers' = answers
  BY <1>1, <1>3, CloseStep
<1> QED
  BY <1>2, <1>3 DEF Finish

(* A handler that goes on without answering. *)
LEMMA MoveStep ==
  ASSUME IndInv, phase \in InHandler, phase' \in InHandler \ {"gate"},
         UNCHANGED <<sent, client, parsed, answers, effects>>,
         unread' \in 0 .. 1,
         phase' = "body" => unread' = BodyBytes(Current) /\ How(Current.route).gate \notin Current.faults,
         phase' # "body" /\ WellFramed(Current) => unread' = 0,
         phase' = "check" => PassedBody(Current),
         phase' \in {"operate", "feed"} => Passed(Current) /\ How(Current.route).goOn = phase',
         phase # "reply",
         phase' = "reply" => ~Tells(Current)
  PROVE  IndInv'
<1> USE DEF IndInv
<1>1. Current' = Current
  BY DEF Current
<1>2. TypeOK'
  BY DEF TypeOK, InHandler, Phase
<1>3. BodyInv'
  BY <1>1 DEF BodyInv, StartsAtHead, InHandler
<1>4. PlaceInv'
  BY DEF PlaceInv, InHandler
<1>5. PassInv'
  BY <1>1 DEF PassInv, InHandler
<1>6. EffectInv'
  BY <1>1 DEF EffectInv, ToldOf, InHandler
<1> QED
  BY <1>2, <1>3, <1>4, <1>5, <1>6

-----------------------------------------------------------------------------

LEMMA ReceiveStep == ASSUME IndInv, Receive PROVE IndInv'
<1> USE DEF IndInv
<1>1. /\ parsed' = parsed + 1 /\ parsed \in Nat /\ parsed' \in 1 .. Len(sent)
      /\ unread' = BodyBytes(sent[parsed']) /\ phase' = "gate" /\ phase = "idle"
      /\ UNCHANGED <<sent, client, answers, effects>>
  BY DEF Receive, TypeOK
<1>2. Current' = sent[parsed'] /\ unread' \in 0 .. 1
  BY <1>1 DEF Current, BodyBytes
<1>3. TypeOK'
  BY <1>1, <1>2 DEF TypeOK, Phase
<1>4. BodyInv'
  BY <1>1, <1>2 DEF BodyInv, StartsAtHead, InHandler
<1>5. PlaceInv' /\ PassInv'
  BY <1>1 DEF PlaceInv, PassInv, InHandler
<1>6. parsed' \notin effects
  BY <1>1 DEF TypeOK
<1>7. EffectInv'
  BY <1>1, <1>6 DEF EffectInv, ToldOf, InHandler
<1> QED
  BY <1>3, <1>4, <1>5, <1>7

LEMMA MisreadStep == ASSUME IndInv, Misread PROVE IndInv'
<1> USE DEF IndInv
<1>1. [to |-> 0, kind |-> "refused", why |-> "garbage"] \in Answer
  BY DEF Answer, Why
<1>2. /\ answers' \in Seq(Answer) /\ Len(answers') = Len(answers) + 1 /\ Len(answers) \in Nat
      /\ \A i \in 1 .. Len(answers) : answers'[i] = answers[i]
  BY <1>1, AnswerAppended DEF Misread, TypeOK
<1>3. TypeOK'
  BY <1>2 DEF Misread, TypeOK, Phase
<1>4. BodyInv' /\ PassInv' /\ EffectInv'
  BY DEF Misread, BodyInv, StartsAtHead, PassInv, EffectInv, InHandler
<1>5. PlaceInv'
  BY <1>2 DEF Misread, PlaceInv, InHandler
<1> QED
  BY <1>3, <1>4, <1>5

LEMMA EndOfInputStep == ASSUME IndInv, EndOfInput PROVE IndInv'
BY DEF IndInv, EndOfInput, TypeOK, Phase, BodyInv, StartsAtHead, PlaceInv, PassInv, EffectInv,
       InHandler

(* How the client reads changes nothing of what it is sent. *)
LEMMA ClientStep == ASSUME IndInv, StopReading \/ Hangup PROVE IndInv'
<1>1. client' \in Client /\ UNCHANGED <<sent, parsed, unread, phase, answers, effects>>
  BY DEF StopReading, Hangup, Client
<1> QED
  BY <1>1 DEF IndInv, TypeOK, BodyInv, StartsAtHead, PlaceInv, PassInv, EffectInv, ToldOf,
              Current

(* The route's own reasons to refuse are among the reasons. *)
LEMMA WhyOfRoute ==
  ASSUME TypeOK, parsed > 0
  PROVE  /\ Route.gate \in Why
         /\ \A i \in DOMAIN Route.checks : Route.checks[i] \in Why
<1> DEFINE Checks(r) == {How(r.route).checks[j] : j \in DOMAIN How(r.route).checks}
<1>1. Current \in Requests /\ Route = How(Current.route)
  BY CurrentType DEF Route
<1>2. Route.gate \in Why
  BY <1>1 DEF Why
<1>3. ASSUME NEW i \in DOMAIN Route.checks PROVE Route.checks[i] \in Why
  <2>1. Route.checks[i] \in Checks(Current)
    BY <1>1
  <2>2. UNION {Checks(r) : r \in Requests} \subseteq Why
    BY DEF Why
  <2> HIDE DEF Checks
  <2>3. Route.checks[i] \in UNION {Checks(r) : r \in Requests}
    BY <1>1, <2>1
  <2> QED
    BY <2>2, <2>3
<1> QED
  BY <1>2, <1>3

LEMMA GateStep == ASSUME IndInv, Gate PROVE IndInv'
<1>1. TypeOK /\ phase = "gate" /\ phase \in InHandler /\ parsed > 0
  BY DEF Gate, IndInv, TypeOK, InHandler
<1>2. unread' = unread /\ unread = BodyBytes(Current) /\ unread \in 0 .. 1
  BY <1>1 DEF Gate, IndInv, BodyInv, TypeOK
<1>3. CASE Route.gate \in Current.faults
  <2>1. Finish("refused", Route.gate, TRUE)
    BY <1>3 DEF Gate
  <2> QED
    BY <1>1, <1>2, <2>1, WhyOfRoute, FinishStep
<1>4. CASE Route.gate \notin Current.faults
  <2>1. phase' = "body" /\ UNCHANGED <<sent, client, parsed, answers, effects>>
    BY <1>4 DEF Gate
  <2> QED
    BY <1>1, <1>2, <1>4, <2>1, MoveStep DEF Route, InHandler
<1> QED
  BY <1>3, <1>4

LEMMA SkipBodyStep == ASSUME IndInv, SkipBody PROVE IndInv'
<1>1. TypeOK /\ phase = "body" /\ parsed > 0 /\ unread' = unread /\ unread \in 0 .. 1
  BY DEF SkipBody, IndInv, TypeOK
<1>2. unread = BodyBytes(Current) /\ PassedBody(Current)
  BY <1>1 DEF SkipBody, IndInv, BodyInv, PassedBody, Route
<1>3. WellFramed(Current) => unread' = 0
  BY <1>1, <1>2 DEF SkipBody, Route, WellFramed, BodyBytes
<1> QED
  BY <1>1, <1>2, <1>3, MoveStep DEF SkipBody, InHandler

LEMMA TakeBodyStep ==
  ASSUME IndInv, phase = "body", TakeBody,
         How(Current.route).body = "read" => "json" \notin Current.faults
  PROVE  IndInv'
<1>1. PassedBody(Current)
  BY DEF IndInv, BodyInv, PassedBody
<1> QED
  BY <1>1, MoveStep DEF TakeBody, InHandler

LEMMA DiscardBodyStep == ASSUME IndInv, DiscardBody PROVE IndInv'
<1>1. TypeOK /\ phase = "body" /\ How(Current.route).body = "drained" /\ unread \in 0 .. 1
  BY DEF DiscardBody, IndInv, TypeOK, Route
<1>2. CASE TakeBody
  BY <1>1, <1>2, TakeBodyStep
<1>3. CASE Finish("refused", "framing", TRUE) /\ unread' = unread
  BY <1>1, <1>3, FinishStep DEF InHandler, Why
<1> QED
  BY <1>2, <1>3 DEF DiscardBody

LEMMA ReadJsonStep == ASSUME IndInv, ReadJson PROVE IndInv'
<1>1. /\ TypeOK /\ phase = "body" /\ How(Current.route).body = "read" /\ unread \in 0 .. 1
      /\ unread = BodyBytes(Current)
      /\ How(Current.route).gate \notin Current.faults
  BY DEF ReadJson, IndInv, TypeOK, Route, BodyInv
<1>2. CASE "json" \notin Current.faults /\ TakeBody
  BY <1>1, <1>2, TakeBodyStep
<1>3. CASE Finish("refused", "json", FALSE) /\ unread' = 0
  <2>1. unread' \in 0 .. 1 /\ "json" \in Why /\ phase \in InHandler /\ phase # "reply"
    BY <1>1, <1>3 DEF InHandler, Why
  <2> QED
    BY <1>3, <2>1, FinishStep
<1>4. CASE /\ phase' = "closed" /\ unread' = 0
           /\ UNCHANGED <<sent, client, parsed, answers, effects>>
  BY <1>1, <1>4, CloseStep DEF InHandler
<1>5. CASE /\ Current.framing \in {"none", "chunked", "malformed", "large", "truncated"}
           /\ Finish("refused", "framing", FALSE)
           /\ unread' = unread
  <2>1. WellFramed(Current) => unread' = 0
    BY <1>1, <1>5 DEF WellFramed, BodyBytes
  <2> QED
    BY <1>1, <1>5, <2>1, FinishStep DEF InHandler, Why
<1> QED
  BY <1>2, <1>3, <1>4, <1>5 DEF ReadJson

LEMMA PassStep == ASSUME IndInv, Pass PROVE IndInv'
<1>1. /\ TypeOK /\ phase = "check" /\ parsed > 0 /\ unread' = unread /\ unread \in 0 .. 1
      /\ PassedBody(Current) /\ Fails(Current) = {}
      /\ WellFramed(Current) => unread = 0
      /\ UNCHANGED <<sent, client, parsed, answers, effects>>
  BY DEF Pass, IndInv, TypeOK, PassInv, BodyInv, InHandler
<1>2. HandlingOK(How(Current.route))
  BY <1>1, CurrentType
<1>3. CASE Acknowledged(Current)
  <2>1. phase' = "reply"
    BY <1>3 DEF Pass
  <2> QED
    BY <1>1, <1>3, <2>1, MoveStep DEF InHandler, Tells
<1>4. CASE ~Acknowledged(Current)
  <2>1. phase' = How(Current.route).goOn
    BY <1>4 DEF Pass, Route
  <2>2. Passed(Current)
    BY <1>1, <1>4 DEF Passed
  <2>3. CASE phase' = "begin"
    <3>1. TypeOK' /\ Current' = Current
      BY <1>1, <2>3 DEF TypeOK, Phase, Current
    <3>2. BodyInv' /\ PlaceInv' /\ PassInv' /\ EffectInv'
      BY <1>1, <2>3
         DEF IndInv, BodyInv, StartsAtHead, PlaceInv, PassInv, EffectInv, InHandler
    <3> QED
      BY <3>1, <3>2 DEF IndInv
  <2>4. CASE phase' # "begin"
    <3>1. phase' \in {"reply", "refuse", "operate", "feed"}
      BY <1>2, <2>1, <2>4 DEF HandlingOK
    <3> QED
      BY <1>1, <2>1, <2>2, <3>1, MoveStep DEF InHandler, Tells
  <2> QED
    BY <2>3, <2>4
<1> QED
  BY <1>3, <1>4

LEMMA RejectStep == ASSUME IndInv, Reject PROVE IndInv'
<1>1. /\ TypeOK /\ phase = "check" /\ parsed > 0 /\ unread' = unread /\ unread \in 0 .. 1
      /\ WellFramed(Current) => unread = 0
  BY DEF Reject, IndInv, TypeOK, BodyInv, InHandler
<1>2. PICK i \in Fails(Current) : Finish("refused", Route.checks[i], FALSE)
  BY DEF Reject
<1>3. Route.checks[i] \in Why
  BY <1>1, WhyOfRoute DEF Fails, Route
<1> QED
  BY <1>1, <1>2, <1>3, FinishStep DEF InHandler

LEMMA OperateStep == ASSUME IndInv, Operate PROVE IndInv'
<1> USE DEF IndInv
<1>1. /\ phase \in {"operate", "feed"}
      /\ phase' = IF phase = "feed" THEN "begin" ELSE "reply"
      /\ effects' = IF Reads(Current) THEN effects ELSE effects \cup {parsed}
      /\ UNCHANGED <<sent, client, parsed, unread, answers>>
      /\ parsed \in Nat \ {0} /\ Len(answers) = parsed - 1
      /\ Passed(Current) /\ How(Current.route).goOn = phase
  BY DEF Operate, TypeOK, PassInv, PlaceInv, InHandler
<1>2. TypeOK'
  BY <1>1 DEF TypeOK, Phase
<1>3. Current' = Current
  BY <1>1 DEF Current
<1>4. BodyInv' /\ PlaceInv'
  BY <1>1, <1>3 DEF BodyInv, StartsAtHead, PlaceInv, InHandler
<1>5. PassInv'
  BY <1>1 DEF PassInv, Current
<1>6. EffectInv'
  <2>1. \A n \in 1 .. Len(answers) : n # parsed
    BY <1>1
  <2>2. ~Acknowledged(Current)
    BY <1>1 DEF Passed
  <2> QED
    BY <1>1, <1>3, <2>1, <2>2 DEF EffectInv, ToldOf, Tells, InHandler
<1> QED
  BY <1>2, <1>4, <1>5, <1>6

(* The three answers that end a handler. *)
LEMMA EndStep == ASSUME IndInv, FailOperation \/ Reply \/ RefuseRoute PROVE IndInv'
<1>1. /\ TypeOK /\ phase \in {"operate", "feed", "reply", "refuse"}
      /\ unread' = unread /\ unread \in 0 .. 1
      /\ WellFramed(Current) => unread = 0
  BY DEF FailOperation, Reply, RefuseRoute, IndInv, TypeOK, BodyInv, InHandler
<1>2. CASE FailOperation
  BY <1>1, <1>2, FinishStep DEF FailOperation, InHandler, Why
<1>3. CASE Reply
  <2>1. CASE Reads(Current)
    BY <1>1, <1>3, <2>1, FinishStep DEF Reply, Reads, InHandler, Why
  <2>2. CASE ~Reads(Current)
    BY <1>1, <1>3, <2>2, FinishStep DEF Reply, Reads, InHandler, Why
  <2> QED
    BY <2>1, <2>2
<1>4. CASE RefuseRoute
  BY <1>1, <1>4, FinishStep DEF RefuseRoute, InHandler, Why
<1> QED
  BY <1>2, <1>3, <1>4

LEMMA StreamStep == ASSUME IndInv, BeginStream \/ EndStream PROVE IndInv'
<1> USE DEF IndInv
<1>1. /\ UNCHANGED <<sent, client, parsed, unread, effects>>
      /\ parsed \in Nat \ {0} /\ phase' \in {"stream", "closed"}
      /\ Len(answers) \in Nat
  BY DEF BeginStream, EndStream, TypeOK
<1>2. /\ [to |-> parsed, kind |-> "stream", why |-> "done"] \in Answer
      /\ [to |-> parsed, kind |-> "refused", why |-> "internal"] \in Answer
  BY <1>1 DEF Answer, Why
<1>3. BodyInv' /\ PassInv' /\ EffectInv'
  BY <1>1 DEF BodyInv, StartsAtHead, PassInv, EffectInv, InHandler
<1>4. CASE answers' = answers
  <2>1. phase' = "closed"
    BY <1>4, <1>2, AnswerAppended DEF BeginStream, EndStream
  <2>2. TypeOK'
    BY <1>1, <1>4, <2>1 DEF TypeOK, Phase
  <2>3. PlaceInv'
    BY <1>1, <1>4, <2>1 DEF PlaceInv, InHandler
  <2> QED
    BY <1>3, <2>2, <2>3
<1>5. ASSUME phase = "begin", phase' = "stream",
             answers' = Append(answers, [to |-> parsed, kind |-> "stream", why |-> "done"])
      PROVE  IndInv'
  <2>1. /\ answers' \in Seq(Answer) /\ Len(answers') = parsed
        /\ \A i \in 1 .. Len(answers) : answers'[i] = answers[i]
        /\ answers'[parsed].to = parsed /\ Len(answers) = parsed - 1
    BY <1>1, <1>2, <1>5, AnswerAppended DEF PlaceInv
  <2>2. TypeOK'
    BY <1>1, <1>5, <2>1 DEF TypeOK, Phase
  <2>3. PlaceInv'
    BY <1>1, <1>5, <2>1 DEF PlaceInv, InHandler
  <2> QED
    BY <1>3, <2>2, <2>3
<1>6. ASSUME phase = "stream", phase' = "closed",
             answers' = Append(answers, [to |-> parsed, kind |-> "refused", why |-> "internal"])
      PROVE  IndInv'
  <2>1. /\ answers' \in Seq(Answer) /\ Len(answers') = Len(answers) + 1
        /\ \A i \in 1 .. Len(answers) : answers'[i] = answers[i]
    BY <1>2, <1>6, AnswerAppended
  <2>2. TypeOK'
    BY <1>1, <1>6, <2>1 DEF TypeOK, Phase
  <2>3. PlaceInv'
    BY <1>1, <1>6, <2>1 DEF PlaceInv, InHandler
  <2> QED
    BY <1>3, <2>2, <2>3
<1> QED
  BY <1>4, <1>5, <1>6 DEF BeginStream, EndStream

LEMMA NextInv == IndInv /\ [Next]_vars => IndInv'
<1> SUFFICES ASSUME IndInv, [Next]_vars PROVE IndInv'
  OBVIOUS
<1>1. CASE UNCHANGED vars
  BY <1>1 DEF vars, IndInv, TypeOK, BodyInv, StartsAtHead, PlaceInv, PassInv, EffectInv, ToldOf,
              Current
<1>2. CASE Serve
  BY <1>2, ReceiveStep, MisreadStep, EndOfInputStep, GateStep, SkipBodyStep, DiscardBodyStep,
     ReadJsonStep, PassStep, RejectStep, OperateStep, EndStep, StreamStep DEF Serve
<1> QED
  BY <1>1, <1>2, SendStep, ClientStep DEF Next

(* The inductive invariant holds throughout. *)
THEOREM Invariance == Spec => []IndInv
<1> QED
  BY InitInv, NextInv, PTL DEF Spec

-----------------------------------------------------------------------------

(* For any requests: none is parsed that was not sent, and nothing is carried out
   that was not parsed (GatewayRequestHandler). *)
THEOREM TypeCorrect == Spec => []TypeOK
<1> QED
  BY Invariance, PTL DEF IndInv

(* For any requests whose bodies are where their routes look for them, a kept
   connection starts at the head of the next one (_read_json and
   _discard_request_body). *)
THEOREM ConnectionsStartAtHead == Spec => []StartsAtHead
<1> QED
  BY Invariance, PTL DEF IndInv, BodyInv

(* For any requests, however they fail, answers come in the order of requests
   and one for each while the connection is open (GatewayRequestHandler). *)
THEOREM AnswersKeepOrder == Spec => []AnswersInOrder
<1>1. IndInv => AnswersInOrder
  <2> SUFFICES ASSUME IndInv PROVE AnswersInOrder
    OBVIOUS
  <2>1. DOMAIN answers = 1 .. Len(answers)
    BY DEF IndInv, TypeOK
  <2> QED
    BY <2>1 DEF IndInv, PlaceInv, AnswersInOrder
<1> QED
  BY <1>1, Invariance, PTL

(* On a connection that is open, exactly the operations that were told of were
   carried out, for any requests (GatewayRequestHandler). *)
THEOREM AnswersAlwaysTellEffects == Spec => []AnswersTellEffects
<1>1. IndInv => AnswersTellEffects
  <2> SUFFICES ASSUME IndInv, phase = "idle"
               PROVE  effects = {n \in DOMAIN answers : ToldOf(n)}
    BY DEF AnswersTellEffects, ToldOf
  <2>1. DOMAIN answers = 1 .. parsed /\ effects \subseteq 1 .. parsed
    BY DEF IndInv, TypeOK, PlaceInv
  <2> QED
    BY <2>1 DEF IndInv, EffectInv, PlaceInv
<1> QED
  BY <1>1, Invariance, PTL

(* The faults of a request are those that its route looks for. *)
FaultsAreLookedFor ==
  \A r \in Requests :
    r.faults \subseteq {How(r.route).gate}
                       \cup (IF How(r.route).body = "read" THEN {"json"} ELSE {})
                       \cup {How(r.route).checks[i] : i \in DOMAIN How(r.route).checks}

(* Nothing is carried out for a request with a fault that its route looks for,
   wherever in its handler, for any requests (GatewayRequestHandler). *)
THEOREM OperationsAreAlwaysEarned ==
  ASSUME FaultsAreLookedFor
  PROVE  Spec => []OperationsAreEarned
<1>1. IndInv => OperationsAreEarned
  <2> SUFFICES ASSUME IndInv, NEW n \in effects
               PROVE  sent[n].faults = {} /\ ~Acknowledged(sent[n])
    BY DEF OperationsAreEarned
  <2>1. sent[n] \in Requests
    BY DEF IndInv, TypeOK
  <2>2. Passed(sent[n])
    BY DEF IndInv, PassInv
  <2>3. \A i \in DOMAIN How(sent[n].route).checks :
          How(sent[n].route).checks[i] \notin sent[n].faults
    BY <2>2 DEF Passed, Fails
  <2> QED
    BY <2>1, <2>2, <2>3 DEF FaultsAreLookedFor, Passed, PassedBody
<1> QED
  BY <1>1, Invariance, PTL
=============================================================================
