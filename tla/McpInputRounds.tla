--------------------------- MODULE McpInputRounds ---------------------------
(***************************************************************************)
(* The input-required tools of the stateless MCP (core.py): a call is      *)
(* answered with requests for input and a signed token, and repeated with   *)
(* the inputs and the token until every round has been answered.  The       *)
(* gateway keeps nothing between the calls of a client, so the token alone  *)
(* tells which round a call answers; its secret is a constant, so tokens    *)
(* outlive the process and any client may send any token it has seen.       *)
(***************************************************************************)
EXTENDS Naturals, Sequences, Functions

CONSTANTS Clients,  \* clients that answer what they are asked, and call again
          Tools     \* the tools considered

(* What each round of a tool asks for, in the order in which it is judged. *)
Rounds ==
  [elicitation     |-> << <<"user_name">> >>,
   sampling        |-> << <<"capital_question">> >>,
   list_roots      |-> << <<"client_roots">> >>,
   prompt          |-> << <<"prompt_context">> >>,
   request_state   |-> << <<"confirm">> >>,
   tampered_state  |-> << <<"confirm">> >>,
   multiple_inputs |-> << <<"user_name", "greeting", "client_roots">> >>,
   multi_round     |-> << <<"step1">>, <<"step2">> >>,
   capabilities    |-> << <<"sampling_only", "elicitation_only">> >>]

Signed == {"request_state", "tampered_state", "multiple_inputs", "multi_round"}

(* This one asks a client that declares a capability, as the clients here do,
   whatever it answers. *)
Endless == {"capabilities"}

ASSUME ToolsAssumption == Tools \subseteq DOMAIN Rounds

KeysOf(tool, k) == Range(Rounds[tool][k])

Keys(tool) == UNION {KeysOf(tool, k) : k \in DOMAIN Rounds[tool]}

NoToken == <<"none", 0>>
Altered == <<"altered", 0>>

Tokens == {<<tool, k>> : tool \in Signed, k \in 1 .. 2} \cup {NoToken, Altered}

(* inputResponses is absent, not an object, or an object whose values are
   objects or not. *)
Call(tool) ==
  [tool : {tool}, given : {"absent", "malformed"}, values : {<< >>}, token : Tokens]
  \cup [tool : {tool}, given : {"object"}, token : Tokens,
        values : UNION {[keys -> {"object", "other"}] : keys \in SUBSET Keys(tool)}]

NoCall == [tool |-> "none", given |-> "absent", values |-> << >>, token |-> NoToken]

Answer(kind, k, token) == [kind |-> kind, round |-> k, token |-> token]

NoAnswer == Answer("none", 0, NoToken)

VARIABLES wants,     \* the tool that each client is about
          call,      \* the call that each client has under way
          reply,     \* the gateway's answer on its way back
          holds,     \* the last answer that each client has received
          issued,    \* the tokens that some client has seen
          answered,  \* the rounds that some call answered in full
          completed  \* the tools that told a client of their completion

vars == <<wants, call, reply, holds, issued, answered, completed>>

Init ==
  /\ wants \in [Clients -> Tools]
  /\ call = [c \in Clients |-> NoCall]
  /\ reply = [c \in Clients |-> NoAnswer]
  /\ holds = [c \in Clients |-> NoAnswer]
  /\ issued = {NoToken, Altered}
  /\ answered = {}
  /\ completed = {}

-----------------------------------------------------------------------------
(* The gateway. *)

(* Mutant: every round is signed as the first. *)
FirstToken(tool, k) == IF tool \in Signed THEN <<tool, 1>> ELSE NoToken

Token(tool, k) == IF tool \in Signed THEN <<tool, k>> ELSE NoToken

Ask(tool, k) == Answer("ask", k, Token(tool, k))

Refuse(code) == Answer(code, 0, NoToken)

Present(values, key) == key \in DOMAIN values /\ values[key] = "object"

(* The keys of a round are looked at in turn: one that is missing is asked for
   again, one that is no object is refused. *)
Judge(tool, k, values) ==
  LET keys == Rounds[tool][k]
      bad  == {i \in DOMAIN keys : ~Present(values, keys[i])}
  IN  IF bad = {}
        THEN IF k < Len(Rounds[tool]) THEN Ask(tool, k + 1)
             ELSE Answer("complete", 0, NoToken)
      ELSE IF keys[CHOOSE i \in bad : \A j \in bad : i <= j] \notin DOMAIN values
        THEN Ask(tool, k)
      ELSE Refuse("E_MCP")

(* Mutant: whatever is not the first token is taken for the last. *)
RoundOfUnchecked(c) ==
  IF c.tool \notin Signed \/ c.token = Token(c.tool, 1) THEN 1 ELSE Len(Rounds[c.tool])

(* The round that a call answers; 0 if its token is none of the tool's. *)
RoundOf(c) ==
  LET fits == {k \in DOMAIN Rounds[c.tool] : c.token = Token(c.tool, k)}
  IN  IF c.tool \notin Signed THEN 1 ELSE IF fits = {} THEN 0 ELSE CHOOSE k \in fits : TRUE

ToolAnswer(c) ==
  IF c.given = "absent" THEN Ask(c.tool, 1)
  ELSE IF c.given = "malformed" THEN Refuse("E_MCP")
  ELSE IF c.tool \in Endless THEN Ask(c.tool, 1)
  ELSE IF RoundOf(c) = 0 THEN Refuse("E_MCP_STATE")
  ELSE Judge(c.tool, RoundOf(c), c.values)

Full(c) ==
  {<<c.tool, k>> : k \in {r \in DOMAIN Rounds[c.tool] :
     \A key \in KeysOf(c.tool, r) : Present(c.values, key)}}

Handle(c) ==
  /\ issued' = issued \cup {ToolAnswer(c).token}
  /\ answered' = answered \cup Full(c)
  /\ completed' = completed \cup IF ToolAnswer(c).kind = "complete" THEN {c.tool} ELSE {}

-----------------------------------------------------------------------------
(* A client that does as it is told calls its tool, answers everything it is
   asked with the token it was given, and calls again when a call is lost. *)

NextCall(tool, held) ==
  IF held.kind = "none" THEN [NoCall EXCEPT !.tool = tool]
  ELSE [tool |-> tool, given |-> "object", token |-> held.token,
        values |-> [key \in KeysOf(tool, held.round) |-> "object"]]

Send(c) ==
  /\ call[c] = NoCall
  /\ holds[c].kind \in {"none", "ask"}
  /\ call' = [call EXCEPT ![c] = NextCall(wants[c], holds[c])]
  /\ UNCHANGED <<wants, reply, holds, issued, answered, completed>>

Serve(c) ==
  /\ call[c] # NoCall
  /\ reply[c] = NoAnswer
  /\ reply' = [reply EXCEPT ![c] = ToolAnswer(call[c])]
  /\ Handle(call[c])
  /\ UNCHANGED <<wants, call, holds>>

Receive(c) ==
  /\ reply[c] # NoAnswer
  /\ holds' = [holds EXCEPT ![c] = reply[c]]
  /\ call' = [call EXCEPT ![c] = NoCall]
  /\ reply' = [reply EXCEPT ![c] = NoAnswer]
  /\ UNCHANGED <<wants, issued, answered, completed>>

(* The connection breaks before or after the call was served. *)
Lose(c) ==
  /\ call[c] # NoCall
  /\ call' = [call EXCEPT ![c] = NoCall]
  /\ reply' = [reply EXCEPT ![c] = NoAnswer]
  /\ UNCHANGED <<wants, holds, issued, answered, completed>>

(* The gateway serves any other client: it may call any tool, answer what it
   likes and send any token that was seen. *)
ServeAnother ==
  /\ \E tool \in Tools : \E c \in Call(tool) : c.token \in issued /\ Handle(c)
  /\ UNCHANGED <<wants, call, reply, holds>>

Next == (\E c \in Clients : Send(c) \/ Serve(c) \/ Receive(c) \/ Lose(c)) \/ ServeAnother

Spec == Init /\ [][Next]_vars

(* A client keeps calling, and a network that loses calls does not lose every
   one of them. *)
FairSpec ==
  Spec /\ \A c \in Clients : WF_vars(Send(c)) /\ SF_vars(Serve(c)) /\ SF_vars(Receive(c))

-----------------------------------------------------------------------------
(* Properties. *)

(* A tool completes only after each of its rounds has been answered in full by
   some call, and gives out the token of a round only after the round before
   it was: with no state of its own, the token alone keeps the order
   (GatewayState._mcp_input_required_tool). *)
RoundsPrecede ==
  /\ \A tool \in completed : \A k \in DOMAIN Rounds[tool] : <<tool, k>> \in answered
  /\ \A token \in issued : token[2] > 1 => <<token[1], token[2] - 1>> \in answered

(* A client that answers what it is asked and sends back the token it was given
   is told of its tool's completion, whatever is lost on the way and whatever
   other clients do, unless the tool asks for ever (the same). *)
ObedientClientsFinish ==
  \A c \in Clients : wants[c] \notin Endless ~> holds[c].kind = "complete"
=============================================================================
