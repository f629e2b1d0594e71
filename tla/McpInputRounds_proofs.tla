----------------------- MODULE McpInputRounds_proofs -----------------------
(***************************************************************************)
(* Proofs about the input-required tools, for any clients and any of the   *)
(* tools.                                                                  *)
(*                                                                         *)
(* The gateway keeps nothing between two calls, so what it knows of the    *)
(* rounds before is what a token says.  The invariant is that a token is   *)
(* only ever sent by who has seen it, and that one that was given out for  *)
(* a later round is evidence of the round before.                          *)
(***************************************************************************)
EXTENDS McpInputRounds, TLAPS

Calls == UNION {Call(tool) : tool \in Tools}

Answers == [kind  : {"none", "ask", "complete", "E_MCP", "E_MCP_STATE"},
            round : 0 .. 2,
            token : Tokens]

(* Every variable stays in its range. *)
TypeOK ==
  /\ wants \in [Clients -> Tools]
  /\ call \in [Clients -> Calls \cup {NoCall}]
  /\ reply \in [Clients -> Answers]
  /\ holds \in [Clients -> Answers]
  /\ issued \subseteq Tokens
  /\ answered \subseteq Tools \X (1 .. 2)
  /\ completed \subseteq Tools

(* A client calls the tool it wants, and is asked for a round of that tool. *)
Asks(c, answer) == answer.kind = "ask" => answer.round \in DOMAIN Rounds[wants[c]]

OwnTool ==
  \A c \in Clients : /\ call[c] # NoCall => call[c].tool = wants[c]
                     /\ Asks(c, reply[c])
                     /\ Asks(c, holds[c])

(* What is sent and what is held has been seen. *)
Seen ==
  /\ NoToken \in issued
  /\ \A c \in Clients : {call[c].token, reply[c].token, holds[c].token} \subseteq issued

IndInv == TypeOK /\ OwnTool /\ Seen /\ RoundsPrecede

-----------------------------------------------------------------------------
(* A tool has one or two rounds, and only one that signs has two. *)
LEMMA RoundsTable ==
  ASSUME NEW tool \in Tools
  PROVE  /\ tool \in DOMAIN Rounds
         /\ Len(Rounds[tool]) \in 1 .. 2
         /\ DOMAIN Rounds[tool] = 1 .. Len(Rounds[tool])
         /\ Len(Rounds[tool]) = 2 => tool \in Signed
  <1>1. tool \in DOMAIN Rounds
    BY ToolsAssumption
  <1>2. DOMAIN Rounds = {"elicitation", "sampling", "list_roots", "prompt", "request_state",
                         "tampered_state", "multiple_inputs", "multi_round", "capabilities"}
    BY DEF Rounds
  <1>3. CASE tool \in {"elicitation", "sampling", "list_roots", "prompt"}
    <2>1. \E key : Rounds[tool] = << <<key>> >>
      BY <1>3 DEF Rounds
    <2> QED BY <1>1, <2>1
  <1>4. CASE tool \in {"request_state", "tampered_state", "multiple_inputs", "capabilities"}
    <2>1. \E keys : Rounds[tool] = << keys >>
      BY <1>4 DEF Rounds
    <2> QED BY <1>1, <2>1
  <1>5. CASE tool = "multi_round"
    <2>1. Rounds[tool] = << <<"step1">>, <<"step2">> >>
      BY <1>5 DEF Rounds
    <2> QED BY <1>1, <1>5, <2>1 DEF Signed
  <1> QED BY <1>1, <1>2, <1>3, <1>4, <1>5

(* A token says of which tool and which round it is; the two others are of none. *)
LEMMA TokenKinds ==
  ASSUME NEW token \in Tokens
  PROVE  /\ token[2] \in 0 .. 2
         /\ token[2] > 1 => token = <<token[1], 2>> /\ token[1] \in Signed
  BY DEF Tokens, NoToken, Altered

(* The tokens that are given out are of the tool and the round they are for. *)
LEMMA TokenOf ==
  ASSUME NEW tool \in Tools, NEW k \in DOMAIN Rounds[tool]
  PROVE  /\ Token(tool, k) \in Tokens
         /\ k \in 1 .. 2
         /\ Token(tool, k)[2] > 1 => Token(tool, k) = <<tool, 2>> /\ k = 2
         /\ k = 2 => Token(tool, k) = <<tool, 2>>
  BY RoundsTable DEF Token, Tokens, NoToken

(* The round that a call answers is one of its tool's, and the second only if
   the call sends the token of the second. *)
LEMMA RoundAnswered ==
  ASSUME NEW c, c.tool \in Tools, RoundOf(c) # 0
  PROVE  /\ RoundOf(c) \in DOMAIN Rounds[c.tool]
         /\ RoundOf(c) = 2 => c.token = <<c.tool, 2>>
  <1>1. CASE c.tool \notin Signed
    BY <1>1, RoundsTable DEF RoundOf
  <1>2. CASE c.tool \in Signed
    <2> DEFINE fits == {k \in DOMAIN Rounds[c.tool] : c.token = Token(c.tool, k)}
    <2>1. fits # {} /\ RoundOf(c) = CHOOSE k \in fits : TRUE
      BY <1>2 DEF RoundOf
    <2>2. RoundOf(c) \in fits
      BY <2>1
    <2> QED BY <2>2, TokenOf
  <1> QED BY <1>1, <1>2

(* What a judgement of a round amounts to. *)
LEMMA JudgeSays ==
  ASSUME NEW tool \in Tools, NEW k \in DOMAIN Rounds[tool], NEW values
  PROVE  \/ /\ Judge(tool, k, values) = Answer("complete", 0, NoToken)
            /\ k = Len(Rounds[tool])
            /\ \A key \in KeysOf(tool, k) : Present(values, key)
         \/ /\ Judge(tool, k, values) = Ask(tool, k + 1)
            /\ k + 1 \in DOMAIN Rounds[tool]
            /\ \A key \in KeysOf(tool, k) : Present(values, key)
         \/ Judge(tool, k, values) = Ask(tool, k)
         \/ Judge(tool, k, values) = Refuse("E_MCP")
  <1> DEFINE keys == Rounds[tool][k]
             bad  == {i \in DOMAIN keys : ~Present(values, keys[i])}
  <1>1. CASE bad = {}
    <2>1. \A key \in KeysOf(tool, k) : Present(values, key)
      BY <1>1 DEF KeysOf, Range
    <2>2. Judge(tool, k, values) = IF k < Len(Rounds[tool]) THEN Ask(tool, k + 1)
                                   ELSE Answer("complete", 0, NoToken)
      BY <1>1 DEF Judge
    <2>3. k < Len(Rounds[tool]) => k + 1 \in DOMAIN Rounds[tool]
      BY RoundsTable
    <2>4. ~(k < Len(Rounds[tool])) => k = Len(Rounds[tool])
      BY RoundsTable
    <2> QED BY <2>1, <2>2, <2>3, <2>4
  <1>2. CASE bad # {}
    BY <1>2 DEF Judge
  <1> QED BY <1>1, <1>2

(* What the gateway's answer to a call says, of whichever client it is: a tool
   is completed, and a later round asked for, only by a call that answers the
   round before in full. *)
LEMMA AnswerSays ==
  ASSUME NEW c, c.tool \in Tools
  PROVE  /\ ToolAnswer(c) \in Answers
         /\ ToolAnswer(c).kind = "ask" => ToolAnswer(c).round \in DOMAIN Rounds[c.tool]
         /\ ToolAnswer(c).kind = "complete" =>
              \E k \in DOMAIN Rounds[c.tool] : /\ k = Len(Rounds[c.tool])
                                               /\ <<c.tool, k>> \in Full(c)
                                               /\ k = 2 => c.token = <<c.tool, 2>>
         /\ ToolAnswer(c).token[2] > 1 =>
              \/ ToolAnswer(c).token = c.token
              \/ ToolAnswer(c).token = <<c.tool, 2>> /\ <<c.tool, 1>> \in Full(c)
  <1> DEFINE Good(a) ==
        /\ a \in Answers
        /\ a.kind = "ask" => a.round \in DOMAIN Rounds[c.tool]
        /\ a.kind = "complete" =>
             \E k \in DOMAIN Rounds[c.tool] : /\ k = Len(Rounds[c.tool])
                                              /\ <<c.tool, k>> \in Full(c)
                                              /\ k = 2 => c.token = <<c.tool, 2>>
        /\ a.token[2] > 1 => \/ a.token = c.token
                             \/ a.token = <<c.tool, 2>> /\ <<c.tool, 1>> \in Full(c)
  <1>1. Good(Refuse("E_MCP")) /\ Good(Refuse("E_MCP_STATE"))
    BY DEF Refuse, Answer, NoToken, Answers, Tokens
  <1>2. ASSUME NEW k \in DOMAIN Rounds[c.tool],
               k = 2 => \/ c.token = <<c.tool, 2>>
                        \/ <<c.tool, 1>> \in Full(c)
        PROVE  Good(Ask(c.tool, k))
    <2>1. /\ Token(c.tool, k) \in Tokens /\ k \in 1 .. 2
          /\ Token(c.tool, k)[2] > 1 => Token(c.tool, k) = <<c.tool, 2>> /\ k = 2
      BY TokenOf
    <2>2. /\ Ask(c.tool, k).kind = "ask" /\ Ask(c.tool, k).round = k
          /\ Ask(c.tool, k).token = Token(c.tool, k)
          /\ Ask(c.tool, k) = [kind |-> "ask", round |-> k, token |-> Token(c.tool, k)]
      BY DEF Ask, Answer
    <2>3. Ask(c.tool, k) \in Answers
      BY <2>1, <2>2 DEF Answers
    <2> QED BY <1>2, <2>1, <2>2, <2>3
  <1>3. ASSUME NEW k \in DOMAIN Rounds[c.tool], k = 2 => c.token = <<c.tool, 2>>
        PROVE  Good(Judge(c.tool, k, c.values))
    <2>1. (\A key \in KeysOf(c.tool, k) : Present(c.values, key)) => <<c.tool, k>> \in Full(c)
      BY DEF Full
    <2>2. CASE Judge(c.tool, k, c.values) = Ask(c.tool, k)
      BY <1>2, <1>3, <2>2
    <2>3. CASE Judge(c.tool, k, c.values) = Refuse("E_MCP")
      BY <1>1, <2>3
    <2>4. CASE /\ Judge(c.tool, k, c.values) = Ask(c.tool, k + 1)
               /\ k + 1 \in DOMAIN Rounds[c.tool]
               /\ <<c.tool, k>> \in Full(c)
      <3>1. k + 1 = 2 => k = 1
        BY RoundsTable
      <3> QED BY <1>2, <2>4, <3>1
    <2>5. CASE /\ Judge(c.tool, k, c.values) = Answer("complete", 0, NoToken)
               /\ k = Len(Rounds[c.tool])
               /\ <<c.tool, k>> \in Full(c)
      <3>1. Answer("complete", 0, NoToken) \in Answers
        BY DEF Answer, Answers, Tokens, NoToken
      <3>2. /\ Answer("complete", 0, NoToken).kind # "ask"
            /\ ~(Answer("complete", 0, NoToken).token[2] > 1)
        BY DEF Answer, NoToken
      <3>3. \E j \in DOMAIN Rounds[c.tool] : /\ j = Len(Rounds[c.tool])
                                             /\ <<c.tool, j>> \in Full(c)
                                             /\ j = 2 => c.token = <<c.tool, 2>>
        BY <1>3, <2>5
      <3>4. Good(Answer("complete", 0, NoToken))
        BY <3>1, <3>2, <3>3, Zenon
      <3> HIDE DEF Good
      <3> QED BY <2>5, <3>4
    <2> HIDE DEF Good
    <2> QED BY <2>1, <2>2, <2>3, <2>4, <2>5, JudgeSays
  <1>4. 1 \in DOMAIN Rounds[c.tool]
    BY RoundsTable
  <1>5. Good(Ask(c.tool, 1))
    <2> HIDE DEF Good
    <2> QED BY <1>2, <1>4
  <1>6. RoundOf(c) # 0 => Good(Judge(c.tool, RoundOf(c), c.values))
    <2> SUFFICES ASSUME RoundOf(c) # 0 PROVE Good(Judge(c.tool, RoundOf(c), c.values))
      OBVIOUS
    <2> HIDE DEF Good
    <2> QED BY <1>3, RoundAnswered
  <1>7. Good(ToolAnswer(c))
    <2> HIDE DEF Good
    <2> QED BY <1>1, <1>5, <1>6 DEF ToolAnswer
  <1> QED BY <1>7

(* What a call that is served, a client's or any other, does to what is known. *)
LEMMA HandleKeeps ==
  ASSUME IndInv, NEW c, c.tool \in Tools, c.token \in issued, Handle(c)
  PROVE  /\ issued' \subseteq Tokens
         /\ answered' \subseteq Tools \X (1 .. 2)
         /\ completed' \subseteq Tools
         /\ issued \subseteq issued' /\ ToolAnswer(c).token \in issued'
         /\ RoundsPrecede'
  <1> DEFINE a == ToolAnswer(c)
  <1>0. /\ issued \subseteq Tokens /\ answered \subseteq Tools \X (1 .. 2)
        /\ completed \subseteq Tools /\ RoundsPrecede
    BY DEF IndInv, TypeOK
  <1>1. /\ issued' = issued \cup {a.token}
        /\ answered' = answered \cup Full(c)
        /\ completed' = completed \cup IF a.kind = "complete" THEN {c.tool} ELSE {}
    BY DEF Handle
  <1>2. a.token \in Tokens
    BY AnswerSays DEF Answers
  <1>3. Full(c) \subseteq Tools \X (1 .. 2)
    BY RoundsTable DEF Full
  <1>4. \A tool \in completed' : \A k \in DOMAIN Rounds[tool] : <<tool, k>> \in answered'
    <2>1. CASE a.kind # "complete"
      BY <1>0, <1>1, <2>1 DEF RoundsPrecede
    <2>2. CASE a.kind = "complete"
      <3>1. PICK k \in DOMAIN Rounds[c.tool] :
              /\ k = Len(Rounds[c.tool])
              /\ <<c.tool, k>> \in Full(c)
              /\ k = 2 => c.token = <<c.tool, 2>>
        BY <2>2, AnswerSays
      <3>2. k = 2 => <<c.tool, 1>> \in answered
        BY <1>0, <3>1 DEF RoundsPrecede
      <3>3. \A j \in DOMAIN Rounds[c.tool] : <<c.tool, j>> \in answered'
        BY <1>1, <3>1, <3>2, RoundsTable
      <3> QED BY <1>0, <1>1, <3>3 DEF RoundsPrecede
    <2> QED BY <2>1, <2>2
  <1>5. \A token \in issued' : token[2] > 1 => <<token[1], token[2] - 1>> \in answered'
    <2> SUFFICES ASSUME NEW token \in issued', token[2] > 1
                 PROVE  <<token[1], token[2] - 1>> \in answered'
      OBVIOUS
    <2>1. CASE token \in issued
      BY <1>0, <1>1, <2>1 DEF RoundsPrecede
    <2>2. CASE token = a.token
      <3>1. CASE token = c.token
        BY <1>0, <1>1, <3>1 DEF RoundsPrecede
      <3>2. CASE token = <<c.tool, 2>> /\ <<c.tool, 1>> \in Full(c)
        BY <1>1, <3>2
      <3> QED BY <2>2, <3>1, <3>2, AnswerSays
    <2> QED BY <1>1, <2>1, <2>2
  <1> QED BY <1>0, <1>1, <1>2, <1>3, <1>4, <1>5, AnswerSays DEF RoundsPrecede

-----------------------------------------------------------------------------

LEMMA InitInv == Init => IndInv
  <1> SUFFICES ASSUME Init PROVE IndInv
    OBVIOUS
  <1>1. NoToken \in Tokens /\ Altered \in Tokens /\ NoToken[2] = 0 /\ Altered[2] = 0
    BY DEF Tokens, NoToken, Altered
  <1>2. /\ NoAnswer \in Answers /\ NoAnswer.kind # "ask" /\ NoAnswer.token = NoToken
        /\ NoCall.token = NoToken
    BY <1>1 DEF NoAnswer, Answer, Answers, NoCall
  <1>3. TypeOK
    BY <1>1, <1>2 DEF Init, TypeOK
  <1>4. OwnTool /\ Seen
    BY <1>1, <1>2 DEF Init, OwnTool, Seen, Asks
  <1>5. RoundsPrecede
    BY <1>1 DEF Init, RoundsPrecede
  <1> QED BY <1>3, <1>4, <1>5 DEF IndInv

(* What a client that does as it is told sends is a call of its tool, with the
   token it holds. *)
LEMMA NextCallSays ==
  ASSUME IndInv, NEW c \in Clients, holds[c].kind \in {"none", "ask"}
  PROVE  /\ NextCall(wants[c], holds[c]) \in Calls
         /\ NextCall(wants[c], holds[c]).tool = wants[c]
         /\ NextCall(wants[c], holds[c]).token \in issued
  <1> DEFINE tool == wants[c]  held == holds[c]
  <1>1. /\ tool \in Tools /\ held \in Answers
        /\ held.token \in issued /\ held.token \in Tokens /\ NoToken \in issued
    BY DEF IndInv, TypeOK, Seen, Answers
  <1>2. CASE held.kind = "none"
    <2>1. NextCall(tool, held)
            = [tool |-> tool, given |-> "absent", values |-> << >>, token |-> NoToken]
      BY <1>2 DEF NextCall, NoCall
    <2>2. NextCall(tool, held) \in Call(tool)
      BY <2>1 DEF Call, Tokens
    <2> QED BY <1>1, <2>1, <2>2 DEF Calls
  <1>3. CASE held.kind = "ask"
    <2> DEFINE keys == KeysOf(tool, held.round)
    <2>1. NextCall(tool, held)
            = [tool |-> tool, given |-> "object", token |-> held.token,
               values |-> [key \in keys |-> "object"]]
      BY <1>3 DEF NextCall
    <2>2. keys \in SUBSET Keys(tool)
      BY <1>3 DEF IndInv, OwnTool, Asks, Keys
    <2>3. [key \in keys |-> "object"] \in [keys -> {"object", "other"}]
      OBVIOUS
    <2>4. [key \in keys |-> "object"]
            \in UNION {[ks -> {"object", "other"}] : ks \in SUBSET Keys(tool)}
      BY <2>2, <2>3
    <2> HIDE DEF keys
    <2>5. NextCall(tool, held) \in Call(tool)
      BY <1>1, <2>1, <2>4 DEF Call
    <2> QED BY <1>1, <2>1, <2>5 DEF Calls
  <1> QED BY <1>2, <1>3


LEMMA NextInv == IndInv /\ [Next]_vars => IndInv'
  <1> SUFFICES ASSUME IndInv, [Next]_vars PROVE IndInv'
    OBVIOUS
  <1> USE DEF IndInv
  <1>1. /\ NoAnswer \in Answers /\ NoAnswer.kind # "ask" /\ NoAnswer.token = NoToken
        /\ NoCall.token = NoToken
    BY DEF NoAnswer, Answer, Answers, NoCall, Tokens
  <1>2. ASSUME NEW c \in Clients, Send(c) PROVE IndInv'
    <2> DEFINE sent == NextCall(wants[c], holds[c])
    <2>1. /\ call[c] = NoCall /\ holds[c].kind \in {"none", "ask"}
          /\ call' = [call EXCEPT ![c] = sent]
          /\ UNCHANGED <<wants, reply, holds, issued, answered, completed>>
      BY <1>2 DEF Send
    <2>2. sent \in Calls /\ sent.tool = wants[c] /\ sent.token \in issued
      BY <2>1, NextCallSays
    <2> HIDE DEF sent
    <2>3. TypeOK'
      BY <2>1, <2>2 DEF TypeOK
    <2>4. OwnTool' /\ Seen'
      BY <2>1, <2>2 DEF TypeOK, OwnTool, Asks, Seen
    <2> QED BY <2>1, <2>3, <2>4 DEF RoundsPrecede
  <1>3. ASSUME NEW c \in Clients, Serve(c) PROVE IndInv'
    <2> DEFINE answer == ToolAnswer(call[c])
    <2>1. /\ call[c] # NoCall /\ Handle(call[c])
          /\ reply' = [reply EXCEPT ![c] = answer]
          /\ UNCHANGED <<wants, call, holds>>
      BY <1>3 DEF Serve
    <2>2. call[c].tool = wants[c] /\ call[c].tool \in Tools /\ call[c].token \in issued
      BY <2>1 DEF TypeOK, OwnTool, Seen
    <2>3. /\ answer \in Answers
          /\ answer.kind = "ask" => answer.round \in DOMAIN Rounds[wants[c]]
      BY <2>2, AnswerSays
    <2>4. /\ issued' \subseteq Tokens /\ answered' \subseteq Tools \X (1 .. 2)
          /\ completed' \subseteq Tools
          /\ issued \subseteq issued' /\ answer.token \in issued'
          /\ RoundsPrecede'
      BY <2>1, <2>2, HandleKeeps
    <2> HIDE DEF answer
    <2>5. TypeOK'
      BY <2>1, <2>3, <2>4 DEF TypeOK
    <2>6. OwnTool'
      BY <2>1, <2>3 DEF TypeOK, OwnTool, Asks
    <2>7. Seen'
      BY <2>1, <2>4 DEF TypeOK, Seen
    <2> QED BY <2>4, <2>5, <2>6, <2>7
  <1>4. ASSUME NEW c \in Clients, Receive(c) PROVE IndInv'
    <2>1. /\ holds' = [holds EXCEPT ![c] = reply[c]]
          /\ call' = [call EXCEPT ![c] = NoCall]
          /\ reply' = [reply EXCEPT ![c] = NoAnswer]
          /\ UNCHANGED <<wants, issued, answered, completed>>
      BY <1>4 DEF Receive
    <2>2. TypeOK'
      BY <1>1, <2>1 DEF TypeOK
    <2>3. OwnTool'
      BY <1>1, <2>1 DEF TypeOK, OwnTool, Asks
    <2>4. Seen'
      BY <1>1, <2>1 DEF TypeOK, Seen
    <2> QED BY <2>1, <2>2, <2>3, <2>4 DEF RoundsPrecede
  <1>5. ASSUME NEW c \in Clients, Lose(c) PROVE IndInv'
    <2>1. /\ call' = [call EXCEPT ![c] = NoCall]
          /\ reply' = [reply EXCEPT ![c] = NoAnswer]
          /\ UNCHANGED <<wants, holds, issued, answered, completed>>
      BY <1>5 DEF Lose
    <2>2. TypeOK'
      BY <1>1, <2>1 DEF TypeOK
    <2>3. OwnTool'
      BY <1>1, <2>1 DEF TypeOK, OwnTool, Asks
    <2>4. Seen'
      BY <1>1, <2>1 DEF TypeOK, Seen
    <2> QED BY <2>1, <2>2, <2>3, <2>4 DEF RoundsPrecede
  <1>6. ASSUME ServeAnother PROVE IndInv'
    <2>1. PICK tool \in Tools : \E c \in Call(tool) : c.token \in issued /\ Handle(c)
      BY <1>6 DEF ServeAnother
    <2>2. UNCHANGED <<wants, call, reply, holds>>
      BY <1>6 DEF ServeAnother
    <2>3. PICK c \in Call(tool) : c.token \in issued /\ Handle(c)
      BY <2>1
    <2>4. c.tool = tool
      BY DEF Call
    <2>5. /\ issued' \subseteq Tokens /\ answered' \subseteq Tools \X (1 .. 2)
          /\ completed' \subseteq Tools
          /\ issued \subseteq issued'
          /\ RoundsPrecede'
      BY <2>3, <2>4, HandleKeeps
    <2> QED BY <2>2, <2>5 DEF TypeOK, OwnTool, Asks, Seen
  <1>7. CASE UNCHANGED vars
    BY <1>7 DEF vars, TypeOK, OwnTool, Asks, Seen, RoundsPrecede
  <1> QED BY <1>2, <1>3, <1>4, <1>5, <1>6, <1>7 DEF Next

(* The inductive invariant holds whatever is sent and lost. *)
THEOREM InputRoundsInvariant == Spec => []IndInv
  BY InitInv, NextInv, PTL DEF Spec

(* Every variable stays in its range: a client is only asked for rounds that
   its tool has, so every call it makes is one that the tool can judge. *)
THEOREM TypeCorrect == Spec => []TypeOK
  BY InputRoundsInvariant, PTL DEF IndInv

(* For any clients and any of the tools: no tool completes before each of its
   rounds has been answered in full, and the token of a round is never given
   out before the round before it was, although the gateway keeps nothing
   between two calls. *)
THEOREM RoundsAlwaysPrecede == Spec => []RoundsPrecede
  BY InputRoundsInvariant, PTL DEF IndInv
=============================================================================
