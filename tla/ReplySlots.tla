------------------------------ MODULE ReplySlots ------------------------------
(***************************************************************************)
(* What the gateway promises of the requests that it sends to MCP clients. *)
(* Each has a number of its own and a slot that only the session it was    *)
(* sent to can fill. What the slot holds when it is closed may be told to  *)
(* the tool that asked, once; a slot that is closed takes nothing more.    *)
(***************************************************************************)
EXTENDS Naturals

CONSTANTS Requests,    \* the numbers of requests
          Sessions,
          Responses,   \* responses that a client may give
          Rejections,  \* those of them that reject the request
          NoResponse

VARIABLES slot, told

Unused == [state |-> "unused"]
Closed == [state |-> "closed"]
OpenSlot(s, r) == [state |-> "open", owner |-> s, response |-> r]

IsOpen(i) == slot[i].state = "open"

Init ==
  /\ slot = [i \in Requests |-> Unused]
  /\ told = [i \in Requests |-> NoResponse]

(* Numbers are given in turn. *)
Open(i, s) ==
  /\ slot[i] = Unused
  /\ \A j \in Requests : j < i => slot[j] # Unused
  /\ slot' = [slot EXCEPT ![i] = OpenSlot(s, NoResponse)]
  /\ UNCHANGED told

(* A later response takes the place of an earlier one. *)
Fill(i, r) ==
  /\ IsOpen(i)
  /\ r.from = slot[i].owner
  /\ slot' = [slot EXCEPT ![i] = OpenSlot(r.from, r)]
  /\ UNCHANGED told

Tell(i) ==
  /\ IsOpen(i)
  /\ slot[i].response \in Responses \ Rejections
  /\ told' = [told EXCEPT ![i] = slot[i].response]
  /\ slot' = [slot EXCEPT ![i] = Closed]

(* A request is given up. *)
Abandon(i) ==
  /\ IsOpen(i)
  /\ slot' = [slot EXCEPT ![i] = Closed]
  /\ UNCHANGED told

(* A session ends with everything that was asked of it. *)
End(s) ==
  /\ slot' = [i \in Requests |->
                IF IsOpen(i) /\ slot[i].owner = s THEN Closed ELSE slot[i]]
  /\ UNCHANGED told

Next == \/ \E i \in Requests : \/ \E s \in Sessions : Open(i, s)
                               \/ \E r \in Responses : Fill(i, r)
                               \/ Tell(i)
                               \/ Abandon(i)
        \/ \E s \in Sessions : End(s)

Spec == Init /\ [][Next]_<<slot, told>>
=============================================================================
