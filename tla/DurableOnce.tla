---------------------------- MODULE DurableOnce ----------------------------
(***************************************************************************)
(* What a durable once-only record promises to its clients.                *)
(*                                                                         *)
(* Under each key at most one request is ever recorded, together with one  *)
(* value.  A client is told a value only after it was recorded, and every  *)
(* client that asks again with the same request is told the same value; a  *)
(* client that fails learns nothing and leaves the record as it was, or    *)
(* with its own value in it.                                               *)
(***************************************************************************)
CONSTANTS Clients, Keys, Requests, KeyOf(_), Values,
          Nothing,  \* neither a record nor a value
          Found     \* the contents the record may start with

VARIABLES recorded,  \* what each key holds
          told       \* what each client was last told

vars == <<recorded, told>>

Message(kind, r, v) == [kind |-> kind, request |-> r, value |-> v]
Silence == Message("none", Nothing, Nothing)

(* The record may be empty at first or hold what was recorded earlier. *)
Init == /\ recorded \in Found
        /\ told = [c \in Clients |-> Silence]

Record(r, v) == /\ recorded[KeyOf(r)] = Nothing
                /\ recorded' = [recorded EXCEPT ![KeyOf(r)] =
                                  [request |-> r, value |-> v]]
                /\ UNCHANGED told

Tell(c, r) == /\ recorded[KeyOf(r)] # Nothing
              /\ recorded[KeyOf(r)].request = r
              /\ told' = [told EXCEPT ![c] =
                            Message("value", r, recorded[KeyOf(r)].value)]
              /\ UNCHANGED recorded

Refuse(c, r) == /\ recorded[KeyOf(r)] # Nothing
                /\ recorded[KeyOf(r)].request # r
                /\ told' = [told EXCEPT ![c] = Message("collision", r, Nothing)]
                /\ UNCHANGED recorded

Lose(c) == /\ told' = [told EXCEPT ![c] = Silence]
           /\ UNCHANGED recorded

Next == \/ \E r \in Requests, v \in Values : Record(r, v)
        \/ \E c \in Clients : \/ Lose(c)
                              \/ \E r \in Requests : Tell(c, r) \/ Refuse(c, r)

Spec == Init /\ [][Next]_vars
=============================================================================
