------------------------- MODULE IdempotentCreation -------------------------
(***************************************************************************)
(* What an idempotency key promises to the clients of SendMessage.         *)
(*                                                                         *)
(* A key is bound to the first request that is created under it and keeps  *)
(* that request for ever.  A client that is granted a task was asking for  *)
(* exactly the bound request, a client that is told of a collision was     *)
(* asking for another one, and a client may also be told that nothing was  *)
(* created.  How the handlers that race for a key are kept apart is left   *)
(* to the module that implements this one.                                 *)
(***************************************************************************)
CONSTANTS Clients,   \* whoever asks
          Keys,      \* idempotency keys
          Requests,  \* requests that carry a key
          KeyOf(_),  \* the key of a request
          Unbound    \* the value of a key that no request has taken

VARIABLES bound,     \* the request each key is bound to
          answer     \* the last answer each client has received

vars == <<bound, answer>>

Silent == [code |-> "none", request |-> Unbound]
Told(code, r) == [code |-> code, request |-> r]

Init == /\ bound = [k \in Keys |-> Unbound]
        /\ answer = [c \in Clients |-> Silent]

(* The key is taken and the creator is given its task, in one step. *)
Create(c, r) == /\ bound[KeyOf(r)] = Unbound
                /\ bound' = [bound EXCEPT ![KeyOf(r)] = r]
                /\ answer' = [answer EXCEPT ![c] = Told("granted", r)]

(* A replay of the bound request is granted the task that exists. *)
Replay(c, r) == /\ bound[KeyOf(r)] = r
                /\ answer' = [answer EXCEPT ![c] = Told("granted", r)]
                /\ UNCHANGED bound

(* Another request under a taken key is refused. *)
Collide(c, r) == /\ bound[KeyOf(r)] \notin {Unbound, r}
                 /\ answer' = [answer EXCEPT ![c] = Told("collision", r)]
                 /\ UNCHANGED bound

(* Nothing is promised to a client whose request failed. *)
Fail(c, r) == /\ answer' = [answer EXCEPT ![c] = Told("failed", r)]
              /\ UNCHANGED bound

(* The client goes on to some business that has no key. *)
Forget(c) == /\ answer' = [answer EXCEPT ![c] = Silent]
             /\ UNCHANGED bound

Next == \E c \in Clients :
          \/ Forget(c)
          \/ \E r \in Requests :
               Create(c, r) \/ Replay(c, r) \/ Collide(c, r) \/ Fail(c, r)

Spec == Init /\ [][Next]_vars
=============================================================================
