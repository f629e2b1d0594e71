----------------------- MODULE McpSubscriptions_proofs -----------------------
(***************************************************************************)
(* What McpSubscriptions guarantees for any subscribers, publishers, kinds *)
(* of lists and capacity of a queue.                                       *)
(***************************************************************************)
EXTENDS McpSubscriptions, SequenceTheorems, TLAPS

(* A queue holds what its subscriber asked for and nothing else. *)
QueueHoldsWanted == \A s \in Subscribers : queue[s] \in Seq(filters[s])

(* Nothing is asked for or queued before a subscription is made. *)
IdleAskedNothing ==
  \A s \in Subscribers : pc[s] = "idle" => filters[s] = {} /\ queue[s] = << >>

IndInv == /\ TypeOK
          /\ OpenIsServed
          /\ QueueHoldsWanted
          /\ IdleAskedNothing

-----------------------------------------------------------------------------

LEMMA InitInv == Init => IndInv
<1> SUFFICES ASSUME Init PROVE IndInv
  OBVIOUS
<1>1. TypeOK
  BY SubscriptionsAssumption DEF Init, TypeOK, Pc
<1>2. OpenIsServed /\ QueueHoldsWanted /\ IdleAskedNothing
  BY DEF Init, OpenIsServed, QueueHoldsWanted, IdleAskedNothing
<1> QED
  BY <1>1, <1>2 DEF IndInv

(* The steps that change neither a queue nor what is asked for, of a thread that
   serves its subscription. *)
LEMMA MoveStep ==
  ASSUME IndInv, NEW s \in Subscribers, NEW next \in Pc \ {"idle", "gone"}, Goto(s, next),
         UNCHANGED <<open, filters, queue, publisher>>,
         writing' \in [Subscribers -> Kinds \cup {NoKind}], expired' \in [Subscribers -> BOOLEAN]
  PROVE  IndInv'
<1> USE DEF IndInv
<1>1. TypeOK'
  BY DEF TypeOK, Goto, publisher
<1>2. OpenIsServed'
  BY DEF TypeOK, OpenIsServed, Goto, Pc
<1>3. QueueHoldsWanted'
  BY DEF QueueHoldsWanted
<1>4. IdleAskedNothing'
  BY DEF TypeOK, IdleAskedNothing, Goto
<1> QED
  BY <1>1, <1>2, <1>3, <1>4

(* A hint is put into a queue only if it was asked for and there is room. *)
LEMMA PutStep ==
  ASSUME IndInv, NEW p \in Publishers, NEW s \in Subscribers, Put(p, s)
  PROVE  IndInv'
<1> USE DEF IndInv
<1>1. CASE kind[p] \in filters[s] /\ Len(queue[s]) < Capacity
  <2>1. queue' = [queue EXCEPT ![s] = Append(queue[s], kind[p])]
    BY <1>1 DEF Put
  <2>2. queue[s] \in Seq(Kinds) /\ queue[s] \in Seq(filters[s]) /\ kind[p] \in Kinds
    BY <1>1 DEF TypeOK, QueueHoldsWanted
  <2>3. /\ Append(queue[s], kind[p]) \in Seq(Kinds)
        /\ Append(queue[s], kind[p]) \in Seq(filters[s])
        /\ Len(Append(queue[s], kind[p])) = Len(queue[s]) + 1
    BY <1>1, <2>2, AppendProperties
  <2>4. Len(queue[s]) + 1 <= Capacity
    BY <1>1, <2>2, SubscriptionsAssumption, LenProperties
  <2>5. TypeOK'
    BY <2>1, <2>3, <2>4 DEF TypeOK, Put, subscriber
  <2>6. QueueHoldsWanted'
    BY <2>1, <2>3 DEF TypeOK, QueueHoldsWanted, Put, subscriber
  <2>7. pc[s] # "idle"
    BY <1>1 DEF IdleAskedNothing
  <2>8. IdleAskedNothing' /\ OpenIsServed'
    BY <2>1, <2>7 DEF TypeOK, IdleAskedNothing, OpenIsServed, Put, subscriber
  <2> QED
    BY <2>5, <2>6, <2>8
<1>2. CASE ~(kind[p] \in filters[s] /\ Len(queue[s]) < Capacity)
  <2>1. queue' = queue
    BY <1>2 DEF Put
  <2>2. TypeOK'
    BY <2>1 DEF TypeOK, Put, subscriber
  <2> QED
    BY <2>1, <2>2
       DEF OpenIsServed, QueueHoldsWanted, IdleAskedNothing, Put, subscriber
<1> QED
  BY <1>1, <1>2

LEMMA TakeStep ==
  ASSUME IndInv, NEW s \in Subscribers, TakeHint(s)
  PROVE  IndInv'
<1> USE DEF IndInv
<1>1. queue[s] \in Seq(Kinds) /\ queue[s] \in Seq(filters[s]) /\ queue[s] # << >>
  BY DEF TypeOK, QueueHoldsWanted, TakeHint
<1>2. /\ Head(queue[s]) \in Kinds
      /\ Tail(queue[s]) \in Seq(Kinds)
      /\ Tail(queue[s]) \in Seq(filters[s])
      /\ Len(Tail(queue[s])) = Len(queue[s]) - 1
      /\ Len(queue[s]) \in Nat
  BY <1>1, HeadTailProperties, LenProperties
<1>3. Len(queue[s]) - 1 <= Capacity
  BY <1>2, SubscriptionsAssumption DEF TypeOK
<1>4. TypeOK'
  BY <1>2, <1>3 DEF TypeOK, TakeHint, Goto, Pc, publisher
<1>5. OpenIsServed'
  BY DEF TypeOK, OpenIsServed, TakeHint, Goto
<1>6. QueueHoldsWanted' /\ IdleAskedNothing'
  BY <1>2 DEF TypeOK, QueueHoldsWanted, IdleAskedNothing, TakeHint, Goto
<1> QED
  BY <1>4, <1>5, <1>6

LEMMA ListenStep ==
  ASSUME IndInv, NEW s \in Subscribers, NEW wanted \in SUBSET Kinds, Listen(s, wanted)
  PROVE  IndInv'
<1> USE DEF IndInv
<1>1. queue[s] = << >> /\ << >> \in Seq(wanted)
  BY DEF IdleAskedNothing, Listen
<1>2. TypeOK'
  BY DEF TypeOK, Listen, Goto, Pc, publisher
<1>3. OpenIsServed'
  BY DEF TypeOK, OpenIsServed, Listen, Goto
<1>4. QueueHoldsWanted' /\ IdleAskedNothing'
  BY <1>1 DEF TypeOK, QueueHoldsWanted, IdleAskedNothing, Listen, Goto
<1> QED
  BY <1>2, <1>3, <1>4

LEMMA CloseStep ==
  ASSUME IndInv, NEW s \in Subscribers, Close(s)
  PROVE  IndInv'
<1> USE DEF IndInv
<1>1. TypeOK'
  BY DEF TypeOK, Close, Goto, Pc, publisher
<1>2. OpenIsServed'
  BY DEF TypeOK, OpenIsServed, Close, Goto
<1>3. QueueHoldsWanted' /\ IdleAskedNothing'
  BY DEF TypeOK, QueueHoldsWanted, IdleAskedNothing, Close, Goto
<1> QED
  BY <1>1, <1>2, <1>3

LEMMA NextInv == IndInv /\ [Next]_vars => IndInv'
<1> SUFFICES ASSUME IndInv, [Next]_vars PROVE IndInv'
  OBVIOUS
<1>t. TypeOK
  BY DEF IndInv
<1>1. ASSUME NEW s \in Subscribers, NEW wanted \in SUBSET Kinds, Listen(s, wanted)
      PROVE  IndInv'
  BY <1>1, ListenStep
<1>2. ASSUME NEW s \in Subscribers, BeginStream(s) PROVE IndInv'
  <2>1. PICK next \in {"acknowledge", "unbegun"} : Goto(s, next)
    BY <1>2 DEF BeginStream
  <2> QED
    BY <1>2, <1>t, <2>1, MoveStep DEF BeginStream, TypeOK, Pc
<1>3. ASSUME NEW s \in Subscribers, Acknowledge(s) PROVE IndInv'
  <2>1. PICK next \in {"loop", "close"} : Goto(s, next)
    BY <1>3 DEF Acknowledge
  <2> QED
    BY <1>3, <1>t, <2>1, MoveStep DEF Acknowledge, TypeOK, Pc
<1>4. ASSUME NEW s \in Subscribers, LeaveLoop(s) PROVE IndInv'
  BY <1>4, <1>t, MoveStep DEF LeaveLoop, TypeOK, Pc
<1>5. ASSUME NEW s \in Subscribers, WriteHint(s) PROVE IndInv'
  <2>1. PICK next \in {"loop", "close"} : Goto(s, next)
    BY <1>5 DEF WriteHint
  <2>2. writing' \in [Subscribers -> Kinds \cup {NoKind}] /\ expired' \in [Subscribers -> BOOLEAN]
    BY <1>5, <1>t DEF WriteHint, TypeOK
  <2> QED
    BY <1>5, <2>1, <2>2, MoveStep DEF WriteHint, Pc
<1>6. ASSUME NEW s \in Subscribers, Expire(s) PROVE IndInv'
  <2>1. expired' \in [Subscribers -> BOOLEAN]
    BY <1>6, <1>t DEF Expire, TypeOK
  <2> QED
    BY <1>6, <2>1
       DEF Expire, IndInv, TypeOK, OpenIsServed, QueueHoldsWanted, IdleAskedNothing, publisher
<1>7. ASSUME NEW p \in Publishers, NEW k \in Kinds, Publish(p, k) PROVE IndInv'
  BY <1>7 DEF Publish, IndInv, TypeOK, OpenIsServed, QueueHoldsWanted, IdleAskedNothing,
              subscriber
<1>8. CASE UNCHANGED vars
  BY <1>8 DEF vars, IndInv, TypeOK, OpenIsServed, QueueHoldsWanted, IdleAskedNothing,
              subscriber, publisher
<1> QED
  BY <1>1, <1>2, <1>3, <1>4, <1>5, <1>6, <1>7, <1>8, TakeStep, CloseStep, PutStep
     DEF Next, Serve

(* The inductive invariant holds throughout. *)
THEOREM Invariance == Spec => []IndInv
<1> QED
  BY InitInv, NextInv, PTL DEF Spec

-----------------------------------------------------------------------------

(* Queues stay within their capacity, whoever publishes and however many
   subscribe (publish_mcp_list_change). *)
THEOREM TypeCorrect == Spec => []TypeOK
<1> QED
  BY Invariance, PTL DEF IndInv

(* A thread that has begun its stream does not leave its subscription open
   (_handle_modern_mcp_subscription). *)
THEOREM OpenSubscriptionsAreServed == Spec => []OpenIsServed
<1> QED
  BY Invariance, PTL DEF IndInv

(* For any capacity, a hint that the queue of a subscriber to one kind would not
   take is in the queue already (publish_mcp_list_change). *)
THEOREM DropsOfOneKindAreRedundant == Spec => []OneKindMissesNothing
<1>1. ASSUME IndInv PROVE OneKindMissesNothing
  <2> SUFFICES ASSUME NEW s \in Subscribers, NEW k \in Kinds, filters[s] = {k},
                      Len(queue[s]) = Capacity
               PROVE  k \in Contents(s)
    BY DEF OneKindMissesNothing, FullIsHintedAbout
  <2>1. queue[s] \in Seq({k}) /\ 1 \in 1 .. Len(queue[s])
    BY <1>1, SubscriptionsAssumption DEF IndInv, QueueHoldsWanted
  <2>2. queue[s][1] = k /\ 1 \in DOMAIN queue[s]
    BY <2>1
  <2> QED
    BY <2>2 DEF Contents
<1> QED
  BY <1>1, Invariance, PTL
=============================================================================
