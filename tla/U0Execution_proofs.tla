------------------------- MODULE U0Execution_proofs -------------------------
(***************************************************************************)
(* Proofs about the order of a manifest's nodes, for every finite set of   *)
(* nodes and every reference graph, and about the execution of a manifest, *)
(* for every classification of nodes and resources and every host policy.  *)
(*                                                                         *)
(* The invariant of the order says what the algorithm's counters mean: the *)
(* degree of a node is the number of its references that are not placed,   *)
(* and the heap holds the nodes whose degree has reached zero.  A set of   *)
(* nodes that refer into the set is never entered: that is why what is     *)
(* left when the heap runs dry is a cycle.                                 *)
(*                                                                         *)
(* What is exported is bounded by what it was computed from only because   *)
(* each node that ran bounds its inputs; the invariant Flows carries the   *)
(* bound over any number of nodes, along the graph that has been put in    *)
(* order.                                                                  *)
(***************************************************************************)
EXTENDS U0Execution, FiniteSetTheorems, TLAPS

-----------------------------------------------------------------------------
(* The order of the nodes (ManifestOrder). *)

Counted == sorting \notin {"count", "E_REFERENCE"} =>
             /\ ~Dangling
             /\ \A n \in Nodes : indegree[n] = Cardinality(refs[n] \ Placed)

Unsorted == sorting \in {"count", "heapify", "E_REFERENCE"} => order = << >>

Ready == sorting = "pop" => queue = {n \in Nodes \ Placed : indegree[n] = 0}

AllDistinct == Cardinality(Placed) = Len(order)

CyclesStayOut == \A S \in SUBSET Nodes : Cyclic(S) => S \cap Placed = {}

GraphInv ==
  /\ GraphTypeOK
  /\ Counted
  /\ Unsorted
  /\ Ready
  /\ AllDistinct
  /\ OrderRespectsRefs
  /\ CyclesStayOut
  /\ CycleExactly

-----------------------------------------------------------------------------
(* The nodes and everything a node refers to are finitely many. *)
LEMMA FiniteNodes ==
  ASSUME GraphTypeOK
  PROVE  /\ IsFiniteSet(Nodes)
         /\ refs \in [Nodes -> SUBSET Ids]
         /\ \A n \in Nodes : IsFiniteSet(refs[n])
<1>1. refs \in [Nodes -> SUBSET Ids]
  BY NodesAssumption DEF GraphTypeOK
<1>2. IsFiniteSet(Nodes)
  BY FS_Subset, NodesAssumption
<1>3. \A n \in Nodes : IsFiniteSet(refs[n])
  BY <1>1, FS_Subset, NodesAssumption
<1>. QED  BY <1>1, <1>2, <1>3

(* What an appended node adds to the nodes placed. *)
LEMMA PlacedByAppend ==
  ASSUME order \in Seq(Nodes), NEW c \in Nodes, order' = Append(order, c)
  PROVE  /\ Placed' = Placed \cup {c}
         /\ Len(order') = Len(order) + 1
         /\ \A i \in DOMAIN order : order'[i] = order[i]
         /\ order'[Len(order) + 1] = c
         /\ DOMAIN order = 1 .. Len(order)
         /\ DOMAIN order' = 1 .. (Len(order) + 1)
<1>1. /\ Len(order') = Len(order) + 1
      /\ \A i \in 1 .. Len(order) : order'[i] = order[i]
      /\ order'[Len(order) + 1] = c
      /\ Len(order) \in Nat
      /\ DOMAIN order = 1 .. Len(order)
      /\ DOMAIN order' = 1 .. (Len(order) + 1)
  OBVIOUS
<1>2. Placed' = Placed \cup {c}
  <2>1. 1 .. (Len(order) + 1) = (1 .. Len(order)) \cup {Len(order) + 1}
    BY <1>1
  <2>. QED  BY <1>1, <2>1 DEF Placed
<1>. QED  BY <1>1, <1>2

-----------------------------------------------------------------------------
(* Before anything is placed the invariant says little. *)
LEMMA InitGraphInv == GraphInit => GraphInv
<1>. SUFFICES ASSUME GraphInit PROVE GraphInv
  OBVIOUS
<1>1. GraphTypeOK
  BY DEF GraphInit, GraphTypeOK, Sorting
<1>2. Placed = {} /\ Len(order) = 0 /\ DOMAIN order = {}
  BY DEF GraphInit, Placed
<1>3. AllDistinct
  BY <1>2, FS_EmptySet DEF AllDistinct
<1>4. OrderRespectsRefs
  BY <1>2 DEF OrderRespectsRefs
<1>5. Counted /\ Unsorted /\ Ready /\ CyclesStayOut /\ CycleExactly
  BY <1>2 DEF GraphInit, Counted, Unsorted, Ready, CyclesStayOut, CycleExactly
<1>. QED  BY <1>1, <1>3, <1>4, <1>5 DEF GraphInv

(* Counting the references makes the counters mean what they should. *)
LEMMA CountKeepsGraphInv == GraphInv /\ CountReferences => GraphInv'
<1>. SUFFICES ASSUME GraphInv, CountReferences PROVE GraphInv'
  OBVIOUS
<1>. USE DEF GraphInv
<1>1. /\ IsFiniteSet(Nodes) /\ refs \in [Nodes -> SUBSET Ids]
      /\ \A n \in Nodes : IsFiniteSet(refs[n])
  BY FiniteNodes
<1>2. order = << >> /\ Placed = {} /\ Placed' = {} /\ order' = order /\ refs' = refs
      /\ queue' = queue
  BY DEF CountReferences, Unsorted, Placed
<1>3. \A n \in Nodes : Cardinality(refs[n]) \in Nat /\ refs[n] \ {} = refs[n]
  BY <1>1, FS_CardinalityType
<1>4. GraphTypeOK'
  BY <1>2, <1>3 DEF CountReferences, GraphTypeOK, Sorting
<1>5. Counted'
  BY <1>2, <1>3 DEF CountReferences, Counted, Dangling
<1>6. Unsorted' /\ Ready' /\ AllDistinct' /\ OrderRespectsRefs' /\ CyclesStayOut'
  BY <1>2 DEF CountReferences, Unsorted, Ready, AllDistinct, OrderRespectsRefs,
              CyclesStayOut, Cyclic
<1>7. CycleExactly'
  BY DEF CountReferences, CycleExactly
<1>. QED  BY <1>4, <1>5, <1>6, <1>7

(* The heap starts with the nodes that refer to nothing. *)
LEMMA HeapifyKeepsGraphInv == GraphInv /\ Heapify => GraphInv'
<1>. SUFFICES ASSUME GraphInv, Heapify PROVE GraphInv'
  OBVIOUS
<1>. USE DEF GraphInv
<1>1. order = << >> /\ Placed = {} /\ Placed' = {} /\ order' = order /\ refs' = refs
      /\ indegree' = indegree
  BY DEF Heapify, Unsorted, Placed
<1>2. GraphTypeOK'
  BY <1>1 DEF Heapify, GraphTypeOK, Sorting
<1>3. Counted' /\ Unsorted' /\ Ready'
  BY <1>1 DEF Heapify, Counted, Unsorted, Ready, Dangling
<1>4. AllDistinct' /\ OrderRespectsRefs' /\ CyclesStayOut' /\ CycleExactly'
  BY <1>1 DEF Heapify, AllDistinct, OrderRespectsRefs, CyclesStayOut, Cyclic,
              CycleExactly
<1>. QED  BY <1>2, <1>3, <1>4

(* The step that matters: the least ready node is placed. *)
LEMMA PopKeepsGraphInv == GraphInv /\ PopLeast => GraphInv'
<1>. SUFFICES ASSUME GraphInv, PopLeast PROVE GraphInv'
  OBVIOUS
<1>. USE DEF GraphInv
<1>f. /\ IsFiniteSet(Nodes) /\ refs \in [Nodes -> SUBSET Ids]
      /\ \A n \in Nodes : IsFiniteSet(refs[n])
  BY FiniteNodes
<1>. PICK current \in queue :
       /\ order' = Append(order, current)
       /\ indegree' = [n \in Nodes |->
            IF n \in {k \in Nodes : current \in refs[k]} THEN indegree[n] - 1
                                                         ELSE indegree[n]]
       /\ queue' = (queue \ {current})
                     \cup {n \in {k \in Nodes : current \in refs[k]} : indegree[n] = 1}
  BY DEF PopLeast
<1>0. sorting = "pop" /\ sorting' = "pop" /\ refs' = refs
  BY DEF PopLeast
<1>1. current \in Nodes /\ current \notin Placed /\ indegree[current] = 0
  BY <1>0 DEF Ready
<1>2. /\ Placed' = Placed \cup {current}
      /\ Len(order') = Len(order) + 1
      /\ \A i \in DOMAIN order : order'[i] = order[i]
      /\ order'[Len(order) + 1] = current
      /\ DOMAIN order = 1 .. Len(order)
      /\ DOMAIN order' = 1 .. (Len(order) + 1)
      /\ Len(order) \in Nat
  BY <1>1, PlacedByAppend DEF GraphTypeOK
<1>3. ~Dangling /\ \A n \in Nodes : indegree[n] = Cardinality(refs[n] \ Placed)
  BY <1>0 DEF Counted
<1>4. \A n \in Nodes : /\ IsFiniteSet(refs[n] \ Placed)
                       /\ indegree[n] = 0 => refs[n] \subseteq Placed
                       /\ refs[n] \subseteq Placed => indegree[n] = 0
  <2>. TAKE n \in Nodes
  <2>1. IsFiniteSet(refs[n] \ Placed)
    BY <1>f, FS_Subset
  <2>2. Cardinality(refs[n] \ Placed) = 0 <=> refs[n] \ Placed = {}
    BY <2>1, FS_EmptySet
  <2>. QED  BY <2>1, <2>2, <1>3
<1>5. refs[current] \subseteq Placed
  BY <1>1, <1>4
<1>6. \A n \in Nodes : current \in refs[n] =>
        /\ indegree[n] \in Nat \ {0}
        /\ Cardinality(refs[n] \ Placed') = indegree[n] - 1
  <2>. SUFFICES ASSUME NEW n \in Nodes, current \in refs[n]
                PROVE  /\ indegree[n] \in Nat \ {0}
                       /\ Cardinality(refs[n] \ Placed') = indegree[n] - 1
    OBVIOUS
  <2>1. refs[n] \ Placed' = (refs[n] \ Placed) \ {current}
    BY <1>2
  <2>2. current \in refs[n] \ Placed
    BY <1>1
  <2>3. Cardinality((refs[n] \ Placed) \ {current}) = Cardinality(refs[n] \ Placed) - 1
    BY <2>2, <1>4, FS_RemoveElement
  <2>4. indegree[n] # 0
    BY <1>4, <2>2
  <2>. QED  BY <2>1, <2>3, <2>4, <1>3 DEF GraphTypeOK
<1>7. \A n \in Nodes : current \notin refs[n] => refs[n] \ Placed' = refs[n] \ Placed
  BY <1>2
<1>8. \A n \in Placed : refs[n] \subseteq Placed
  BY <1>2 DEF OrderRespectsRefs, Placed
<1>9. GraphTypeOK'
  <2>1. indegree' \in [Nodes -> Nat]
    <3>1. ASSUME NEW n \in Nodes PROVE indegree'[n] \in Nat
      <4>1. CASE current \in refs[n]
        <5>1. indegree[n] \in Nat \ {0}
          BY <4>1, <1>6
        <5>. QED  BY <4>1, <5>1
      <4>2. CASE current \notin refs[n]
        BY <4>2 DEF GraphTypeOK
      <4>. QED  BY <4>1, <4>2
    <3>. QED  BY <3>1
  <2>2. order' \in Seq(Nodes) /\ queue' \subseteq Nodes
    BY <1>1 DEF GraphTypeOK
  <2>. QED  BY <2>1, <2>2, <1>0 DEF GraphTypeOK
<1>10. Counted'
  <2>1. \A n \in Nodes : indegree'[n] = Cardinality(refs[n] \ Placed')
    BY <1>3, <1>6, <1>7
  <2>. QED  BY <2>1, <1>0, <1>3 DEF Counted, Dangling
<1>11. Ready'
  <2>1. ASSUME NEW n \in queue'
        PROVE  n \in Nodes \ Placed' /\ indegree'[n] = 0
    <3>1. CASE n \in queue /\ n # current
      <4>1. n \in Nodes /\ n \notin Placed /\ indegree[n] = 0
        BY <3>1, <1>0 DEF Ready
      <4>2. current \notin refs[n]
        BY <4>1, <1>1, <1>4
      <4>. QED  BY <3>1, <4>1, <4>2, <1>2
    <3>2. CASE n \in Nodes /\ current \in refs[n] /\ indegree[n] = 1
      <4>1. n # current
        BY <3>2, <1>1
      <4>2. n \notin Placed
        <5>1. ~(refs[n] \subseteq Placed)
          BY <3>2, <1>1
        <5>. QED  BY <5>1, <1>8
      <4>. QED  BY <3>2, <4>1, <4>2, <1>2
    <3>. QED  BY <3>1, <3>2
  <2>2. ASSUME NEW n \in Nodes \ Placed', indegree'[n] = 0
        PROVE  n \in queue'
    <3>1. CASE current \in refs[n]
      <4>1. indegree[n] - 1 = 0 /\ indegree[n] \in Nat
        BY <3>1, <2>2, <1>6
      <4>. QED  BY <3>1, <4>1
    <3>2. CASE current \notin refs[n]
      <4>1. indegree[n] = 0
        BY <3>2, <2>2
      <4>2. n \in queue /\ n # current
        BY <4>1, <1>0, <1>2 DEF Ready
      <4>. QED  BY <4>2
    <3>. QED  BY <3>1, <3>2
  <2>3. queue' = {n \in Nodes \ Placed' : indegree'[n] = 0}
    BY <2>1, <2>2
  <2>. QED  BY <2>3 DEF Ready
<1>12. AllDistinct'
  <2>1. IsFiniteSet(Placed)
    BY <1>f, FS_Subset DEF Placed, GraphTypeOK
  <2>2. Cardinality(Placed \cup {current}) = Cardinality(Placed) + 1
    BY <2>1, <1>1, FS_AddElement
  <2>. QED  BY <2>2, <1>2 DEF AllDistinct
<1>13. OrderRespectsRefs'
  <2>1. ASSUME NEW j \in DOMAIN order'
        PROVE  /\ refs[order'[j]] \subseteq {order'[i] : i \in 1 .. (j - 1)}
               /\ \A i \in DOMAIN order' : order'[i] = order'[j] => i = j
    <3>1. CASE j = Len(order) + 1
      <4>1. {order'[i] : i \in 1 .. (j - 1)} = Placed
        BY <3>1, <1>2 DEF Placed
      <4>2. \A i \in DOMAIN order : order'[i] # current
        BY <1>1, <1>2 DEF Placed
      <4>. QED  BY <3>1, <4>1, <4>2, <1>2, <1>5
    <3>2. CASE j # Len(order) + 1
      <4>1. j \in DOMAIN order /\ \A i \in 1 .. (j - 1) : i \in DOMAIN order
        BY <3>2, <1>2
      <4>2. {order'[i] : i \in 1 .. (j - 1)} = {order[i] : i \in 1 .. (j - 1)}
        BY <4>1, <1>2
      <4>3. order[j] # current
        BY <4>1, <1>1 DEF Placed
      <4>4. \A i \in DOMAIN order' : order'[i] = order'[j] => i = j
        BY <4>1, <4>3, <1>2 DEF OrderRespectsRefs
      <4>. QED  BY <4>1, <4>2, <4>4, <1>2 DEF OrderRespectsRefs
    <3>. QED  BY <3>1, <3>2
  <2>. QED  BY <2>1, <1>0 DEF OrderRespectsRefs
<1>14. CyclesStayOut'
  <2>. SUFFICES ASSUME NEW S \in SUBSET Nodes, Cyclic(S)
                PROVE  S \cap Placed' = {}
    BY <1>0 DEF CyclesStayOut, Cyclic
  <2>1. S \cap Placed = {}
    BY DEF CyclesStayOut
  <2>2. current \notin S
    BY <2>1, <1>5 DEF Cyclic
  <2>. QED  BY <2>1, <2>2, <1>2
<1>15. Unsorted' /\ CycleExactly'
  BY <1>0 DEF Unsorted, CycleExactly
<1>. QED  BY <1>9, <1>10, <1>11, <1>12, <1>13, <1>14, <1>15

(* When the heap is empty, either every node is placed or the rest is a cycle. *)
LEMMA FinishKeepsGraphInv == GraphInv /\ Finish => GraphInv'
<1>. SUFFICES ASSUME GraphInv, Finish PROVE GraphInv'
  OBVIOUS
<1>. USE DEF GraphInv
<1>0. /\ sorting = "pop" /\ queue = {}
      /\ refs' = refs /\ indegree' = indegree /\ queue' = queue /\ order' = order
      /\ sorting' \in {"ordered", "E_CYCLE"}
      /\ Placed' = Placed
  BY DEF Finish, Placed
<1>f. /\ IsFiniteSet(Nodes) /\ refs \in [Nodes -> SUBSET Ids]
      /\ \A n \in Nodes : IsFiniteSet(refs[n])
  BY FiniteNodes
<1>p. Placed \subseteq Nodes
  BY DEF Placed, GraphTypeOK
<1>1. CycleExactly'
  <2>1. CASE sorting' = "ordered"
    <3>1. Cardinality(Placed) = Cardinality(Nodes)
      BY <2>1, <1>0 DEF Finish, AllDistinct
    <3>2. Placed = Nodes
      BY <3>1, <1>f, <1>p, FS_Subset
    <3>3. \A S \in SUBSET Nodes : ~Cyclic(S)
      BY <3>2 DEF CyclesStayOut, Cyclic
    <3>. QED  BY <2>1, <3>2, <3>3, <1>0 DEF CycleExactly, Cyclic
  <2>2. CASE sorting' = "E_CYCLE"
    <3>1. Placed # Nodes
      BY <2>2, <1>0 DEF Finish, AllDistinct
    <3>2. \A n \in Nodes \ Placed : refs[n] \cap (Nodes \ Placed) # {}
      <4>. TAKE n \in Nodes \ Placed
      <4>1. indegree[n] # 0
        BY <1>0 DEF Ready
      <4>2. refs[n] \ Placed # {}
        BY <4>1, <1>0, FS_EmptySet DEF Counted
      <4>3. refs[n] \subseteq Nodes
        BY <1>0 DEF Counted, Dangling
      <4>. QED  BY <4>2, <4>3
    <3>3. Cyclic(Nodes \ Placed)
      BY <3>1, <3>2, <1>p DEF Cyclic
    <3>. QED  BY <2>2, <3>3, <1>0 DEF CycleExactly, Cyclic
  <2>. QED  BY <2>1, <2>2, <1>0
<1>2. GraphTypeOK'
  BY <1>0 DEF GraphTypeOK, Sorting
<1>3. Counted' /\ Unsorted' /\ Ready' /\ AllDistinct' /\ OrderRespectsRefs'
  BY <1>0 DEF Counted, Unsorted, Ready, AllDistinct, OrderRespectsRefs, Dangling
<1>4. CyclesStayOut'
  BY <1>0 DEF CyclesStayOut, Cyclic
<1>. QED  BY <1>1, <1>2, <1>3, <1>4

(* A step that leaves the algorithm alone leaves its invariant alone. *)
LEMMA StutterKeepsGraphInv == GraphInv /\ UNCHANGED graphVars => GraphInv'
<1>. SUFFICES ASSUME GraphInv, UNCHANGED graphVars PROVE GraphInv'
  OBVIOUS
<1>1. /\ refs' = refs /\ indegree' = indegree /\ queue' = queue /\ order' = order
      /\ sorting' = sorting
  BY DEF graphVars
<1>2. Placed' = Placed
  BY <1>1 DEF Placed
<1>3. GraphTypeOK'
  BY <1>1 DEF GraphInv, GraphTypeOK
<1>4. Counted' /\ Unsorted' /\ Ready' /\ AllDistinct'
  BY <1>1, <1>2 DEF GraphInv, Counted, Unsorted, Ready, AllDistinct, Dangling
<1>5. OrderRespectsRefs'
  BY <1>1 DEF GraphInv, OrderRespectsRefs
<1>6. CyclesStayOut' /\ CycleExactly'
  BY <1>1, <1>2 DEF GraphInv, CyclesStayOut, CycleExactly, Cyclic
<1>. QED  BY <1>3, <1>4, <1>5, <1>6 DEF GraphInv

(* The algorithm's steps, and stuttering, keep the invariant. *)
LEMMA GraphStep == GraphInv /\ [GraphNext]_graphVars => GraphInv'
BY CountKeepsGraphInv, HeapifyKeepsGraphInv, PopKeepsGraphInv, FinishKeepsGraphInv,
   StutterKeepsGraphInv DEF GraphNext

(* The inductive invariant holds throughout. *)
THEOREM GraphInvariant == GraphSpec => []GraphInv
BY InitGraphInv, GraphStep, PTL DEF GraphSpec

(* Every variable of the ordering stays in its range; no counter goes below
   zero. *)
THEOREM GraphTypeCorrect == GraphSpec => []GraphTypeOK
BY GraphInvariant, PTL DEF GraphInv

(* No node runs before what it refers to, and none runs twice. *)
THEOREM OrderIsSound == GraphSpec => []OrderRespectsRefs
BY GraphInvariant, PTL DEF GraphInv

(* A cycle is reported exactly when the manifest has one. *)
THEOREM CyclesAreExact == GraphSpec => []CycleExactly
BY GraphInvariant, PTL DEF GraphInv

-----------------------------------------------------------------------------
(* What is placed so far is the beginning of the first order of all: an order
   that respects the references either agrees with it or comes after it. *)
FirstSoFar ==
  \A s \in Arrangements : Respects(s) =>
    \/ Precedes(order, s)
    \/ \A i \in DOMAIN order : s[i] = order[i]

(* No more nodes are placed than there are. *)
LEMMA OrderIsShort ==
  ASSUME GraphInv
  PROVE  /\ Cardinality(Nodes) \in Nat
         /\ Len(order) \in Nat /\ Len(order) <= Cardinality(Nodes)
         /\ DOMAIN order = 1 .. Len(order)
<1>1. IsFiniteSet(Nodes) /\ order \in Seq(Nodes)
  BY FiniteNodes DEF GraphInv, GraphTypeOK
<1>2. Placed \subseteq Nodes
  BY <1>1 DEF Placed
<1>3. Cardinality(Placed) <= Cardinality(Nodes)
  BY <1>1, <1>2, FS_Subset
<1>. QED  BY <1>1, <1>3, FS_CardinalityType DEF GraphInv, AllDistinct

(* Placing the least ready node keeps the beginning the first of all. *)
LEMMA PopKeepsFirst == GraphInv /\ GraphInv' /\ FirstSoFar /\ PopLeast => FirstSoFar'
<1>. SUFFICES ASSUME GraphInv, GraphInv', FirstSoFar, PopLeast,
                     NEW s \in Arrangements, Respects(s)'
              PROVE  \/ Precedes(order, s)'
                     \/ \A i \in DOMAIN order' : s[i] = order'[i]
  BY DEF FirstSoFar, Arrangements
<1>. PICK current \in queue :
       /\ \A n \in queue : current <= n
       /\ order' = Append(order, current)
  BY DEF PopLeast
<1>0. sorting = "pop" /\ refs' = refs
  BY DEF PopLeast
<1>1. current \in Nodes
  BY DEF GraphInv, GraphTypeOK
<1>2. /\ Len(order') = Len(order) + 1
      /\ \A i \in DOMAIN order : order'[i] = order[i]
      /\ order'[Len(order) + 1] = current
      /\ DOMAIN order = 1 .. Len(order)
      /\ DOMAIN order' = 1 .. (Len(order) + 1)
  BY <1>1, PlacedByAppend DEF GraphInv, GraphTypeOK
<1>3. /\ Len(order) \in Nat /\ Cardinality(Nodes) \in Nat
      /\ Len(order) + 1 <= Cardinality(Nodes)
  <2>1. Cardinality(Nodes) \in Nat /\ Len(order) \in Nat
    BY OrderIsShort
  <2>2. Len(order)' <= Cardinality(Nodes)
    <3>1. IsFiniteSet(Nodes) /\ Placed' \subseteq Nodes
      BY FiniteNodes DEF GraphInv, GraphTypeOK, Placed
    <3>2. Cardinality(Placed') <= Cardinality(Nodes)
      BY <3>1, FS_Subset
    <3>. QED  BY <3>2 DEF GraphInv, AllDistinct
  <2>. QED  BY <2>1, <2>2, <1>2
<1>4. /\ s \in [1 .. Cardinality(Nodes) -> Nodes]
      /\ \A i, j \in 1 .. Cardinality(Nodes) : s[i] = s[j] => i = j
      /\ Respects(s)
      /\ DOMAIN s = 1 .. Cardinality(Nodes)
  BY <1>0 DEF Arrangements, Respects
<1>5. CASE Precedes(order, s)
  <2>1. PICK i \in DOMAIN order : /\ order[i] < s[i]
                                 /\ \A k \in 1 .. (i - 1) : order[k] = s[k]
    BY <1>5 DEF Precedes
  <2>2. \A k \in 1 .. (i - 1) : k \in DOMAIN order
    BY <1>2, <1>3
  <2>3. i \in DOMAIN order'
    BY <1>2, <1>3
  <2>4. Precedes(order', s)
    BY <2>1, <2>2, <2>3, <1>2 DEF Precedes
  <2>. QED  BY <2>4 DEF Precedes
<1>6. CASE ~Precedes(order, s)
  <2>. DEFINE next == s[Len(order) + 1]
  <2>1. \A i \in DOMAIN order : s[i] = order[i]
    BY <1>6, <1>4 DEF FirstSoFar
  <2>2. Len(order) + 1 \in 1 .. Cardinality(Nodes) /\ next \in Nodes
    BY <1>3, <1>4
  <2>3. {s[i] : i \in 1 .. Len(order)} = Placed
    BY <2>1, <1>2 DEF Placed
  <2>4. refs[next] \subseteq Placed
    <3>1. refs[next] \subseteq {s[i] : i \in 1 .. ((Len(order) + 1) - 1)}
      BY <2>2, <1>4 DEF Respects
    <3>2. (Len(order) + 1) - 1 = Len(order)
      BY <1>3
    <3>. QED  BY <3>1, <3>2, <2>3
  <2>5. next \notin Placed
    <3>1. \A i \in 1 .. Len(order) : s[i] # next
      BY <2>2, <1>3, <1>4
    <3>. QED  BY <3>1, <2>3
  <2>6. next \in queue
    <3>1. refs[next] \ Placed = {}
      BY <2>4
    <3>2. indegree[next] = 0
      BY <3>1, <2>2, <1>0, FS_EmptySet DEF GraphInv, Counted
    <3>. QED  BY <3>2, <2>2, <2>5, <1>0 DEF GraphInv, Ready
  <2>7. current <= next /\ current \in Nat /\ next \in Nat
    BY <2>6, <2>2, <1>1, NodesAssumption
  <2>8. CASE current = next
    <3>1. \A i \in DOMAIN order' : s[i] = order'[i]
      BY <2>1, <2>8, <1>2, <1>3
    <3>. QED  BY <3>1
  <2>9. CASE current # next
    <3>1. order'[Len(order) + 1] < s[Len(order) + 1]
      BY <2>7, <2>9, <1>2
    <3>2. \A k \in 1 .. ((Len(order) + 1) - 1) : order'[k] = s[k]
      BY <2>1, <1>2, <1>3
    <3>3. Len(order) + 1 \in DOMAIN order'
      BY <1>2, <1>3
    <3>4. Precedes(order', s)
      BY <3>1, <3>2, <3>3 DEF Precedes
    <3>. QED  BY <3>4 DEF Precedes
  <2>. QED  BY <2>8, <2>9
<1>. QED  BY <1>5, <1>6

(* The order is the first of all the orders that respect the references, so it
   depends on the graph alone. *)
THEOREM OrderIsFirst == GraphSpec => []FirstOfAllOrders
<1>1. GraphInit => FirstSoFar
  BY DEF GraphInit, FirstSoFar
<1>2. GraphInv /\ GraphInv' /\ FirstSoFar /\ [GraphNext]_graphVars => FirstSoFar'
  <2>. SUFFICES ASSUME GraphInv, GraphInv', FirstSoFar, [GraphNext]_graphVars
                PROVE  FirstSoFar'
    OBVIOUS
  <2>1. CASE PopLeast
    BY <2>1, PopKeepsFirst
  <2>2. CASE CountReferences \/ Heapify \/ Finish \/ UNCHANGED graphVars
    <3>1. order' = order /\ refs' = refs
      BY <2>2 DEF CountReferences, Heapify, Finish, graphVars
    <3>. QED  BY <3>1 DEF FirstSoFar, Respects, Precedes
  <2>. QED  BY <2>1, <2>2 DEF GraphNext
<1>3. GraphInv /\ FirstSoFar => FirstOfAllOrders
  <2>. SUFFICES ASSUME GraphInv, FirstSoFar, sorting = "ordered",
                       NEW s \in Arrangements, Respects(s)
                PROVE  s = order \/ Precedes(order, s)
    BY DEF FirstOfAllOrders
  <2>1. CASE \A i \in DOMAIN order : s[i] = order[i]
    <3>1. Len(order) = Cardinality(Nodes)
      BY DEF GraphInv, CycleExactly, AllDistinct
    <3>2. DOMAIN order = 1 .. Cardinality(Nodes) /\ order \in Seq(Nodes)
      BY <3>1, OrderIsShort DEF GraphInv, GraphTypeOK
    <3>3. order \in [1 .. Cardinality(Nodes) -> Nodes]
      BY <3>1, <3>2
    <3>4. s \in [1 .. Cardinality(Nodes) -> Nodes]
      BY DEF Arrangements
    <3>5. \A i \in 1 .. Cardinality(Nodes) : s[i] = order[i]
      BY <2>1, <3>2
    <3>6. s = [i \in 1 .. Cardinality(Nodes) |-> s[i]]
      BY <3>4
    <3>7. order = [i \in 1 .. Cardinality(Nodes) |-> order[i]]
      BY <3>3
    <3>8. [i \in 1 .. Cardinality(Nodes) |-> s[i]]
            = [i \in 1 .. Cardinality(Nodes) |-> order[i]]
      BY <3>5
    <3>. QED  BY <3>6, <3>7, <3>8
  <2>. QED  BY <2>1 DEF FirstSoFar
<1>. QED  BY <1>1, <1>2, <1>3, GraphInvariant, PTL DEF GraphSpec

-----------------------------------------------------------------------------
(* The execution of a manifest. *)

(* The nodes that have run. *)
Ran == {order[i] : i \in 1 .. position}

Staged ==
  /\ stage \in {"validate", "order"} => position = 0
  /\ stage = "run" => sorting = "ordered"
  /\ stage \in {"order", "run"} \/ Succeeded => \A n \in Nodes : NodeFault(n) = "none"

Recorded == \A n \in Nodes : outputs[n] # NoOutput <=> n \in Ran

Declared ==
  \A n \in Ran : /\ outputs[n].class = manifest.nodes[n].class
                 /\ outputs[n].epistemic = manifest.nodes[n].epistemic

Flows ==
  \A n \in Ran : \A m \in Reaches(n) : \A r \in manifest.nodes[m].reads :
    manifest.resources[r] <= outputs[n].class

Traces ==
  \A n \in Ran : outputs[n].value = UNION {manifest.nodes[m].reads : m \in Reaches(n)}

Concluded ==
  Succeeded => /\ sorting = "ordered" /\ position = Len(order)
               /\ result.exports = [n \in Exported |-> outputs[n]]
               /\ \A n \in Exported : EgressError(n) = "none"

U0Inv == TypeOK /\ GraphInv /\ Staged /\ Recorded /\ Declared /\ Flows /\ Traces
           /\ Concluded

-----------------------------------------------------------------------------
(* The data of a manifest and of a policy have their types. *)
LEMMA DataTypes ==
  ASSUME TypeOK
  PROVE  /\ manifest \in Manifest /\ policy \in Policy
         /\ \A n \in Nodes : manifest.nodes[n] \in Node /\ refs[n] = manifest.nodes[n].refs
         /\ manifest.resources \in [Resources -> Rank \cup {Absent}]
BY ManifestsAssumption DEF TypeOK, Manifest, RefsOf

(* A node reaches itself and what the nodes it refers to reach. *)
LEMMA ReachesStep ==
  ASSUME refs \in [Nodes -> SUBSET Ids], ~Dangling, NEW n \in Nodes
  PROVE  Reaches(n) = {n} \cup UNION {Reaches(m) : m \in refs[n]}
<1>. DEFINE T == {n} \cup UNION {Reaches(m) : m \in refs[n]}
<1>1. \A k \in Nodes : refs[k] \subseteq Nodes
  BY DEF Dangling
<1>2. \A k \in Nodes : k \in Reaches(k)
  BY DEF Reaches
<1>3. T \subseteq Reaches(n)
  <2>1. ASSUME NEW m \in refs[n], NEW k \in Reaches(m)
        PROVE  k \in Reaches(n)
    <3>1. k \in Nodes
      BY DEF Reaches
    <3>2. ASSUME NEW S \in SUBSET Nodes, n \in S, Closed(S)
          PROVE  k \in S
      <4>1. m \in S
        BY <3>2 DEF Closed
      <4>. QED  BY <4>1, <3>2 DEF Reaches
    <3>. QED  BY <3>1, <3>2 DEF Reaches
  <2>. QED  BY <2>1, <1>2
<1>4. T \in SUBSET Nodes
  BY DEF Reaches
<1>5. Closed(T)
  <2>. SUFFICES ASSUME NEW k \in T, NEW j \in refs[k]
                PROVE  j \in T
    BY DEF Closed
  <2>0. k \in Nodes /\ j \in Nodes
    BY <1>1, <1>4
  <2>1. CASE k = n
    <3>1. j \in refs[n] /\ j \in Reaches(j)
      BY <2>1, <2>0, <1>2
    <3>. QED  BY <3>1
  <2>2. CASE k # n
    <3>1. PICK m \in refs[n] : k \in Reaches(m)
      BY <2>2
    <3>2. ASSUME NEW S \in SUBSET Nodes, m \in S, Closed(S)
          PROVE  j \in S
      <4>1. k \in S
        BY <3>1, <3>2 DEF Reaches
      <4>. QED  BY <4>1, <3>2 DEF Closed
    <3>3. j \in Reaches(m)
      BY <3>2, <2>0 DEF Reaches
    <3>. QED  BY <3>3
  <2>. QED  BY <2>1, <2>2
<1>6. Reaches(n) \subseteq T
  BY <1>4, <1>5 DEF Reaches
<1>. QED  BY <1>3, <1>6

(* Nothing has run before the nodes are in order. *)
LEMMA InitU0Inv == Init => U0Inv
<1>. SUFFICES ASSUME Init PROVE U0Inv
  OBVIOUS
<1>1. GraphInv /\ order = << >> /\ Len(order) = 0
  BY InitGraphInv DEF Init, GraphInit
<1>2. Ran = {}
  BY DEF Ran, Init
<1>3. TypeOK
  BY <1>1 DEF Init, TypeOK, GraphInv, Stage, NoResult
<1>4. ~Succeeded
  BY DEF Init, Succeeded
<1>. QED
  BY <1>1, <1>2, <1>3, <1>4 DEF Init, U0Inv, Staged, Recorded, Declared, Flows, Traces,
       Concluded

-----------------------------------------------------------------------------
(* Steps that neither place nor run a node change nothing of what has run. *)
LEMMA RanUnchanged ==
  ASSUME U0Inv, UNCHANGED <<graphVars, manifest, policy, position, outputs>>
  PROVE  /\ GraphInv' /\ Recorded' /\ Declared' /\ Flows' /\ Traces'
         /\ Ran' = Ran /\ Exported' = Exported
         /\ \A n \in Nodes : NodeFault(n)' = NodeFault(n)
         /\ \A n \in Exported : EgressError(n)' = EgressError(n)
<1>1. /\ refs' = refs /\ order' = order /\ sorting' = sorting /\ queue' = queue
      /\ indegree' = indegree
      /\ manifest' = manifest /\ policy' = policy /\ position' = position
      /\ outputs' = outputs
  BY DEF graphVars
<1>2. GraphInv'
  BY StutterKeepsGraphInv DEF U0Inv
<1>3. Ran' = Ran /\ Exported' = Exported
  BY <1>1 DEF Ran, Exported
<1>4. \A n : Reaches(n)' = Reaches(n)
  BY <1>1 DEF Reaches, Closed
<1>5. Recorded' /\ Declared' /\ Flows' /\ Traces'
  BY <1>1, <1>3, <1>4 DEF U0Inv, Recorded, Declared, Flows, Traces
<1>6. \A n \in Nodes : NodeFault(n)' = NodeFault(n)
  BY <1>1 DEF NodeFault
<1>7. \A n \in Exported : EgressError(n)' = EgressError(n)
  BY <1>1 DEF EgressError
<1>. QED  BY <1>2, <1>3, <1>5, <1>6, <1>7

(* An error may end the execution anywhere. *)
LEMMA RejectKeepsU0Inv ==
  ASSUME U0Inv, NEW code, Reject(code)
  PROVE  U0Inv'
<1>1. UNCHANGED <<graphVars, manifest, policy, position, outputs>>
  BY DEF Reject
<1>2. stage' = "done" /\ result'.status = "rejected"
  BY DEF Reject
<1>3. TypeOK'
  BY <1>1, <1>2 DEF Reject, U0Inv, TypeOK, GraphTypeOK, graphVars, Stage
<1>4. ~Succeeded'
  BY <1>2 DEF Succeeded
<1>5. Staged' /\ Concluded'
  BY <1>2, <1>4 DEF Staged, Concluded
<1>. QED  BY <1>1, <1>3, <1>5, RanUnchanged DEF U0Inv

(* Validation rejects or admits. *)
LEMMA ValidateKeepsU0Inv == U0Inv /\ Validate => U0Inv'
<1>. SUFFICES ASSUME U0Inv, Validate PROVE U0Inv'
  OBVIOUS
<1>1. CASE \E code : Reject(code)
  BY <1>1, RejectKeepsU0Inv
<1>2. CASE /\ Faults = {} /\ stage' = "order"
           /\ UNCHANGED <<graphVars, manifest, policy, position, outputs, produced,
                          receipts, result>>
  <2>1. TypeOK'
    BY <1>2 DEF Validate, U0Inv, TypeOK, GraphTypeOK, graphVars, Stage
  <2>2. \A n \in Nodes : NodeFault(n) = "none"
    BY <1>2 DEF Faults
  <2>3. Staged'
    BY <1>2, <2>2, RanUnchanged DEF Validate, Staged, U0Inv
  <2>4. Concluded'
    BY <1>2 DEF Concluded, Succeeded
  <2>. QED  BY <1>2, <2>1, <2>3, <2>4, RanUnchanged DEF U0Inv
<1>. QED  BY <1>1, <1>2 DEF Validate

(* Ordering happens before anything has run. *)
LEMMA OrderKeepsU0Inv == U0Inv /\ Order => U0Inv'
<1>. SUFFICES ASSUME U0Inv, Order PROVE U0Inv'
  OBVIOUS
<1>1. CASE GraphNext /\ UNCHANGED runVars
  <2>1. /\ manifest' = manifest /\ policy' = policy /\ stage' = stage
        /\ position' = position /\ outputs' = outputs /\ produced' = produced
        /\ result' = result /\ receipts' = receipts
    BY <1>1 DEF runVars
  <2>2. GraphInv'
    BY <1>1, GraphStep DEF U0Inv
  <2>3. stage = "order" /\ position = 0
    BY DEF Order, U0Inv, Staged
  <2>4. Ran = {} /\ Ran' = {}
    BY <2>1, <2>3 DEF Ran
  <2>5. refs' = refs
    BY <1>1 DEF GraphNext, CountReferences, Heapify, PopLeast, Finish
  <2>6. TypeOK'
    <3>1. GraphTypeOK' /\ Len(order)' \in Nat
      BY <2>2, OrderIsShort DEF GraphInv, GraphTypeOK
    <3>. QED  BY <2>1, <2>3, <2>5, <3>1 DEF U0Inv, TypeOK
  <2>7. Recorded' /\ Declared' /\ Flows' /\ Traces'
    BY <2>1, <2>4 DEF U0Inv, Recorded, Declared, Flows, Traces
  <2>8. Staged' /\ Concluded'
    BY <2>1, <2>3 DEF U0Inv, Staged, Concluded, Succeeded, NodeFault
  <2>. QED  BY <2>2, <2>6, <2>7, <2>8 DEF U0Inv
<1>2. CASE \E code : Reject(code)
  BY <1>2, RejectKeepsU0Inv
<1>3. CASE /\ sorting = "ordered" /\ stage' = "run"
           /\ UNCHANGED <<graphVars, manifest, policy, position, outputs, produced,
                          receipts, result>>
  <2>1. TypeOK'
    BY <1>3 DEF Order, U0Inv, TypeOK, GraphTypeOK, graphVars, Stage
  <2>2. Staged'
    BY <1>3, RanUnchanged DEF Order, Staged, U0Inv, graphVars
  <2>3. Concluded'
    BY <1>3 DEF Concluded, Succeeded
  <2>. QED  BY <1>3, <2>1, <2>2, <2>3, RanUnchanged DEF U0Inv
<1>. QED  BY <1>1, <1>2, <1>3 DEF Order

(* Running a node: its class bounds the classes of what it was computed from. *)
LEMMA RunNodeKeepsU0Inv == U0Inv /\ RunNode => U0Inv'
<1>. SUFFICES ASSUME U0Inv, RunNode PROVE U0Inv'
  OBVIOUS
<1>. DEFINE n == order[position + 1]
            output == [epistemic |-> manifest.nodes[n].epistemic,
                       class |-> manifest.nodes[n].class, value |-> ValueOf(n)]
<1>0. /\ stage = "run" /\ sorting = "ordered" /\ position < Len(order)
      /\ position' = position + 1
      /\ outputs' = [outputs EXCEPT ![n] = output]
      /\ produced' = produced + manifest.nodes[n].size
      /\ manifest' = manifest /\ policy' = policy /\ stage' = stage /\ result' = result
      /\ refs' = refs /\ order' = order /\ sorting' = sorting
      /\ RunError(n) = "none"
  BY DEF RunNode, Current, U0Inv, Staged, graphVars
<1>g. GraphInv' /\ TypeOK /\ GraphInv /\ GraphTypeOK
  BY StutterKeepsGraphInv DEF RunNode, U0Inv, GraphInv
<1>1. /\ position \in Nat /\ Len(order) \in Nat /\ DOMAIN order = 1 .. Len(order)
      /\ n \in Nodes /\ position + 1 \in 1 .. Len(order)
      /\ \A i \in 1 .. position : i \in DOMAIN order
  BY <1>0, <1>g, OrderIsShort DEF TypeOK, GraphTypeOK
<1>2. /\ ~Unresolved(n) /\ ~Downgrades(n)
  BY <1>0 DEF RunError
<1>3. /\ manifest.nodes[n] \in Node /\ refs[n] = manifest.nodes[n].refs
      /\ manifest.resources \in [Resources -> Rank \cup {Absent}]
      /\ \A k \in Nodes : manifest.nodes[k] \in Node /\ refs[k] = manifest.nodes[k].refs
  BY <1>g, <1>1, DataTypes
<1>4. Ran' = Ran \cup {n}
  <2>1. 1 .. (position + 1) = (1 .. position) \cup {position + 1}
    BY <1>1
  <2>. QED  BY <2>1, <1>0 DEF Ran
<1>5. n \notin Ran
  BY <1>1, <1>g DEF Ran, GraphInv, OrderRespectsRefs
<1>6. /\ refs \in [Nodes -> SUBSET Ids] /\ ~Dangling
      /\ \A k \in Nodes : refs[k] \subseteq Nodes
  BY <1>0, <1>g, FiniteNodes DEF GraphInv, Counted, Dangling
<1>7. refs[n] \subseteq Ran
  <2>1. refs[order[position + 1]] \subseteq {order[i] : i \in 1 .. ((position + 1) - 1)}
    BY <1>1, <1>g DEF GraphInv, OrderRespectsRefs
  <2>2. (position + 1) - 1 = position
    BY <1>1
  <2>. QED  BY <2>1, <2>2 DEF Ran
<1>8. Ran \subseteq Nodes
  BY <1>1, <1>g DEF Ran, GraphTypeOK
<1>9. \A k \in Ran : outputs[k] \in Envelope
  BY <1>8, <1>g DEF TypeOK, U0Inv, Recorded
<1>10. output \in Envelope
  <2>1. ValueOf(n) \subseteq Resources
    BY <1>3, <1>7, <1>9 DEF ValueOf, Resolved, Node, Envelope
  <2>2. manifest.nodes[n].class \in Rank /\ manifest.nodes[n].epistemic \in Epistemic
    BY <1>3 DEF Node
  <2>. QED  BY <2>1, <2>2 DEF Envelope
<1>11. /\ \A k \in Ran : outputs'[k] = outputs[k]
       /\ outputs'[n] = output
       /\ outputs' \in [Nodes -> Envelope \cup {NoOutput}]
  BY <1>0, <1>1, <1>5, <1>8, <1>10, <1>g DEF TypeOK
<1>12. \A k : Reaches(k)' = Reaches(k)
  BY <1>0 DEF Reaches, Closed
<1>13. Reaches(n) = {n} \cup UNION {Reaches(m) : m \in refs[n]}
  BY <1>1, <1>6, ReachesStep
<1>14. TypeOK'
  <2>1. produced' \in Nat
    BY <1>0, <1>3, <1>g DEF TypeOK, Node
  <2>2. position' \in 0 .. Len(order')
    BY <1>0, <1>1
  <2>3. GraphTypeOK'
    BY <1>g DEF GraphInv
  <2>. QED  BY <2>1, <2>2, <2>3, <1>0, <1>11, <1>g DEF TypeOK
<1>15. Staged'
  <2>1. \A k \in Nodes : NodeFault(k)' = NodeFault(k)
    BY <1>0 DEF NodeFault
  <2>. QED  BY <2>1, <1>0 DEF U0Inv, Staged
<1>16. Recorded'
  <2>1. \A k \in Nodes : k # n => outputs'[k] = outputs[k]
    BY <1>0, <1>g DEF TypeOK
  <2>2. outputs'[n] # NoOutput
    BY <1>10, <1>11, ManifestsAssumption
  <2>. QED  BY <2>1, <2>2, <1>4 DEF U0Inv, Recorded
<1>17. Declared'
  BY <1>0, <1>4, <1>11 DEF U0Inv, Declared
<1>18. Flows'
  <2>. SUFFICES ASSUME NEW k \in Ran', NEW m \in Reaches(k),
                       NEW r \in manifest.nodes[m].reads
                PROVE  manifest.resources[r] <= outputs'[k].class
    BY <1>0, <1>12 DEF Flows
  <2>1. CASE k \in Ran
    BY <2>1, <1>11 DEF U0Inv, Flows
  <2>2. CASE k = n /\ m = n
    <3>1. manifest.resources[r] \in InputClasses(n)
      BY <2>2 DEF InputClasses
    <3>2. manifest.resources[r] \in Nat /\ manifest.nodes[n].class \in Nat
      BY <2>2, <1>3 DEF Node, Rank, Absent
    <3>. QED  BY <3>1, <3>2, <2>2, <1>2, <1>11 DEF Downgrades
  <2>3. CASE k = n /\ m # n
    <3>1. PICK j \in refs[n] : m \in Reaches(j)
      BY <2>3, <1>13
    <3>2. j \in Ran /\ m \in Nodes
      BY <3>1, <1>7 DEF Reaches
    <3>3. manifest.resources[r] <= outputs[j].class
      BY <3>1, <3>2 DEF U0Inv, Flows
    <3>4. outputs[j].class \in InputClasses(n)
      BY <3>1, <1>3 DEF InputClasses
    <3>5. ~(outputs[j].class > manifest.nodes[n].class)
      BY <3>4, <1>2 DEF Downgrades
    <3>6. /\ outputs[j].class \in Nat /\ manifest.nodes[n].class \in Nat
          /\ manifest.resources[r] \in Nat
      BY <3>2, <1>3, <1>9 DEF Node, Rank, Absent, Envelope
    <3>. QED  BY <3>3, <3>5, <3>6, <2>3, <1>11
  <2>. QED  BY <2>1, <2>2, <2>3, <1>4
<1>19. Traces'
  <2>. SUFFICES ASSUME NEW k \in Ran'
                PROVE  outputs'[k].value = UNION {manifest.nodes[m].reads : m \in Reaches(k)}
    BY <1>0, <1>12 DEF Traces
  <2>1. CASE k \in Ran
    BY <2>1, <1>11 DEF U0Inv, Traces
  <2>2. CASE k = n
    <3>1. \A j \in refs[n] :
            outputs[j].value = UNION {manifest.nodes[m].reads : m \in Reaches(j)}
      BY <1>7 DEF U0Inv, Traces
    <3>2. ValueOf(n) = manifest.nodes[n].reads \cup UNION {outputs[j].value : j \in refs[n]}
      BY <1>3 DEF ValueOf, Resolved
    <3>3. ValueOf(n) \subseteq UNION {manifest.nodes[m].reads : m \in Reaches(n)}
      BY <3>1, <3>2, <1>13
    <3>4. UNION {manifest.nodes[m].reads : m \in Reaches(n)} \subseteq ValueOf(n)
      BY <3>1, <3>2, <1>13
    <3>. QED  BY <3>3, <3>4, <2>2, <1>11
  <2>. QED  BY <2>1, <2>2, <1>4
<1>20. Concluded'
  BY <1>0 DEF Concluded, Succeeded
<1>. QED
  BY <1>g, <1>14, <1>15, <1>16, <1>17, <1>18, <1>19, <1>20 DEF U0Inv

(* Success seals the exports that passed the host's rules. *)
LEMMA SucceedKeepsU0Inv == U0Inv /\ Succeed => U0Inv'
<1>. SUFFICES ASSUME U0Inv, Succeed PROVE U0Inv'
  OBVIOUS
<1>1. UNCHANGED <<graphVars, manifest, policy, position, outputs>>
  BY DEF Succeed
<1>2. /\ stage = "run" /\ sorting = "ordered" /\ position = Len(order)
      /\ stage' = "done" /\ result'.status = "succeeded"
      /\ result'.exports = [n \in Exported |-> outputs[n]]
      /\ \A n \in Exported : EgressError(n) = "none"
      /\ order' = order /\ sorting' = sorting /\ outputs' = outputs
      /\ position' = position
  BY DEF Succeed, U0Inv, Staged, Success, graphVars
<1>3. TypeOK'
  BY <1>1, <1>2 DEF Succeed, U0Inv, TypeOK, GraphTypeOK, graphVars, Stage
<1>4. Staged'
  BY <1>1, <1>2, RanUnchanged DEF U0Inv, Staged
<1>5. Concluded'
  BY <1>1, <1>2, RanUnchanged DEF Concluded
<1>. QED  BY <1>1, <1>3, <1>4, <1>5, RanUnchanged DEF U0Inv

(* The inductive invariant holds throughout every execution. *)
THEOREM U0Invariant == Spec => []U0Inv
<1>1. U0Inv /\ [Next]_vars => U0Inv'
  <2>. SUFFICES ASSUME U0Inv, [Next]_vars PROVE U0Inv'
    OBVIOUS
  <2>1. CASE WallBudget \/ NodeFails \/ EgressFails
    BY <2>1, RejectKeepsU0Inv DEF WallBudget, NodeFails, EgressFails
  <2>2. CASE UNCHANGED vars
    <3>1. /\ UNCHANGED <<graphVars, manifest, policy, position, outputs>>
          /\ stage' = stage /\ result' = result /\ produced' = produced
          /\ receipts' = receipts
      BY <2>2 DEF vars, runVars
    <3>2. TypeOK'
      BY <3>1 DEF U0Inv, TypeOK, GraphTypeOK, graphVars
    <3>3. Staged' /\ Concluded'
      BY <3>1, RanUnchanged DEF U0Inv, Staged, Concluded, Succeeded, graphVars
    <3>. QED  BY <3>1, <3>2, <3>3, RanUnchanged DEF U0Inv
  <2>. QED
    BY <2>1, <2>2, ValidateKeepsU0Inv, OrderKeepsU0Inv, RunNodeKeepsU0Inv,
       SucceedKeepsU0Inv DEF Next, Returned
<1>. QED  BY <1>1, InitU0Inv, PTL DEF Spec

(* Every variable of an execution stays in its range. *)
THEOREM TypeCorrect == Spec => []TypeOK
BY U0Invariant, PTL DEF U0Inv

(* A node's references have always run when its turn comes. *)
THEOREM SourcesHaveRunHolds == Spec => []SourcesHaveRun
<1>1. U0Inv => SourcesHaveRun
  <2>. SUFFICES ASSUME U0Inv, stage = "run", position < Len(order),
                       NEW m \in refs[Current]
                PROVE  outputs[m] # NoOutput
    BY DEF SourcesHaveRun
  <2>1. /\ position \in Nat /\ Len(order) \in Nat /\ DOMAIN order = 1 .. Len(order)
        /\ position + 1 \in DOMAIN order
        /\ Current \in Nodes
    BY OrderIsShort DEF U0Inv, TypeOK, GraphTypeOK, Current
  <2>2. refs[Current] \subseteq {order[i] : i \in 1 .. ((position + 1) - 1)}
    BY <2>1 DEF U0Inv, GraphInv, OrderRespectsRefs, Current
  <2>3. m \in Ran
    BY <2>1, <2>2 DEF Ran
  <2>4. m \in Nodes
    BY <2>1 DEF U0Inv, Staged, GraphInv, Counted, Dangling
  <2>. QED  BY <2>3, <2>4 DEF U0Inv, Recorded
<1>. QED  BY <1>1, U0Invariant, PTL

(* When an execution has succeeded, every node has run. *)
LEMMA AllHaveRun ==
  ASSUME U0Inv, Succeeded
  PROVE  Ran = Nodes
<1>1. position = Len(order) /\ DOMAIN order = 1 .. Len(order)
  BY OrderIsShort DEF U0Inv, Concluded
<1>2. Placed = Nodes
  BY DEF U0Inv, Concluded, GraphInv, CycleExactly
<1>. QED  BY <1>1, <1>2 DEF Ran, Placed

(* No export was computed, over any number of nodes, from a resource that is
   secret or above the host's ceiling. *)
THEOREM NothingLeaksHolds == Spec => []NothingLeaks
<1>1. U0Inv => NothingLeaks
  <2>. SUFFICES ASSUME U0Inv, Succeeded, NEW n \in DOMAIN result.exports,
                       NEW m \in Reaches(n), NEW r \in manifest.nodes[m].reads
                PROVE  /\ manifest.resources[r] <= policy.maxClass
                       /\ manifest.resources[r] # secret
    BY DEF NothingLeaks
  <2>1. n \in Exported /\ n \in Nodes /\ m \in Nodes
    BY DEF U0Inv, Concluded, Exported, Reaches
  <2>2. manifest.resources[r] <= outputs[n].class
    BY <2>1, AllHaveRun DEF U0Inv, Flows
  <2>3. ~(outputs[n].class > policy.maxClass) /\ outputs[n].class # secret
    BY <2>1 DEF U0Inv, Concluded, EgressError
  <2>4. outputs[n].class \in Rank
    <3>1. outputs[n] \in Envelope
      BY <2>1, AllHaveRun DEF U0Inv, Recorded, TypeOK
    <3>. QED  BY <3>1 DEF Envelope
  <2>5. manifest.resources[r] \in Rank \cup {Absent} /\ policy.maxClass \in Rank
    BY <2>1, DataTypes DEF U0Inv, Node, Policy
  <2>. QED  BY <2>2, <2>3, <2>4, <2>5 DEF Rank, Absent, secret
<1>. QED  BY <1>1, U0Invariant, PTL

(* What is exported was computed from the resources that the graph names. *)
THEOREM ValuesFollowTheGraphHolds == Spec => []ValuesFollowTheGraph
<1>1. U0Inv => ValuesFollowTheGraph
  <2>. SUFFICES ASSUME U0Inv, Succeeded, NEW n \in DOMAIN result.exports
                PROVE  result.exports[n].value
                         = UNION {manifest.nodes[m].reads : m \in Reaches(n)}
    BY DEF ValuesFollowTheGraph
  <2>1. n \in Nodes /\ result.exports[n] = outputs[n]
    BY DEF U0Inv, Concluded, Exported
  <2>. QED  BY <2>1, AllHaveRun DEF U0Inv, Traces
<1>. QED  BY <1>1, U0Invariant, PTL

(* Only facts and artifacts leave the host, whatever it allows. *)
THEOREM ClaimsStayInsideHolds == Spec => []ClaimsStayInside
<1>1. U0Inv => ClaimsStayInside
  <2>. SUFFICES ASSUME U0Inv, Succeeded, NEW n \in DOMAIN result.exports
                PROVE  result.exports[n].epistemic \in {"fact", "artifact"}
    BY DEF ClaimsStayInside
  <2>1. n \in Nodes /\ result.exports[n] = outputs[n]
    BY DEF U0Inv, Concluded, Exported
  <2>2. NodeFault(n) = "none"
    BY <2>1 DEF U0Inv, Staged
  <2>3. manifest.nodes[n].epistemic \in {"fact", "artifact"}
    BY <2>2 DEF NodeFault
  <2>. QED  BY <2>1, <2>3, AllHaveRun DEF U0Inv, Declared
<1>. QED  BY <1>1, U0Invariant, PTL

-----------------------------------------------------------------------------
(* Receipts and budgets: a second invariant, on top of the first. *)

Permitted(n) == manifest.nodes[n].allowed \cap policy.places

Linked(i) ==
  /\ receipts[i].sequence = i
  /\ receipts[i].manifest = Digest(manifest)
  /\ receipts[i].node = order[i]
  /\ receipts[i].place \in Permitted(order[i])
  /\ receipts[i].output = Digest(outputs[order[i]])
  /\ receipts[i].digest = Digest(Body(receipts[i]))
  /\ receipts[i].previous = IF i = 1 THEN Genesis ELSE Digest(Body(receipts[i - 1]))

ReceiptInv ==
  /\ \E S : receipts \in Seq(S)
  /\ Len(receipts) = position
  /\ \A i \in 1 .. position : Linked(i)
  /\ produced <= EffectiveOutput
  /\ stage \in {"order", "run"} \/ Succeeded => WithinNodeBudget
  /\ Succeeded => result = Success(manifest, receipts, [n \in Exported |-> outputs[n]])

(* Steps that leave the receipts and what they record alone. *)
LEMMA ReceiptsUnchanged ==
  ASSUME U0Inv, ReceiptInv, stage' \in Stage,
         (position = 0 /\ position' = 0) \/ UNCHANGED <<order, outputs, position>>,
         UNCHANGED <<manifest, policy, produced, receipts>>
  PROVE  /\ \E S : receipts' \in Seq(S)
         /\ Len(receipts') = position'
         /\ \A i \in 1 .. position' : Linked(i)'
         /\ produced' <= EffectiveOutput'
         /\ WithinNodeBudget' = WithinNodeBudget
<1>1. /\ EffectiveOutput' = EffectiveOutput /\ WithinNodeBudget' = WithinNodeBudget
      /\ produced' = produced /\ receipts' = receipts /\ position' = position
  BY DEF EffectiveOutput, WithinNodeBudget, EffectiveNodes, Least
<1>2. \A i \in 1 .. position' : Linked(i)'
  BY DEF ReceiptInv, Linked, Permitted
<1>. QED  BY <1>1, <1>2 DEF ReceiptInv

(* A sequence over a set is one over any larger set. *)
LEMMA SeqWidens ==
  ASSUME NEW S, NEW T, S \subseteq T, NEW s \in Seq(S)
  PROVE  s \in Seq(T)
OBVIOUS

(* A new receipt is linked to the one before it and names what the node did. *)
LEMMA RunNodeLinks == U0Inv /\ ReceiptInv /\ RunNode => ReceiptInv'
<1>. SUFFICES ASSUME U0Inv, ReceiptInv, RunNode PROVE ReceiptInv'
  OBVIOUS
<1>. DEFINE n == order[position + 1]
            output == [epistemic |-> manifest.nodes[n].epistemic,
                       class |-> manifest.nodes[n].class, value |-> ValueOf(n)]
            new == NextReceipt(receipts, manifest, n, Placement(n), Resolved(n), output)
<1>0. /\ stage = "run" /\ position < Len(order) /\ position' = position + 1
      /\ outputs' = [outputs EXCEPT ![n] = output]
      /\ produced' = produced + manifest.nodes[n].size
      /\ receipts' = Append(receipts, new)
      /\ manifest' = manifest /\ policy' = policy /\ stage' = stage
      /\ order' = order /\ RunError(n) = "none"
  BY DEF RunNode, Current, graphVars
<1>1. /\ position \in Nat /\ DOMAIN order = 1 .. Len(order)
      /\ Len(order) \in Nat /\ n \in Nodes
      /\ \A i \in 1 .. position : i \in DOMAIN order /\ order[i] # n /\ order[i] \in Nodes
  BY <1>0, OrderIsShort DEF U0Inv, TypeOK, GraphTypeOK, GraphInv, OrderRespectsRefs
<1>. PICK S : receipts \in Seq(S)
  BY DEF ReceiptInv
<1>2. /\ Len(receipts) = position
      /\ receipts \in Seq(S \cup {new})
  <2>1. Len(receipts) = position
    BY DEF ReceiptInv
  <2>2. \A x : S \subseteq S \cup {x}
    OBVIOUS
  <2>3. \A x : receipts \in Seq(S \cup {x})
    BY <2>2, SeqWidens, Zenon
  <2>. QED  BY <2>1, <2>3
<1>3. /\ receipts' \in Seq(S \cup {new})
      /\ Len(receipts') = position'
      /\ receipts'[position + 1] = new
      /\ \A i \in 1 .. position : receipts'[i] = receipts[i]
  BY <1>0, <1>2
<1>4. \A i \in 1 .. position : outputs'[order[i]] = outputs[order[i]]
  BY <1>0, <1>1 DEF U0Inv, TypeOK
<1>5. outputs'[n] = output
  BY <1>0, <1>1 DEF U0Inv, TypeOK
<1>6. Placement(n) \in Permitted(n)
  <2>1. Permitted(n) # {}
    BY <1>0, <1>1 DEF U0Inv, Staged, NodeFault, Permitted
  <2>. QED  BY <2>1 DEF Placement, Permitted
<1>7. LastDigest(receipts) = IF position + 1 = 1 THEN Genesis
                             ELSE Digest(Body(receipts[position]))
  <2>1. CASE position = 0
    <3>1. receipts = << >>
      BY <2>1, <1>2
    <3>. QED  BY <3>1, <2>1 DEF LastDigest
  <2>2. CASE position # 0
    <3>1. receipts # << >> /\ position \in 1 .. position
      BY <2>2, <1>1, <1>2
    <3>2. receipts[position].digest = Digest(Body(receipts[position]))
      BY <3>1 DEF ReceiptInv, Linked
    <3>. QED  BY <3>1, <3>2, <2>2, <1>1, <1>2 DEF LastDigest
  <2>. QED  BY <2>1, <2>2
<1>8. /\ new.sequence = position + 1 /\ new.manifest = Digest(manifest)
      /\ new.node = n /\ new.place = Placement(n) /\ new.output = Digest(output)
      /\ new.previous = LastDigest(receipts)
      /\ new.digest = Digest(Body(new))
  BY <1>2 DEF NextReceipt, Sealed, Body
<1>9. ASSUME NEW last, last = position + 1
      PROVE  Linked(last)'
  <2>1. /\ order'[last] = n /\ receipts'[last] = new
    BY <1>0, <1>3, <1>9
  <2>2. /\ new.place \in manifest'.nodes[n].allowed \cap policy'.places
        /\ new.manifest = Digest(manifest') /\ new.output = Digest(outputs'[n])
    BY <1>0, <1>5, <1>6, <1>8 DEF Permitted
  <2>3. new.previous = IF last = 1 THEN Genesis ELSE Digest(Body(receipts'[last - 1]))
    <3>1. CASE position = 0
      BY <3>1, <1>7, <1>8, <1>9
    <3>2. CASE position # 0
      <4>1. last - 1 = position /\ position \in 1 .. position /\ last # 1
        BY <3>2, <1>1, <1>9
      <4>. QED  BY <4>1, <1>3, <1>7, <1>8, <1>9
    <3>. QED  BY <3>1, <3>2
  <2>4. new.sequence = last /\ new.node = n /\ new.digest = Digest(Body(new))
    BY <1>8, <1>9
  <2>. HIDE DEF new, n
  <2>. QED  BY <2>1, <2>2, <2>3, <2>4 DEF Linked, Permitted
<1>10. ASSUME NEW i \in 1 .. position
       PROVE  Linked(i)'
  <2>1. Linked(i) /\ receipts'[i] = receipts[i] /\ order'[i] = order[i]
        /\ outputs'[order[i]] = outputs[order[i]]
    BY <1>0, <1>3, <1>4 DEF ReceiptInv
  <2>2. Permitted(order[i])' = Permitted(order[i])
    BY <1>0 DEF Permitted
  <2>3. i # 1 => receipts'[i - 1] = receipts[i - 1]
    BY <1>1, <1>3
  <2>. QED  BY <2>1, <2>2, <2>3, <1>0 DEF Linked
<1>11. \A i \in 1 .. position' : Linked(i)'
  <2>1. \A i \in 1 .. position' : i \in 1 .. position \/ i = position + 1
    BY <1>0, <1>1
  <2>. QED  BY <2>1, <1>9, <1>10
<1>12. produced' <= EffectiveOutput'
  <2>1. /\ EffectiveOutput \in Nat /\ manifest.nodes[n].size \in Nat /\ produced \in Nat
    BY <1>1, DataTypes DEF U0Inv, EffectiveOutput, Least, Manifest, Policy, Node, TypeOK
  <2>2. ~(produced + manifest.nodes[n].size > EffectiveOutput)
    BY <1>0 DEF RunError
  <2>3. EffectiveOutput' = EffectiveOutput
    BY <1>0 DEF EffectiveOutput, Least
  <2>. QED  BY <2>1, <2>2, <2>3, <1>0
<1>13. /\ ~Succeeded'
       /\ stage' \in {"order", "run"} => WithinNodeBudget'
  BY <1>0 DEF Succeeded, ReceiptInv, WithinNodeBudget, EffectiveNodes, Least
<1>. QED  BY <1>3, <1>11, <1>12, <1>13 DEF ReceiptInv

(* Every step keeps the receipts in order. *)
LEMMA ReceiptStep == U0Inv /\ U0Inv' /\ ReceiptInv /\ [Next]_vars => ReceiptInv'
<1>. SUFFICES ASSUME U0Inv, U0Inv', ReceiptInv, [Next]_vars PROVE ReceiptInv'
  OBVIOUS
<1>0. stage' \in Stage
  BY DEF U0Inv, TypeOK
<1>1. ASSUME NEW code, Reject(code) PROVE ReceiptInv'
  <2>1. /\ UNCHANGED <<manifest, policy, produced, receipts, order, outputs, position>>
        /\ stage' = "done" /\ ~Succeeded'
    BY <1>1 DEF Reject, graphVars, Succeeded
  <2>. QED  BY <2>1, <1>0, ReceiptsUnchanged DEF ReceiptInv
<1>2. CASE Validate
  <2>1. CASE /\ WithinNodeBudget
             /\ stage' = "order"
             /\ UNCHANGED <<graphVars, manifest, policy, position, outputs, produced,
                            receipts, result>>
    <3>1. ~Succeeded' /\ UNCHANGED <<manifest, policy, produced, receipts, order, outputs,
                                     position>>
      BY <2>1 DEF Succeeded, graphVars
    <3>. QED  BY <3>1, <2>1, <1>0, ReceiptsUnchanged DEF ReceiptInv
  <2>. QED  BY <1>1, <1>2, <2>1 DEF Validate
<1>3. CASE Order
  <2>1. CASE GraphNext /\ UNCHANGED runVars
    <3>1. /\ stage = "order" /\ position = 0 /\ position' = 0 /\ stage' = stage
          /\ UNCHANGED <<manifest, policy, produced, receipts>> /\ ~Succeeded'
      BY <1>3, <2>1 DEF Order, U0Inv, Staged, runVars, Succeeded
    <3>. QED  BY <3>1, <1>0, ReceiptsUnchanged DEF ReceiptInv
  <2>2. CASE /\ stage' = "run"
             /\ UNCHANGED <<graphVars, manifest, policy, position, outputs, produced,
                            receipts, result>>
    <3>1. /\ stage = "order" /\ ~Succeeded'
          /\ UNCHANGED <<manifest, policy, produced, receipts, order, outputs, position>>
      BY <1>3, <2>2 DEF Order, Succeeded, graphVars
    <3>. QED  BY <3>1, <2>2, <1>0, ReceiptsUnchanged DEF ReceiptInv
  <2>. QED  BY <1>1, <1>3, <2>1, <2>2 DEF Order
<1>4. CASE RunNode
  BY <1>4, RunNodeLinks
<1>5. CASE Succeed
  <2>1. /\ stage = "run" /\ stage' = "done"
        /\ UNCHANGED <<manifest, policy, produced, receipts, order, outputs, position>>
        /\ result' = Success(manifest, receipts, [n \in Exported |-> outputs[n]])
        /\ Exported' = Exported
    BY <1>5 DEF Succeed, graphVars, Exported
  <2>2. Success(manifest, receipts, [n \in Exported |-> outputs[n]])'
          = Success(manifest, receipts, [n \in Exported |-> outputs[n]])
    BY <2>1 DEF Success, LastDigest, Digest, Terminal, Genesis
  <2>. QED  BY <2>1, <2>2, <1>0, ReceiptsUnchanged DEF ReceiptInv
<1>6. CASE UNCHANGED vars
  <2>1. /\ UNCHANGED <<manifest, policy, produced, receipts, order, outputs, position>>
        /\ stage' = stage /\ result' = result /\ Exported' = Exported
    BY <1>6 DEF vars, runVars, graphVars, Exported
  <2>2. Success(manifest, receipts, [n \in Exported |-> outputs[n]])'
          = Success(manifest, receipts, [n \in Exported |-> outputs[n]])
    BY <2>1 DEF Success, LastDigest, Digest, Terminal, Genesis
  <2>. QED  BY <2>1, <2>2, <1>0, ReceiptsUnchanged DEF ReceiptInv, Succeeded
<1>. QED
  BY <1>1, <1>2, <1>3, <1>4, <1>5, <1>6 DEF Next, WallBudget, NodeFails, EgressFails,
     Returned

(* The receipts are linked throughout every execution. *)
THEOREM ReceiptInvariant == Spec => [](U0Inv /\ ReceiptInv)
<1>1. Init => ReceiptInv
  <2>. SUFFICES ASSUME Init PROVE ReceiptInv
    OBVIOUS
  <2>1. receipts \in Seq({}) /\ Len(receipts) = 0 /\ position = 0
    BY DEF Init
  <2>2. EffectiveOutput \in Nat
    <3>1. manifest.maxOutput \in Nat /\ policy.maxOutput \in Nat
      BY InitU0Inv, DataTypes DEF U0Inv, Manifest, Policy
    <3>. QED  BY <3>1 DEF EffectiveOutput, Least
  <2>3. ~Succeeded /\ stage = "validate" /\ produced = 0
    BY DEF Init, Succeeded
  <2>. QED  BY <2>1, <2>2, <2>3 DEF ReceiptInv
<1>. QED  BY <1>1, ReceiptStep, U0Invariant, PTL DEF Spec

(* A result that an execution seals always verifies against its manifest. *)
THEOREM ResultsVerifyHolds == Spec => []ResultsVerify
<1>1. U0Inv /\ ReceiptInv => ResultsVerify
  <2>. SUFFICES ASSUME U0Inv, ReceiptInv, Succeeded PROVE Verifies(result, manifest)
    BY DEF ResultsVerify
  <2>. DEFINE exports == [n \in Exported |-> outputs[n]]
  <2>1. result = Success(manifest, receipts, exports)
    BY DEF ReceiptInv
  <2>2. /\ result.status = "succeeded" /\ result.manifest = Digest(manifest)
        /\ result.receipts = receipts /\ result.count = Len(receipts)
        /\ result.last = LastDigest(receipts) /\ result.exports = exports
        /\ result.exportsDigest = Digest(exports)
        /\ result.terminal = Terminal(Digest(manifest), Len(receipts),
                                      LastDigest(receipts), Digest(exports))
    BY <2>1 DEF Success
  <2>3. /\ position = Len(order) /\ DOMAIN receipts = 1 .. position
        /\ DOMAIN order = 1 .. position
        /\ position \in Nat
    BY OrderIsShort DEF U0Inv, ReceiptInv, Concluded
  <2>4. ChainVerifies(result)
    <3>1. \A i \in 1 .. position : Linked(i)
      BY DEF ReceiptInv
    <3>2. \A i \in 1 .. position : \A k \in 1 .. (i - 1) :
            receipts[k].node # receipts[i].node
      <4>. SUFFICES ASSUME NEW i \in 1 .. position, NEW k \in 1 .. (i - 1)
                    PROVE  receipts[k].node # receipts[i].node
        OBVIOUS
      <4>1. k \in 1 .. position /\ k # i
        BY <2>3
      <4>2. order[k] # order[i]
        BY <4>1, <2>3 DEF U0Inv, GraphInv, OrderRespectsRefs
      <4>. QED  BY <4>1, <4>2, <3>1 DEF Linked
    <3>. QED  BY <3>1, <3>2, <2>2, <2>3 DEF ChainVerifies, Linked
  <2>5. ExportsVerify(result)
    <3>1. ASSUME NEW n \in Exported
          PROVE  \E i \in DOMAIN receipts : /\ receipts[i].node = n
                                             /\ receipts[i].output = Digest(exports[n])
      <4>1. n \in Ran
        BY AllHaveRun DEF Exported
      <4>2. PICK i \in 1 .. position : order[i] = n
        BY <4>1 DEF Ran
      <4>3. receipts[i].node = n /\ receipts[i].output = Digest(outputs[n])
        BY <4>2 DEF ReceiptInv, Linked
      <4>. QED  BY <4>2, <4>3, <2>3
    <3>. QED  BY <3>1, <2>2 DEF ExportsVerify
  <2>. QED  BY <2>2, <2>4, <2>5 DEF Verifies
<1>. QED  BY <1>1, ReceiptInvariant, PTL

(* What the manifest asks for never widens what the host allows. *)
THEOREM HostBoundsAlwaysHold == Spec => []HostBoundsHold
<1>1. U0Inv /\ ReceiptInv => HostBoundsHold
  <2>. SUFFICES ASSUME U0Inv, ReceiptInv, Succeeded
                PROVE  /\ Len(receipts) <= manifest.maxNodes
                       /\ Len(receipts) <= policy.maxNodes
                       /\ produced <= manifest.maxOutput /\ produced <= policy.maxOutput
                       /\ \A i \in DOMAIN receipts :
                            /\ manifest.nodes[receipts[i].node].op \in policy.ops
                            /\ receipts[i].place
                                 \in manifest.nodes[receipts[i].node].allowed
                                       \cap policy.places
    BY DEF HostBoundsHold
  <2>1. /\ manifest.maxNodes \in Nat /\ policy.maxNodes \in Nat
        /\ manifest.maxOutput \in Nat /\ policy.maxOutput \in Nat
        /\ produced \in Nat
    BY DataTypes DEF U0Inv, Manifest, Policy, TypeOK
  <2>2. /\ Len(receipts) \in Nat /\ Cardinality(Nodes) \in Nat
        /\ Len(receipts) <= Cardinality(Nodes) /\ position = Len(order)
        /\ DOMAIN receipts = 1 .. position /\ DOMAIN order = 1 .. position
    BY OrderIsShort DEF U0Inv, ReceiptInv, Concluded
  <2>3. Cardinality(Nodes) <= EffectiveNodes /\ produced <= EffectiveOutput
    BY DEF ReceiptInv, WithinNodeBudget
  <2>4. /\ Len(receipts) <= manifest.maxNodes /\ Len(receipts) <= policy.maxNodes
        /\ produced <= manifest.maxOutput /\ produced <= policy.maxOutput
    BY <2>1, <2>2, <2>3 DEF EffectiveNodes, EffectiveOutput, Least
  <2>5. ASSUME NEW i \in DOMAIN receipts
        PROVE  /\ manifest.nodes[receipts[i].node].op \in policy.ops
               /\ receipts[i].place \in manifest.nodes[receipts[i].node].allowed
                                          \cap policy.places
    <3>1. Linked(i) /\ order[i] \in Nodes
      BY <2>2 DEF ReceiptInv, U0Inv, TypeOK, GraphTypeOK
    <3>2. NodeFault(order[i]) = "none"
      BY <3>1 DEF U0Inv, Staged
    <3>. QED  BY <3>1, <3>2 DEF Linked, Permitted, NodeFault
  <2>. QED  BY <2>4, <2>5
<1>. QED  BY <1>1, ReceiptInvariant, PTL

-----------------------------------------------------------------------------
(* What verification accepts (Receipts): a seal is the seal of one result. *)

(* A receipt has the fields of a receipt and no other. *)
IsReceipt(x) ==
  x = [sequence |-> x.sequence, manifest |-> x.manifest, node |-> x.node,
       place |-> x.place, input |-> x.input, output |-> x.output,
       previous |-> x.previous, digest |-> x.digest]

(* A non-empty set of indices of a sequence has a greatest one. *)
LEMMA GreatestIndex ==
  ASSUME NEW n \in Nat, NEW D \in SUBSET (1 .. n), D # {}
  PROVE  \E i \in D : \A j \in D : j <= i
<1>. DEFINE Above(i) == (i + 1) .. n
            R == StrictSubsetOrdering(Nat)
            E == {Above(i) : i \in D}
<1>1. E \subseteq FiniteSubsetsOf(Nat) /\ E # {}
  <2>1. \A i \in D : Above(i) \subseteq Nat /\ IsFiniteSet(Above(i))
    BY FS_Interval
  <2>. QED  BY <2>1 DEF FiniteSubsetsOf
<1>2. ASSUME NEW i \in D, NEW j \in D, i < j
      PROVE  <<Above(j), Above(i)>> \in R
  <2>1. Above(j) \subseteq Above(i) /\ Above(i) \subseteq Nat
    BY <1>2
  <2>2. j \in Above(i) /\ j \notin Above(j)
    BY <1>2
  <2>. QED  BY <2>1, <2>2 DEF StrictSubsetOrdering
<1>3. IsWellFoundedOn(R, FiniteSubsetsOf(Nat))
  BY FS_StrictSubsetOrderingWellFounded
<1>. HIDE DEF R
<1>4. PICK s \in E : \A t \in E : ~(<<t, s>> \in R)
  <2>. HIDE DEF E
  <2>. QED  BY <1>1, <1>3, WFMin
<1>5. PICK i \in D : s = Above(i)
  OBVIOUS
<1>6. \A j \in D : ~(i < j)
  BY <1>2, <1>4, <1>5
<1>. QED  BY <1>6

(* A receipt whose digest is right is the only one with that digest. *)
LEMMA DigestPinsReceipt ==
  ASSUME NEW x, NEW y, IsReceipt(x), IsReceipt(y),
         x.digest = Digest(Body(x)), y.digest = Digest(Body(y)),
         Digest(Body(x)) = Digest(Body(y))
  PROVE  x = y
<1>1. Body(x) = Body(y)
  BY DEF Digest
<1>2. /\ x.sequence = y.sequence /\ x.manifest = y.manifest /\ x.node = y.node
      /\ x.place = y.place /\ x.input = y.input /\ x.output = y.output
      /\ x.previous = y.previous /\ x.digest = y.digest
  BY <1>1 DEF Body
<1>. QED  BY <1>2 DEF IsReceipt

(* Two results that verify and end in the same seal are equal in all that is
   verified: their manifest, each of their receipts, their exports
   (verify_result; digests are taken to be injective). *)
THEOREM SealPinsResult ==
  ASSUME NEW S, \A x \in S : IsReceipt(x),
         NEW r, NEW s, r.receipts \in Seq(S), s.receipts \in Seq(S),
         NEW m, NEW n, Verifies(r, m), Verifies(s, n), r.terminal = s.terminal
  PROVE  /\ m = n /\ r.manifest = s.manifest
         /\ r.receipts = s.receipts
         /\ r.exports = s.exports
<1>1. /\ r.manifest = s.manifest /\ r.count = s.count /\ r.last = s.last
      /\ r.exportsDigest = s.exportsDigest
  BY DEF Verifies, Terminal, Digest
<1>2. m = n /\ r.exports = s.exports
  BY <1>1 DEF Verifies, ExportsVerify, Digest
<1>. DEFINE len == Len(r.receipts)
            D == {i \in 1 .. len : r.receipts[i] # s.receipts[i]}
<1>3. /\ len \in Nat /\ Len(s.receipts) = len
      /\ DOMAIN r.receipts = 1 .. len /\ DOMAIN s.receipts = 1 .. len
      /\ LastDigest(r.receipts) = LastDigest(s.receipts)
  <2>1. /\ len \in Nat /\ DOMAIN r.receipts = 1 .. len
        /\ DOMAIN s.receipts = 1 .. Len(s.receipts)
    OBVIOUS
  <2>2. r.count = len /\ s.count = Len(s.receipts)
    BY DEF Verifies
  <2>3. r.last = LastDigest(r.receipts) /\ s.last = LastDigest(s.receipts)
    BY DEF Verifies
  <2>. QED  BY <1>1, <2>1, <2>2, <2>3
<1>4. \A i \in 1 .. len : /\ IsReceipt(r.receipts[i]) /\ IsReceipt(s.receipts[i])
                          /\ r.receipts[i].digest = Digest(Body(r.receipts[i]))
                          /\ s.receipts[i].digest = Digest(Body(s.receipts[i]))
  BY <1>3 DEF Verifies, ChainVerifies
<1>5. ASSUME NEW i \in 1 .. len, \A j \in 1 .. len : j > i => r.receipts[j] = s.receipts[j]
      PROVE  r.receipts[i] = s.receipts[i]
  <2>1. CASE i = len
    <3>1. r.receipts # << >> /\ s.receipts # << >>
      BY <1>3, <2>1
    <3>2. r.receipts[len].digest = s.receipts[len].digest
      BY <1>3, <3>1 DEF LastDigest
    <3>. QED  BY <1>4, <2>1, <3>2, DigestPinsReceipt
  <2>2. CASE i < len
    <3>1. i + 1 \in 1 .. len /\ i + 1 > i /\ i + 1 # 1 /\ (i + 1) - 1 = i
      BY <1>3, <2>2
    <3>2. r.receipts[i + 1].previous = s.receipts[i + 1].previous
      BY <1>5, <3>1
    <3>3. /\ r.receipts[i + 1].previous = Digest(Body(r.receipts[i]))
          /\ s.receipts[i + 1].previous = Digest(Body(s.receipts[i]))
      BY <1>3, <3>1 DEF Verifies, ChainVerifies
    <3>. QED  BY <1>4, <3>2, <3>3, DigestPinsReceipt
  <2>. QED  BY <1>3, <2>1, <2>2
<1>6. D = {}
  <2>. SUFFICES ASSUME D # {} PROVE FALSE
    OBVIOUS
  <2>1. PICK i \in D : \A j \in D : j <= i
    <3>. HIDE DEF D
    <3>1. D \in SUBSET (1 .. len)
      BY DEF D
    <3>. QED  BY <1>3, <3>1, GreatestIndex
  <2>2. \A j \in 1 .. len : j > i => r.receipts[j] = s.receipts[j]
    BY <2>1
  <2>. QED  BY <1>5, <2>2
<1>7. r.receipts = s.receipts
  BY <1>3, <1>6
<1>. QED  BY <1>1, <1>2, <1>7

(* Every receipt of an execution has the fields of a receipt and no other. *)
ReceiptsAreShaped == \A i \in DOMAIN receipts : IsReceipt(receipts[i])

LEMMA ShapeStep ==
  U0Inv /\ ReceiptInv /\ ReceiptsAreShaped /\ [Next]_vars => ReceiptsAreShaped'
<1>. SUFFICES ASSUME U0Inv, ReceiptInv, ReceiptsAreShaped, [Next]_vars
              PROVE  ReceiptsAreShaped'
  OBVIOUS
<1>1. CASE RunNode
  <2>1. PICK input, output :
          receipts' = Append(receipts, NextReceipt(receipts, manifest, Current,
                                                   Placement(Current), input, output))
    BY <1>1 DEF RunNode
  <2>. DEFINE new == NextReceipt(receipts, manifest, Current, Placement(Current),
                                 input, output)
  <2>2. IsReceipt(new)
    BY DEF NextReceipt, Sealed, IsReceipt
  <2>3. PICK S : receipts \in Seq(S)
    BY DEF ReceiptInv
  <2>. HIDE DEF new
  <2>4. receipts \in Seq(S \cup {new})
    BY <2>3, SeqWidens, Zenon
  <2>5. \A i \in DOMAIN receipts' : \/ i \in DOMAIN receipts /\ receipts'[i] = receipts[i]
                                   \/ receipts'[i] = new
    BY <2>1, <2>4 DEF new
  <2>. QED  BY <2>2, <2>5 DEF ReceiptsAreShaped
<1>2. CASE UNCHANGED receipts
  BY <1>2 DEF ReceiptsAreShaped
<1>3. RunNode \/ UNCHANGED receipts
  BY DEF Next, Validate, Order, WallBudget, NodeFails, EgressFails, Succeed, Returned,
     Reject, vars, runVars
<1>. QED  BY <1>1, <1>2, <1>3

(* A sequence without one of its elements, or with two exchanged, is over the
   same set. *)
LEMMA DamagedReceiptsType ==
  ASSUME NEW S, NEW rs \in Seq(S)
  PROVE  DamagedReceipts(rs) \subseteq Seq(S)
<1>1. /\ Len(rs) \in Nat /\ DOMAIN rs = 1 .. Len(rs)
      /\ \A k \in 1 .. Len(rs) : rs[k] \in S
  OBVIOUS
<1>2. ASSUME NEW i \in DOMAIN rs PROVE Without(rs, i) \in Seq(S)
  <2>1. SubSeq(rs, 1, i - 1) \in Seq(S)
    BY <1>1
  <2>2. SubSeq(rs, i + 1, Len(rs)) \in Seq(S)
    BY <1>1
  <2>. QED  BY <2>1, <2>2 DEF Without
<1>3. ASSUME NEW i \in DOMAIN rs, NEW j \in DOMAIN rs
      PROVE  [rs EXCEPT ![i] = rs[j], ![j] = rs[i]] \in Seq(S)
  BY <1>1
<1>. QED  BY <1>2, <1>3 DEF DamagedReceipts

(* What a damaged result still has: the seal, and receipts of the same shape. *)
LEMMA DamageKeepsSeal ==
  ASSUME NEW S, NEW sealed, sealed.receipts \in Seq(S),
         DOMAIN sealed = {"status", "manifest", "receipts", "count", "last", "exports",
                          "exportsDigest", "terminal"},
         sealed = [f \in DOMAIN sealed |-> sealed[f]],
         NEW r \in Damaged(sealed)
  PROVE  /\ r.receipts \in Seq(S)
         /\ r.terminal = sealed.terminal
         /\ r.receipts = sealed.receipts /\ r.exports = sealed.exports
              /\ r.manifest = sealed.manifest => r = sealed
<1>1. CASE \E s \in Seq(S) : r = [sealed EXCEPT !.receipts = s]
  BY <1>1
<1>2. CASE \E e : r = [sealed EXCEPT !.exports = e]
  BY <1>2
<1>3. CASE \E d : r = [sealed EXCEPT !.manifest = d]
  BY <1>3
<1>4. DamagedReceipts(sealed.receipts) \subseteq Seq(S)
  BY DamagedReceiptsType
<1>. QED  BY <1>1, <1>2, <1>3, <1>4 DEF Damaged

(* A sealed result that is damaged in one place does not verify, for every
   manifest, policy and length of the chain (verify_result). *)
THEOREM DamageAlwaysShows == Spec => []DamageShows
<1>1. ReceiptInv /\ ReceiptsAreShaped /\ ResultsVerify => DamageShows
  <2>. SUFFICES ASSUME ReceiptInv, ReceiptsAreShaped, ResultsVerify, Succeeded,
                       NEW r \in Damaged(result), Verifies(r, manifest)
                PROVE  r = result
    BY DEF DamageShows
  <2>. DEFINE exports == [n \in Exported |-> outputs[n]]
  <2>1. result = Success(manifest, receipts, exports)
    BY DEF ReceiptInv
  <2>2. Verifies(result, manifest)
    BY DEF ResultsVerify
  <2>3. PICK V : receipts \in Seq(V)
    BY DEF ReceiptInv
  <2>. DEFINE S == {receipts[i] : i \in DOMAIN receipts}
  <2>4. receipts \in Seq(S) /\ \A x \in S : IsReceipt(x)
    BY <2>3 DEF ReceiptsAreShaped
  <2>. HIDE DEF exports, S
  <2>5. /\ result.receipts \in Seq(S)
        /\ DOMAIN result = {"status", "manifest", "receipts", "count", "last", "exports",
                            "exportsDigest", "terminal"}
        /\ result = [f \in DOMAIN result |-> result[f]]
    BY <2>1, <2>4 DEF Success
  <2>6. /\ r.receipts \in Seq(S) /\ r.terminal = result.terminal
        /\ r.receipts = result.receipts /\ r.exports = result.exports
             /\ r.manifest = result.manifest => r = result
    BY <2>5, DamageKeepsSeal
  <2>7. /\ r.receipts = result.receipts /\ r.exports = result.exports
        /\ r.manifest = result.manifest
    BY <2>2, <2>4, <2>5, <2>6, SealPinsResult
  <2>. QED  BY <2>6, <2>7
<1>2. Init => ReceiptsAreShaped
  BY DEF Init, ReceiptsAreShaped
<1>. QED  BY <1>1, <1>2, ShapeStep, ReceiptInvariant, ResultsVerifyHolds, PTL DEF Spec

-----------------------------------------------------------------------------
(* How long an execution can take. *)

SortingLeft ==
  CASE sorting = "count"   -> Cardinality(Nodes) + 3
    [] sorting = "heapify" -> Cardinality(Nodes) + 2
    [] sorting = "pop"     -> Cardinality(Nodes) - Len(order) + 1
    [] OTHER               -> 0

(* More steps than these an execution does not take from here. *)
StepsLeft ==
  CASE stage = "validate" -> 2 * Cardinality(Nodes) + 6
    [] stage = "order"    -> Cardinality(Nodes) + 2 + SortingLeft
    [] stage = "run"      -> 1 + Len(order) - position
    [] OTHER              -> 0

(* The bound is a number, and at the start it is twice the nodes and six. *)
StepsAreBounded == StepsLeft \in 0 .. (2 * Cardinality(Nodes) + 6)

(* Every step of execute and of _topological leaves fewer to take. *)
EveryStepCounts == [][StepsLeft' < StepsLeft]_vars

(* The order never holds more nodes than there are. *)
LEMMA SortingIsBounded ==
  ASSUME GraphInv
  PROVE  SortingLeft \in 0 .. (Cardinality(Nodes) + 3)
BY OrderIsShort DEF SortingLeft

(* The loop over the heap places a node in each round, and there are only so
   many. *)
LEMMA SortingRunsDown ==
  ASSUME GraphInv, GraphInv', GraphNext
  PROVE  SortingLeft' \in Int /\ SortingLeft' < SortingLeft
<1>1. /\ Cardinality(Nodes) \in Nat
      /\ Len(order) \in Nat /\ Len(order) <= Cardinality(Nodes)
  BY OrderIsShort
<1>2. Len(order)' \in Nat /\ Len(order)' <= Cardinality(Nodes)
  <2>1. IsFiniteSet(Nodes) /\ Placed' \subseteq Nodes
    BY FiniteNodes DEF GraphInv, GraphTypeOK, Placed
  <2>2. Cardinality(Placed') <= Cardinality(Nodes) /\ Cardinality(Placed') \in Nat
    BY <2>1, FS_Subset, FS_CardinalityType
  <2>. QED  BY <2>2 DEF GraphInv, AllDistinct
<1>3. CASE CountReferences
  BY <1>1, <1>3 DEF CountReferences, SortingLeft
<1>4. CASE Heapify
  BY <1>1, <1>2, <1>4 DEF Heapify, SortingLeft
<1>5. CASE PopLeast
  <2>1. sorting = "pop" /\ sorting' = "pop"
    BY <1>5 DEF PopLeast
  <2>2. Len(order)' = Len(order) + 1
    BY <1>5 DEF PopLeast, GraphInv, GraphTypeOK
  <2>. QED  BY <1>1, <1>2, <2>1, <2>2 DEF SortingLeft
<1>6. CASE Finish
  BY <1>1, <1>6 DEF Finish, SortingLeft
<1>. QED  BY <1>3, <1>4, <1>5, <1>6 DEF GraphNext

(* Nor has more run than was ordered. *)
LEMMA ExecutionIsBounded ==
  ASSUME U0Inv
  PROVE  StepsAreBounded
<1>1. /\ Cardinality(Nodes) \in Nat
      /\ Len(order) \in Nat /\ Len(order) <= Cardinality(Nodes)
  BY OrderIsShort DEF U0Inv
<1>2. SortingLeft \in 0 .. (Cardinality(Nodes) + 3)
  BY SortingIsBounded DEF U0Inv
<1>3. position \in 0 .. Len(order)
  BY DEF U0Inv, TypeOK
<1>. QED  BY <1>1, <1>2, <1>3 DEF StepsAreBounded, StepsLeft

(* Each stage leaves fewer steps than the one before it, and within a stage the
   nodes run out. *)
LEMMA ExecutionRunsDown ==
  ASSUME U0Inv, U0Inv', [Next]_vars, vars' # vars
  PROVE  StepsLeft' < StepsLeft
<1>1. /\ Cardinality(Nodes) \in Nat
      /\ Len(order) \in Nat /\ Len(order) <= Cardinality(Nodes)
  BY OrderIsShort DEF U0Inv
<1>2. SortingLeft \in 0 .. (Cardinality(Nodes) + 3)
  BY SortingIsBounded DEF U0Inv
<1>3. position \in 0 .. Len(order)
  BY DEF U0Inv, TypeOK
<1>4. CASE stage # "done" /\ stage' = "done"
  BY <1>1, <1>2, <1>3, <1>4 DEF StepsLeft, U0Inv, TypeOK, Stage
<1>5. CASE stage = "validate" /\ stage' = "order" /\ UNCHANGED graphVars
  <2>1. SortingLeft' = SortingLeft
    BY <1>5 DEF SortingLeft, graphVars
  <2>. QED  BY <1>1, <1>2, <1>5, <2>1 DEF StepsLeft
<1>6. CASE stage = "order" /\ stage' = "order" /\ GraphNext
  <2>1. SortingLeft' < SortingLeft /\ SortingLeft' \in Int
    BY <1>6, SortingRunsDown DEF U0Inv
  <2>. QED  BY <1>1, <1>2, <1>6, <2>1 DEF StepsLeft
<1>7. CASE stage = "order" /\ stage' = "run" /\ UNCHANGED <<graphVars, position>>
  BY <1>1, <1>2, <1>3, <1>7 DEF StepsLeft, graphVars
<1>8. CASE RunNode
  <2>1. /\ stage = "run" /\ stage' = "run" /\ order' = order
        /\ position' = position + 1
    BY <1>8 DEF RunNode, graphVars
  <2>. QED  BY <1>1, <1>3, <2>1 DEF StepsLeft
<1>9. \/ stage # "done" /\ stage' = "done"
      \/ stage = "validate" /\ stage' = "order" /\ UNCHANGED graphVars
      \/ stage = "order" /\ stage' = "order" /\ GraphNext
      \/ stage = "order" /\ stage' = "run" /\ UNCHANGED <<graphVars, position>>
      \/ RunNode
  <2>1. CASE Validate
    BY <2>1 DEF Validate, Reject
  <2>2. CASE Order
    BY <2>2 DEF Order, Reject, runVars
  <2>3. CASE WallBudget \/ NodeFails \/ EgressFails \/ Succeed
    BY <2>3 DEF WallBudget, NodeFails, EgressFails, Succeed, Reject
  <2>. QED  BY <2>1, <2>2, <2>3 DEF Next, Returned
<1>. QED  BY <1>4, <1>5, <1>6, <1>7, <1>8, <1>9

(* No execution goes on for ever, whatever the manifest: none of its steps leaves
   as many still to take, and twice the nodes and six are enough
   (UniversalRuntime.execute, _topological). *)
THEOREM ExecutionsAreShort == Spec => []StepsAreBounded /\ EveryStepCounts
<1>1. U0Inv /\ U0Inv' /\ [Next]_vars => [StepsLeft' < StepsLeft]_vars
  BY ExecutionRunsDown
<1>2. U0Inv => StepsAreBounded
  BY ExecutionIsBounded
<1>. QED  BY <1>1, <1>2, U0Invariant, PTL DEF Spec, EveryStepCounts
=============================================================================
