---------------------------- MODULE ManifestOrder ----------------------------
(***************************************************************************)
(* The order in which the nodes of a U0 manifest run (_topological in      *)
(* model.py): Kahn's algorithm over the references between nodes, with a   *)
(* heap that yields the least identifier among those that are ready.       *)
(*                                                                         *)
(* Identifiers are numbers, compared as the code compares strings.         *)
(***************************************************************************)
EXTENDS Naturals, Sequences, FiniteSets

CONSTANTS Nodes,   \* the identifiers of a manifest's nodes
          Ids,     \* the identifiers that an input may refer to
          Graphs   \* the reference graphs considered

ASSUME NodesAssumption ==
  /\ Ids \subseteq Nat /\ IsFiniteSet(Ids)
  /\ Nodes \subseteq Ids
  /\ Graphs \subseteq [Nodes -> SUBSET Ids]

VARIABLES refs,      \* refs_by_node: what the inputs of each node refer to
          indegree,  \* references of a node that have not been placed yet
          queue,     \* the heap of ready nodes
          order,     \* the nodes placed so far
          sorting    \* where the algorithm stands

graphVars == <<refs, indegree, queue, order, sorting>>

Sorting == {"count", "heapify", "pop", "ordered", "E_REFERENCE", "E_CYCLE"}

Placed == {order[i] : i \in DOMAIN order}

GraphInit ==
  /\ refs \in Graphs
  /\ indegree = [n \in Nodes |-> 0]
  /\ queue = {}
  /\ order = << >>
  /\ sorting = "count"

-----------------------------------------------------------------------------
Dangling == \E n \in Nodes : ~(refs[n] \subseteq Nodes)

CountReferences ==
  /\ sorting = "count"
  /\ \/ /\ Dangling
        /\ sorting' = "E_REFERENCE"
        /\ UNCHANGED indegree
     \/ /\ ~Dangling
        /\ indegree' = [n \in Nodes |-> Cardinality(refs[n])]
        /\ sorting' = "heapify"
  /\ UNCHANGED <<refs, queue, order>>

Heapify ==
  /\ sorting = "heapify"
  /\ queue' = {n \in Nodes : indegree[n] = 0}
  /\ sorting' = "pop"
  /\ UNCHANGED <<refs, indegree, order>>

(* Mutant: a list used as a stack instead of the heap. *)
PopGreatest ==
  /\ sorting = "pop"
  /\ \E current \in queue :
       LET children == {n \in Nodes : current \in refs[n]}
       IN  /\ \A n \in queue : n <= current
           /\ order' = Append(order, current)
           /\ indegree' = [n \in Nodes |->
                             IF n \in children THEN indegree[n] - 1 ELSE indegree[n]]
           /\ queue' = (queue \ {current}) \cup {n \in children : indegree[n] = 1}
  /\ UNCHANGED <<refs, sorting>>

(* Each child of the node that leaves the heap has one reference less to wait
   for, and enters the heap with its last. *)
PopLeast ==
  /\ sorting = "pop"
  /\ \E current \in queue :
       LET children == {n \in Nodes : current \in refs[n]}
       IN  /\ \A n \in queue : current <= n
           /\ order' = Append(order, current)
           /\ indegree' = [n \in Nodes |->
                             IF n \in children THEN indegree[n] - 1 ELSE indegree[n]]
           /\ queue' = (queue \ {current}) \cup {n \in children : indegree[n] = 1}
  /\ UNCHANGED <<refs, sorting>>

(* Mutant: what could not be placed is dropped. *)
FinishPartial ==
  /\ sorting = "pop"
  /\ queue = {}
  /\ sorting' = "ordered"
  /\ UNCHANGED <<refs, indegree, queue, order>>

(* Mutant: the loop waits for the nodes that are missing. *)
FinishComplete ==
  /\ sorting = "pop"
  /\ queue = {}
  /\ Len(order) = Cardinality(Nodes)
  /\ sorting' = "ordered"
  /\ UNCHANGED <<refs, indegree, queue, order>>

Finish ==
  /\ sorting = "pop"
  /\ queue = {}
  /\ sorting' = IF Len(order) = Cardinality(Nodes) THEN "ordered" ELSE "E_CYCLE"
  /\ UNCHANGED <<refs, indegree, queue, order>>

GraphNext == CountReferences \/ Heapify \/ PopLeast \/ Finish

GraphSpec == GraphInit /\ [][GraphNext]_graphVars

-----------------------------------------------------------------------------
(* Every variable stays in its range. *)
GraphTypeOK ==
  /\ refs \in Graphs
  /\ indegree \in [Nodes -> Nat]
  /\ queue \subseteq Nodes
  /\ order \in Seq(Nodes)
  /\ sorting \in Sorting

(* A node is placed once, and only after everything it refers to. *)
OrderRespectsRefs ==
  \A j \in DOMAIN order :
    /\ refs[order[j]] \subseteq {order[i] : i \in 1 .. (j - 1)}
    /\ \A i \in DOMAIN order : order[i] = order[j] => i = j

(* The algorithm reports a cycle exactly when there is one, that is a set of
   nodes each of which refers into the set, and orders every node otherwise. *)
Cyclic(S) == S # {} /\ \A n \in S : refs[n] \cap S # {}

CycleExactly ==
  /\ sorting = "E_CYCLE" => \E S \in SUBSET Nodes : Cyclic(S)
  /\ sorting = "ordered" => /\ Placed = Nodes
                            /\ \A S \in SUBSET Nodes : ~Cyclic(S)

(* The order depends on the graph alone: of all the orders that respect the
   references it is the first in the dictionary. *)
Respects(s) ==
  \A j \in DOMAIN s : refs[s[j]] \subseteq {s[i] : i \in 1 .. (j - 1)}

Precedes(s, t) ==
  \E i \in DOMAIN s : s[i] < t[i] /\ \A k \in 1 .. (i - 1) : s[k] = t[k]

Arrangements ==
  {s \in [1 .. Cardinality(Nodes) -> Nodes] :
     \A i, j \in DOMAIN s : s[i] = s[j] => i = j}

FirstOfAllOrders ==
  sorting = "ordered" =>
    \A s \in Arrangements : Respects(s) => s = order \/ Precedes(order, s)
=============================================================================
