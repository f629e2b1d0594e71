---------------------------- MODULE MCU0Execution ----------------------------
EXTENDS U0Execution

(* Graphs over three nodes: a chain, the same against the order of the
   identifiers, a fork, and a join. *)
SmallGraphs == {<<{}, {1}, {2}>>, <<{2}, {3}, {}>>, <<{3}, {3}, {}>>, <<{2, 3}, {}, {}>>}

NodeOf(refersTo, reading, cls, exp) ==
  [flaw |-> "none", op |-> "identity", refs |-> refersTo, reads |-> reading,
   allowed |-> {"local", "edge"}, preferred |-> "edge", class |-> cls,
   epistemic |-> "fact", export |-> exp, size |-> 1, fails |-> FALSE]

ManifestOf(graph, rank, reader, cls, exps) ==
  [defect |-> "none", resources |-> [r \in Resources |-> rank],
   nodes |-> [n \in Nodes |-> NodeOf(graph[n], IF n = reader THEN Resources ELSE {},
                                     cls[n], n \in exps)],
   maxNodes |-> 3, maxOutput |-> 3]

(* Every way that a resource of each rank can flow through declared classes. *)
FlowManifests ==
  {ManifestOf(graph, rank, reader, cls, exps) :
     graph \in SmallGraphs, rank \in {0, 1, secret, Absent}, reader \in Nodes,
     cls \in [Nodes -> {0, 1, secret}], exps \in {{3}, {1, 2}}}

Base == ManifestOf(<<{}, {1}, {2}>>, 0, 1, <<0, 0, 0>>, {1, 3})

(* One feature at a time away from a manifest that runs. *)
OddManifests ==
  {[Base EXCEPT !.defect = d] : d \in Defect}
  \cup {[Base EXCEPT !.nodes[n].flaw = f] : n \in Nodes, f \in Flaw}
  \cup {[Base EXCEPT !.maxNodes = k] : k \in {2, 4}}
  \cup {[Base EXCEPT !.maxOutput = k] : k \in {1, 2, 4}}
  \cup {[Base EXCEPT !.nodes[n].size = k] : n \in Nodes, k \in {0, 2}}
  \cup {[Base EXCEPT !.nodes[n].op = "concat"] : n \in Nodes}
  \cup {[Base EXCEPT !.nodes[n].fails = TRUE] : n \in Nodes}
  \cup {[Base EXCEPT !.nodes[n].epistemic = e] : n \in Nodes, e \in Epistemic}
  \cup {[Base EXCEPT !.nodes[n].allowed = a, !.nodes[n].preferred = p] :
          n \in Nodes, a \in SUBSET Places \ {{}}, p \in Places}

(* Every graph without loops, and the same with a third node that refers to
   anything, itself and an unknown node included. *)
AllGraphs == {<<first, second, third>> :
                first \in SUBSET {2, 3}, second \in SUBSET {1, 3}, third \in SUBSET Ids}

GraphManifests == {ManifestOf(graph, 0, 1, <<0, 0, 0>>, {1, 3}) : graph \in AllGraphs}

SmallManifests == FlowManifests \cup (OddManifests \cup GraphManifests)

SmallPolicies ==
  {[ops |-> {"identity"}, places |-> {"local"}, maxClass |-> c, claimExport |-> TRUE,
    maxNodes |-> 3, maxOutput |-> 3] : c \in {0, 1, secret}}
  \cup {[ops |-> {"identity", "concat"}, places |-> places, maxClass |-> 1,
         claimExport |-> FALSE, maxNodes |-> k, maxOutput |-> output] :
          places \in {{}, {"local", "edge"}}, k \in {2, 3}, output \in {2, 5}}

(* The authority predicate, on every request over two digests and every list of
   up to two effects. *)
A == INSTANCE Authority WITH Digests <- {"digest", "other"}, Malformed <- "malformed"

EffectLists == UNION {[1 .. k -> A!EffectClasses \cup {"malformed"}] : k \in 0 .. 2}

ASSUME AuthorityIsAsExpected ==
  \A allowed \in EffectLists :
    /\ \A request \in A!Request : A!AuthorizesAsExpected(request, allowed)
    /\ \A one, two \in {request \in A!Request : A!Authorized(request, allowed)} :
         A!ConsentIsForOneAction(one, two, allowed)
    /\ "consequential" \in A!Listed(allowed) /\ "malformed" \notin A!Listed(allowed)
       /\ Cardinality(DOMAIN allowed) = Cardinality(A!Listed(allowed))
       => \E request \in A!Request : A!NeedsConsent(request) /\ A!Authorized(request, allowed)
=============================================================================
