----------------------------- MODULE U0Execution -----------------------------
(***************************************************************************)
(* One execution of a manifest by UniversalRuntime (runtime.py): it is     *)
(* validated against the host policy (model.py), its nodes are ordered     *)
(* (ManifestOrder) and run one by one, and what is to be exported passes   *)
(* the host's egress rules before the result is sealed.                    *)
(*                                                                         *)
(* A node's value is abstracted to the set of resources it was computed    *)
(* from, which is all that the classification rules are about.             *)
(***************************************************************************)
EXTENDS ManifestOrder, Receipts

CONSTANTS Resources,   \* resource identifiers
          Manifests,   \* manifests whose nodes are Nodes
          Policies,    \* host policies
          Ops, Places, \* operations and placements
          NoOutput

(* public, internal, confidential, secret *)
Rank == 0 .. 3
secret == 3
Absent == 4

Epistemic == {"fact", "claim", "hypothesis", "artifact", "secret"}

Flaw == {"none", "E_SCHEMA", "E_DUPLICATE_ID", "E_EFFECT"}

(* A node's "flaw" is a fault in its shape, if any; "fails" says whether its
   operation rejects the inputs it is given; "size" is the length of its
   canonical output. *)
Node == [flaw : Flaw, op : Ops, refs : SUBSET Ids, reads : SUBSET Resources,
         allowed : SUBSET Places, preferred : Places,
         class : Rank, epistemic : Epistemic, export : BOOLEAN,
         size : Nat, fails : BOOLEAN]

(* "defect" is the code of the first check outside the nodes that fails, if any. *)
Defect == {"none", "E_SCHEMA", "E_POLICY", "E_VERSION", "E_PROFILE",
           "E_MANIFEST_SIZE", "E_RESOURCE_LIMIT"}

Manifest == [defect : Defect, resources : [Resources -> Rank \cup {Absent}],
             nodes : [Nodes -> Node], maxNodes : Nat, maxOutput : Nat]

Policy == [ops : SUBSET Ops, places : SUBSET Places, maxClass : Rank,
           claimExport : BOOLEAN, maxNodes : Nat, maxOutput : Nat]

Envelope == [epistemic : Epistemic, class : Rank, value : SUBSET Resources]
NoResult == [status |-> "none"]

RefsOf(m) == [n \in Nodes |-> m.nodes[n].refs]

ASSUME ManifestsAssumption ==
  /\ Manifests \subseteq Manifest
  /\ Policies \subseteq Policy
  /\ \A m \in Manifests : RefsOf(m) \in Graphs
  /\ NoOutput \notin Envelope

VARIABLES manifest, policy,
          stage,     \* which part of execute runs
          position,  \* the nodes that have run, a prefix of the order
          outputs,   \* the envelope of each node that has run
          produced,  \* total_output
          receipts,
          result

runVars == <<manifest, policy, stage, position, outputs, produced, receipts, result>>
vars == <<graphVars, runVars>>

Stage == {"validate", "order", "run", "done"}

Init ==
  /\ manifest \in Manifests
  /\ policy \in Policies
  /\ refs = RefsOf(manifest) /\ GraphInit
  /\ stage = "validate"
  /\ position = 0
  /\ outputs = [n \in Nodes |-> NoOutput]
  /\ produced = 0
  /\ receipts = << >>
  /\ result = NoResult

-----------------------------------------------------------------------------
(* Mutant: the error is swallowed. *)
RejectSilently(code) ==
  /\ stage' = "done"
  /\ UNCHANGED <<graphVars, manifest, policy, position, outputs, produced, receipts,
                 result>>

(* Every error ends the execution with the same small result, whatever has
   been computed by then. *)
Reject(code) ==
  /\ stage' = "done"
  /\ result' = [status |-> "rejected", error |-> code]
  /\ UNCHANGED <<graphVars, manifest, policy, position, outputs, produced, receipts>>

Least(a, b) == IF a <= b THEN a ELSE b

EffectiveNodes == Least(manifest.maxNodes, policy.maxNodes)
WithinNodeBudget == Nodes # {} /\ Cardinality(Nodes) <= EffectiveNodes

(* validate_manifest: a check of a node that fails. *)
NodeFault(n) ==
  LET node == manifest.nodes[n]
  IN  IF node.flaw # "none" THEN node.flaw
      ELSE IF node.op \notin policy.ops THEN "E_OPERATION"
      ELSE IF node.preferred \notin node.allowed \/ node.allowed \cap policy.places = {}
        THEN "E_PLACEMENT"
      ELSE IF node.epistemic \notin {"fact", "artifact"} THEN "E_EPISTEMIC"
      ELSE "none"

Faults == {NodeFault(n) : n \in Nodes} \ {"none"}

Validate ==
  /\ stage = "validate"
  /\ \/ /\ manifest.defect # "none"
        /\ Reject(manifest.defect)
     \/ /\ manifest.defect = "none"
        /\ ~WithinNodeBudget
        /\ Reject("E_NODE_BUDGET")
     \/ /\ manifest.defect = "none"
        /\ WithinNodeBudget
        /\ \E code \in Faults : Reject(code)
     \/ /\ manifest.defect = "none"
        /\ WithinNodeBudget
        /\ Faults = {}
        /\ stage' = "order"
        /\ UNCHANGED <<graphVars, manifest, policy, position, outputs, produced,
                       receipts, result>>

Order ==
  /\ stage = "order"
  /\ \/ GraphNext /\ UNCHANGED runVars
     \/ sorting \in {"E_REFERENCE", "E_CYCLE"} /\ Reject(sorting)
     \/ /\ sorting = "ordered"
        /\ stage' = "run"
        /\ UNCHANGED <<graphVars, manifest, policy, position, outputs, produced,
                       receipts, result>>
-----------------------------------------------------------------------------
Current == order[position + 1]

InputClasses(n) ==
  {manifest.resources[r] : r \in manifest.nodes[n].reads}
    \cup {outputs[m].class : m \in manifest.nodes[n].refs}

(* Mutant: only what the manifest classifies counts, not what was computed. *)
DowngradesResource(n) ==
  \E c \in {manifest.resources[r] : r \in manifest.nodes[n].reads} :
    c > manifest.nodes[n].class

Downgrades(n) == \E c \in InputClasses(n) : c > manifest.nodes[n].class

Unresolved(n) == \/ \E r \in manifest.nodes[n].reads : manifest.resources[r] = Absent
                 \/ \E m \in manifest.nodes[n].refs : outputs[m] = NoOutput

(* The inputs of a node, looked up among the resources and the outputs so far. *)
Resolved(n) ==
  [reads  |-> manifest.nodes[n].reads,
   values |-> {outputs[m].value : m \in manifest.nodes[n].refs}]

(* Mutant: what comes from other nodes is forgotten. *)
OwnReads(n) == Resolved(n).reads

(* An operation computes its value from all of its inputs and from nothing else. *)
ValueOf(n) == Resolved(n).reads \cup UNION Resolved(n).values

(* The preferred placement if the host permits it, or another that it permits;
   which one is the alphabet's choice. *)
Placement(n) ==
  LET node == manifest.nodes[n]
      permitted == node.allowed \cap policy.places
  IN  IF node.preferred \in permitted THEN node.preferred
      ELSE CHOOSE place \in permitted : TRUE

(* The wall-clock budget is looked at before each node and never after the
   last one. *)
WallBudget ==
  /\ stage = "run"
  /\ position < Len(order)
  /\ Reject("E_WALL_BUDGET")

(* Mutant: the host's bound on output is not applied. *)
RequestedOutput == manifest.maxOutput

EffectiveOutput == Least(manifest.maxOutput, policy.maxOutput)

RunError(n) ==
  IF Unresolved(n) THEN "E_REFERENCE"
  ELSE IF Downgrades(n) THEN "E_CLASSIFICATION_DOWNGRADE"
  ELSE IF manifest.nodes[n].fails THEN "E_INPUT"
  ELSE IF produced + manifest.nodes[n].size > EffectiveOutput THEN "E_OUTPUT_BUDGET"
  ELSE "none"

NodeFails ==
  /\ stage = "run"
  /\ position < Len(order)
  /\ RunError(Current) # "none"
  /\ Reject(RunError(Current))

RunNode ==
  /\ stage = "run"
  /\ position < Len(order)
  /\ RunError(Current) = "none"
  /\ LET n == Current
         output == [epistemic |-> manifest.nodes[n].epistemic,
                    class |-> manifest.nodes[n].class, value |-> ValueOf(n)]
     IN  /\ outputs' = [outputs EXCEPT ![n] = output]
         /\ produced' = produced + manifest.nodes[n].size
         /\ receipts' = Append(receipts, NextReceipt(receipts, manifest, n,
                                                     Placement(n), Resolved(n), output))
  /\ position' = position + 1
  /\ UNCHANGED <<graphVars, manifest, policy, stage, result>>
-----------------------------------------------------------------------------
Exported == {n \in Nodes : manifest.nodes[n].export}

(* The host's ceiling, its rule on claims, and secrets whatever the ceiling. *)
EgressError(n) ==
  IF outputs[n].class > policy.maxClass THEN "E_EGRESS_CLASSIFICATION"
  ELSE IF outputs[n].epistemic \in {"claim", "hypothesis"} /\ ~policy.claimExport
    THEN "E_EPISTEMIC_EGRESS"
  ELSE IF outputs[n].class = secret \/ outputs[n].epistemic = "secret"
    THEN "E_SECRET_EGRESS"
  ELSE "none"

EgressFails ==
  /\ stage = "run"
  /\ position = Len(order)
  /\ \E i \in DOMAIN order :
       /\ order[i] \in Exported
       /\ EgressError(order[i]) # "none"
       /\ \A k \in 1 .. (i - 1) :
            order[k] \in Exported => EgressError(order[k]) = "none"
       /\ Reject(EgressError(order[i]))

Succeed ==
  /\ stage = "run"
  /\ position = Len(order)
  /\ \A n \in Exported : EgressError(n) = "none"
  /\ stage' = "done"
  /\ result' = Success(manifest, receipts, [n \in Exported |-> outputs[n]])
  /\ UNCHANGED <<graphVars, manifest, policy, position, outputs, produced, receipts>>

(* The execution has returned. *)
Returned == stage = "done" /\ UNCHANGED vars

Next == \/ Validate
        \/ Order
        \/ WallBudget
        \/ NodeFails
        \/ RunNode
        \/ EgressFails
        \/ Succeed
        \/ Returned

Spec == Init /\ [][Next]_vars

(* The execution is one thread that is never blocked. *)
FairSpec == Spec /\ WF_vars(Next)
-----------------------------------------------------------------------------
(* Every variable stays in its range. *)
TypeOK ==
  /\ GraphTypeOK
  /\ manifest \in Manifests /\ policy \in Policies
  /\ refs = RefsOf(manifest)
  /\ stage \in Stage
  /\ position \in 0 .. Len(order)
  /\ outputs \in [Nodes -> Envelope \cup {NoOutput}]
  /\ produced \in Nat
  /\ result.status \in {"none", "rejected", "succeeded"}
  /\ stage = "done" <=> result.status # "none"

Succeeded == stage = "done" /\ result.status = "succeeded"

(* When a node's turn comes, everything it refers to has run. *)
SourcesHaveRun ==
  stage = "run" /\ position < Len(order) =>
    \A m \in refs[Current] : outputs[m] # NoOutput

(* The nodes that a node's value is computed from, itself included. *)
Closed(S) == \A k \in S : refs[k] \subseteq S
Reaches(n) == {m \in Nodes : \A S \in SUBSET Nodes : n \in S /\ Closed(S) => m \in S}

(* Nothing that is exported was computed, over any number of nodes, from a
   resource that is secret or above the host's ceiling. *)
NothingLeaks ==
  Succeeded =>
    \A n \in DOMAIN result.exports : \A m \in Reaches(n) :
      \A r \in manifest.nodes[m].reads :
        /\ manifest.resources[r] <= policy.maxClass
        /\ manifest.resources[r] # secret

(* An exported value was computed from the resources that the manifest's graph
   says, whatever the order the nodes ran in. *)
ValuesFollowTheGraph ==
  Succeeded =>
    \A n \in DOMAIN result.exports :
      result.exports[n].value = UNION {manifest.nodes[m].reads : m \in Reaches(n)}

(* Only facts and artifacts are exported, even by a host that allows claims. *)
ClaimsStayInside ==
  Succeeded =>
    \A n \in DOMAIN result.exports : result.exports[n].epistemic \in {"fact", "artifact"}

(* What the manifest asks for never widens what the host allows: operations,
   placements, nodes and output stay within both. *)
HostBoundsHold ==
  Succeeded =>
    /\ Len(receipts) <= manifest.maxNodes /\ Len(receipts) <= policy.maxNodes
    /\ produced <= manifest.maxOutput /\ produced <= policy.maxOutput
    /\ \A i \in DOMAIN receipts :
         LET node == manifest.nodes[receipts[i].node]
         IN  /\ node.op \in policy.ops
             /\ receipts[i].place \in node.allowed \cap policy.places

(* A sealed result verifies against its manifest, and one that has been damaged
   in one place does not: a receipt lost or two of them exchanged, an exported
   envelope changed or missing, the result taken for another manifest's. *)
ResultsVerify == Succeeded => Verifies(result, manifest)

Without(s, i) == SubSeq(s, 1, i - 1) \o SubSeq(s, i + 1, Len(s))

DamagedReceipts(s) ==
  {Without(s, i) : i \in DOMAIN s}
  \cup {[s EXCEPT ![i] = s[j], ![j] = s[i]] : i, j \in DOMAIN s}

DamagedExports(e) ==
  {[e EXCEPT ![n].class = c] : n \in DOMAIN e, c \in Rank}
  \cup {[n \in DOMAIN e \ {k} |-> e[n]] : k \in DOMAIN e}

Damaged(r) ==
  {[r EXCEPT !.receipts = s] : s \in DamagedReceipts(r.receipts)}
  \cup {[r EXCEPT !.exports = e] : e \in DamagedExports(r.exports)}
  \cup {[r EXCEPT !.manifest = Digest(m)] : m \in Manifests}

DamageShows ==
  Succeeded => \A r \in Damaged(result) : r # result => ~Verifies(r, manifest)

(* Every execution ends, a manifest with a cycle included. *)
EveryExecutionEnds == <>(stage = "done")
=============================================================================
