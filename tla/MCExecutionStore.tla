-------------------------- MODULE MCExecutionStore --------------------------
(* A small instance of ExecutionStore for TLC. *)
EXTENDS ExecutionStore

CONSTANTS p1, p2, i1, i2, wide, narrow

Manifest(id, content) == [id |-> id, content |-> content]

(* Two manifests reuse one identifier, one has its own and one has none. *)
SomeManifests == {Manifest(i1, "first"), Manifest(i1, "changed"),
                  Manifest(i2, "other"), Manifest(NoId, "anonymous")}

(* The narrow policy admits the anonymous manifest only. *)
SomeFitting == (SomeManifests \X {wide}) \cup {<<Manifest(NoId, "anonymous"), narrow>>}
=============================================================================
