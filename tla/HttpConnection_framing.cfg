\* Bodies that the server does not read.
SPECIFICATION Spec
CONSTANTS
  Requests <- Stray
  MaxRequests = 2
INVARIANTS
  BodiesAreDrained
CHECK_DEADLOCK FALSE
