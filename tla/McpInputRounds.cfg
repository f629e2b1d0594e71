SPECIFICATION FairSpec
CONSTANTS
  Clients = {c1}
  Tools = {"sampling", "request_state", "multiple_inputs", "multi_round", "capabilities"}
INVARIANT RoundsPrecede
PROPERTY ObedientClientsFinish
