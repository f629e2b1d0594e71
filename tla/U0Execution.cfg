\* Three nodes, one resource.
SPECIFICATION FairSpec
CONSTANTS
  Nodes = {1, 2, 3}
  Ids = {1, 2, 3, 4}
  Graphs <- AllGraphs
  Resources = {r}
  Manifests <- SmallManifests
  Policies <- SmallPolicies
  Ops = {"identity", "concat"}
  Places = {"local", "edge"}
  NoOutput = NoOutput
INVARIANTS
  TypeOK
  NothingLeaks
  ValuesFollowTheGraph
  HostBoundsHold
  ResultsVerify
  DamageShows
  CycleExactly
  FirstOfAllOrders
PROPERTIES
  EveryExecutionEnds
