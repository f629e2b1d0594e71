CONSTANTS
  p1 = p1  p2 = p2  i1 = i1  i2 = i2  wide = wide  narrow = narrow
  Procs = {p1, p2}
  Ids = {i1, i2}
  Manifests <- SomeManifests
  Policies = {wide, narrow}
  Fitting <- SomeFitting
  NoId = NoId  NoRow = NoRow  NoProc = NoProc
  NoManifest = NoManifest  NoPolicy = NoPolicy
SPECIFICATION FairSpec
INVARIANTS TypeOK ExecutesOnlyWhenFree VerifyTellsOrigin
PROPERTIES ImplementsDurableOnce EveryProcessEnds
