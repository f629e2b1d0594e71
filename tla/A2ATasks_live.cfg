CONSTANTS
  h1 = h1  h2 = h2  h3 = h3  k1 = k1  k2 = k2  c1 = c1  c2 = c2
  Handlers = {h1, h2}
  Keys = {k1, k2}
  Contexts = {c1, c2}
  MaxFresh = 2
  Creates <- TwoKeyCreates
  Follows = {}
  NoKey = NoKey  NoContext = NoContext  NoTask = NoTask
  NoHandler = NoHandler  NoRequest = NoRequest
SPECIFICATION FairSpec
INVARIANTS FreshIdsAreOwned
PROPERTIES EveryRequestAnswered
