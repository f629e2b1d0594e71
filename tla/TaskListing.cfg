CONSTANTS
  h1 = h1  k1 = k1  c1 = c1  c2 = c2
  Handlers = {h1}
  Keys = {k1}
  Contexts = {c1, c2}
  MaxFresh = 2
  Creates <- SomeCreates
  Follows <- SomeFollows
  Filters <- SomeFilters
  PageSize = 1
  MaxClock = 2
  NoKey = NoKey  NoContext = NoContext  NoTask = NoTask
  NoHandler = NoHandler  NoRequest = NoRequest
SPECIFICATION ListingSpec
INVARIANTS NothingUnchangedIsMissed
PROPERTIES TerminalStays HistoryGrows
