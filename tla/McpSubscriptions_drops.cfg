\* One subscription to both kinds of lists.
SPECIFICATION Spec
CONSTANTS
  Subscribers = {s1}
  Publishers = {p1}
  Kinds = {tools, prompts}
  Capacity = 2
  NoKind = NoKind
INVARIANTS
  DropsAreRedundant
