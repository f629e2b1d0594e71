\* Two subscriptions and two publications at a time over two kinds of lists.
SPECIFICATION FairSpec
CONSTANTS
  Subscribers = {s1, s2}
  Publishers = {p1}
  Kinds = {tools, prompts}
  Capacity = 2
  NoKind = NoKind
INVARIANTS
  TypeOK
  OpenIsServed
  OneKindMissesNothing
PROPERTIES
  EverySubscriptionEnds
