\* Two tool calls over two sessions.
SPECIFICATION FairSpec
CONSTANTS
  Handlers = {h1, h2}
  Sessions = {s1, s2}
  Bodies = {b1, b2}
  NoSession = NoSession
  NoResponse = NoResponse
  Absent = Absent
INVARIANTS
  TypeOK
  WaitersCanBeWoken
  PendingIsTaken
  MissingMeansEnded
PROPERTIES
  ImplementsReplySlots
  EveryCallEnds
