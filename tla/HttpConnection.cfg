\* Two requests on a connection, bodies where no route looks for them included.
SPECIFICATION FairSpec
CONSTANTS
  Requests <- All
  MaxRequests = 2
INVARIANTS
  StartsAtHead
  AnswersInOrder
  OperationsAreEarned
  AnswersTellEffects
PROPERTIES
  EveryRequestSettles
CHECK_DEADLOCK FALSE
