SPECIFICATION FairSpec
CONSTANTS
  None = None
  Steps = 3
  MaxAnswers = 3
  Contents = {"registration_ack", "task"}
INVARIANTS
  TypeOK
  CapturedInOrder
  MatchesOwnAnswer
PROPERTIES
  ResultIsKept
  FlowEnds
CHECK_DEADLOCK FALSE
