SPECIFICATION Spec
CONSTANTS
  MaxToolRounds = 2
  MaxCalls = 2
  MaxAttempts = 2
  MaxRaises = 1
  MaxCrashes = 1
INVARIANTS TypeOK CountMatchesMessages UncutCallsAnswered
PROPERTY ConversationGrows
CHECK_DEADLOCK FALSE
