SPECIFICATION Spec
CONSTANTS
  MaxContent = 2
  MaxCalls = 2
  Parts = 2
INVARIANTS TypeOK AcceptedWhole NoFalseAlarm
CHECK_DEADLOCK FALSE
