SPECIFICATION Spec
CONSTANTS
  Runners = {j1, j2, j3}
  AttemptCount = 2
  StageCount = 2
  GenBound = 3
  MaxRecoveries = 1
SYMMETRY Symmetry
INVARIANTS TypeOK CloseoutBacked EveryStageOnce
CHECK_DEADLOCK FALSE
