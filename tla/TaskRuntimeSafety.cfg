CHECK_DEADLOCK FALSE
SPECIFICATION Spec
CONSTANTS
  Runs = {r1, r2}
  Sinks = {local, langfuse}
  MaxAttempts = 2
  MaxToolRounds = 1
  RetryDelay = 2
  Executable = TRUE
  NeedTelemetry = TRUE
  GenBound = 2
  MaxCrashes = 1
  MaxExpiries = 1
  MaxFaults = 1
SYMMETRY Symmetry
INVARIANTS
  TypeOK HumanGate VerifiedCompletion DistinctAttempts NoOrphanedExecution AttemptsAccounted
PROPERTIES
  KeepsProgress BackoffRespected
