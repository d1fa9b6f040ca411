SPECIFICATION PollSpec
CONSTANTS
  Runs = {r1, r2, r3}
  Sinks = {langfuse}
  MaxAttempts = 2
  MaxToolRounds = 1
  RetryDelay = 1
  Executable = TRUE
  NeedTelemetry = TRUE
  GenBound = 2
  MaxCrashes = 0
  MaxExpiries = 0
  MaxFaults = 0
  Timeout = 3
SYMMETRY Symmetry
INVARIANTS SkipIsCovered ReportStands
PROPERTY OneRunPerWait
CHECK_DEADLOCK FALSE
