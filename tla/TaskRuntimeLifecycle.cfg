SPECIFICATION FairSpec
CONSTANTS
  Runs = {r1, r2}
  Sinks = {langfuse}
  MaxAttempts = 2
  MaxToolRounds = 1
  RetryDelay = 2
  Executable = TRUE
  NeedTelemetry = TRUE
  GenBound = 2
  MaxCrashes = 1
  MaxExpiries = 0
  MaxFaults = 0
PROPERTIES ImplementsLifecycle RunsReturn
CHECK_DEADLOCK FALSE
