SPECIFICATION FairSpec
CONSTANTS
  Runs = {r1, r2}
  ModelCount = 3
  NameRank <- MCNameRank
  Concurrency = 2
  MaxToolRounds = 1
  MaxCalls = 2
INVARIANTS TypeOK WorkspacesIsolated PermitsBalance WinnerIsBest
PROPERTY RunsEnd
CHECK_DEADLOCK FALSE
