SPECIFICATION Spec
CONSTANTS
  m1 = m1
  Models = {m1, m2}
  Preference <- MCPreference
  Runs = {r1, r2}
  MaxAttempts = 2
  Inactivity = 2
  ProbeLimit = 2
  ContinuousLimit = 5
  BackoffFrom = 3
  BackoffBase = 1
  MaxBackoff = 2
  ResultBound = 2
INVARIANT OutcomesConserved
