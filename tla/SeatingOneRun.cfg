SPECIFICATION Spec
CONSTANTS
  m1 = m1
  Models = {m1, m2}
  Preference <- MCPreference
  Runs = {r1}
  MaxAttempts = 6
  Inactivity = 2
  ProbeLimit = 2
  ContinuousLimit = 5
  BackoffFrom = 3
  BackoffBase = 1
  MaxBackoff = 2
  ResultBound = 6
INVARIANTS TypeOK OutcomesConserved ProbeBurstBounded NoFutileWake
PROPERTIES BackoffShared InactiveMeansProbe
