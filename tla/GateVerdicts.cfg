SPECIFICATION Spec
CONSTANTS
  change = change
  report = report
  suite = suite
  app = app
  checker = checker
  unit = unit
  solution = solution
  check = check
  lint = lint
  inline = inline
  broken = broken
  Outside = outside
  Tasks = {change, report}
  Files = {checker, unit, solution}
  Dirs = {suite, app}
  Above <- MCAbove
  Commands = {check, lint, inline, broken}
  Parsable = {check, lint, inline}
  Runnable = {check, lint}
  Wiring = {check, inline}
  Protected <- MCProtected
  Specs <- MCSpecs
  CheckerOf <- MCCheckerOf
INVARIANTS TypeOK VerdictExact 
CHECK_DEADLOCK FALSE
