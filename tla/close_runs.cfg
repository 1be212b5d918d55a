\* What a close may lock while runs complete and resolutions are approved.
SPECIFICATION CloseSpec
CONSTANTS
  r1 = r1
  r2 = r2
  r3 = r3
  r4 = r4
  e1 = e1
  e2 = e2
  Runs = {r1, r2, r3, r4}
  Exceptions = {e1, e2}
  RunOf <- MCRunOf
  PeriodOf <- MCPeriodOf
  NoRun = NoRun
  Unresolved = Unresolved
  Requests = {q1}
  Bounds = {1, 2}
  RecordsOf <- MCRecordsOf
  MaxVersions = 1
INVARIANTS
  LockedRunsAreClean
  ReplacementsStayValid
  NoSupersessionCycle
  SupersededHasClosableRun
PROPERTIES
  LockedRunsStayCurrent
CHECK_DEADLOCK FALSE
