\* A resolution approved while a close is under way.
SPECIFICATION CloseSpec
CONSTANTS
  r1 = r1
  r2 = r2
  r3 = r3
  r4 = r4
  e1 = e1
  e2 = e2
  Runs = {r1, r3}
  Exceptions = {e1}
  RunOf <- MCRunOf
  PeriodOf <- MCPeriodOf
  NoRun = NoRun
  Unresolved = Unresolved
  Requests = {q1}
  Bounds = {1}
  RecordsOf <- MCRecordsOf
  MaxVersions = 1
INVARIANT
  LockedRunsNotSuperseded
CHECK_DEADLOCK FALSE
