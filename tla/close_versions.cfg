\* Three requests over the versions of one period, whose run has an exception to resolve.
SPECIFICATION CloseSpec
CONSTANTS
  r1 = r1
  r2 = r2
  r3 = r3
  r4 = r4
  e1 = e1
  e2 = e2
  Runs = {r1}
  Exceptions = {e1}
  RunOf <- MCRunOf
  PeriodOf <- MCPeriodOf
  NoRun = NoRun
  Unresolved = Unresolved
  Requests = {q1, q2, q3}
  Bounds = {1}
  RecordsOf <- MCRecordsOf
  MaxVersions = 2
INVARIANTS
  VersionsFormChain
  CreateNeverConflicts
  WritableExactlyWhileOpen
PROPERTIES
  ImplementsVersions
  RequestsAreAnswered
CHECK_DEADLOCK FALSE
