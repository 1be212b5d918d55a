\* Uploads of two sources, runs under two keys, and a period that is locked and reopened.
SPECIFICATION MCSpec
CONSTANTS
  u1 = u1
  u2 = u2
  s1 = s1
  s2 = s2
  c = c
  z = z
  q1 = q1
  q2 = q2
  k = k
  l = l
  Uploads = {u1, u2}
  DataSources = {s1, s2}
  Contents = {c, z}
  Unmatchable = {z}
  RunRequests = {q1, q2}
  Keys = {k, l}
  MaxLocks = 1
INVARIANTS
  KeyHasOneRun
  RunAnswersAreTrue
  ReproducibleUnlessOverlapped
  ManifestsBalance
PROPERTIES
  ImplementsVersions
  RunRequestsEnd
CHECK_DEADLOCK FALSE
