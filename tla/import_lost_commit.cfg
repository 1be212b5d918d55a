\* Two uploads of one content to two data sources.
SPECIFICATION ImportSpec
CONSTANTS
  q1 = q1
  q2 = q2
  q3 = q3
  s1 = s1
  s2 = s2
  c1 = c1
  Uploads = {q1, q2}
  DataSources = {s1, s2}
  Contents = {c1}
INVARIANT BatchHasFile
CHECK_DEADLOCK FALSE
