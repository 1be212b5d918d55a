\* Two requests for suggestions while the exception is claimed, submitted and decided.
SPECIFICATION MCSpec
CONSTANTS
  ann = ann
  bob = bob
  e1 = e1
  r1 = r1
  s1 = s1
  q1 = q1
  q2 = q2
  Users = {ann, bob}
  CanHold <- MCCanHold
  Runs = {r1}
  Exceptions = {e1}
  RunOf <- MCRunOf
  PeriodOf <- MCPeriodOf
  NoRun = NoRun
  NoUser = NoUser
  Unresolved = Unresolved
  Steps = {s1}
  ShortSteps = {}
  Replies <- MCReplies
  MaxVersion = 3
  MaxItems = 0
  MaxSuggestions = 2
  Asks = {q1, q2}
INVARIANTS
  SuggestionsAreAccounted
PROPERTIES
  ImplementsWorkflow
  AsksEnd
CHECK_DEADLOCK FALSE
