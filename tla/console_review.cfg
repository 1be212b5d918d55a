\* One exception, with a checklist and an AI suggestion, on a page that may be old.
SPECIFICATION ConsoleSpec
CONSTANTS
  ann = ann
  rob = rob
  r1 = r1
  s1 = s1
  Users = {ann, rob}
  CanHold <- MCCanHold
  Runs = {r1}
  Exceptions = {e1}
  RunOf <- MCRunOf
  PeriodOf <- MCPeriodOf
  NoRun = NoRun
  NoUser = NoUser
  Unresolved = Unresolved
  Steps = {s1}
  ShortSteps = {}
  Replies <- MCReplies
  MaxVersion = 3
  MaxItems = 1
  MaxSuggestions = 1
  Consoles = {rob}
  Blank = Blank
  MaxRequests = 2
INVARIANTS
  FormsFitServer
PROPERTIES
  ActsOnWhatIsShown
CHECK_DEADLOCK FALSE
