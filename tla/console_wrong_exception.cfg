\* Two exceptions on one page.
SPECIFICATION ConsoleSpec
CONSTANTS
  ann = ann
  rob = rob
  r1 = r1
  s1 = s1
  Users = {ann, rob}
  CanHold <- MCCanHold
  Runs = {r1}
  Exceptions = {e1, e2}
  RunOf <- MCRunOf
  PeriodOf <- MCPeriodOf
  NoRun = NoRun
  NoUser = NoUser
  Unresolved = Unresolved
  Steps = {s1}
  ShortSteps = {}
  Replies <- MCReplies
  MaxVersion = 3
  MaxItems = 0
  MaxSuggestions = 0
  Consoles = {rob}
  Blank = Blank
  MaxRequests = 2
PROPERTY
  DecidesShownException
CHECK_DEADLOCK FALSE
