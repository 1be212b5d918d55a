\* One exception, with its checklist and AI suggestions.
SPECIFICATION Spec
CONSTANTS
  ann = ann
  bob = bob
  eve = eve
  r1 = r1
  r2 = r2
  r3 = r3
  r4 = r4
  e1 = e1
  e2 = e2
  e3 = e3
  s1 = s1
  s2 = s2
  Users = {ann, bob, eve}
  CanHold <- MCCanHold
  Runs = {r1, r3}
  Exceptions = {e1}
  RunOf <- MCRunOf
  PeriodOf <- MCPeriodOf
  NoRun = NoRun
  NoUser = NoUser
  Unresolved = Unresolved
  Steps = {s1, s2}
  ShortSteps = {}
  Replies <- MCReplies
  MaxVersion = 5
  MaxItems = 1
  MaxSuggestions = 1
INVARIANTS
  TypeOK
  PendingHasOneUndecided
  ResolvedByIndependentReview
  ReviewedWorkIsFinished
  ChecklistFollowsAdoptions
  TrailExplainsRow
PROPERTIES
  ChangesMoveVersion
  OwnershipIsHandedBack
  HistoryOnlyGrows
  ImplementsLedger
CHECK_DEADLOCK FALSE
