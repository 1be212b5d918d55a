\* Three sources and two targets, amounts up to 3.
SPECIFICATION MatchingSpec
CONSTANTS
  SourceCount = 3
  TargetCount = 2
  MaxAmount = 3
  Inputs <- MCInputs
INVARIANTS
  AllocationsConserve
  GroupsAreJustified
PROPERTIES
  AllocatesTheOnlyWay
CHECK_DEADLOCK FALSE
