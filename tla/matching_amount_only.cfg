\* Two sources of one amount and one target.
SPECIFICATION MatchingSpec
CONSTANTS
  SourceCount = 2
  TargetCount = 1
  MaxAmount = 2
  Inputs <- MCInputs
INVARIANTS
  AmountOnlyMatchIsUnique
CHECK_DEADLOCK FALSE
