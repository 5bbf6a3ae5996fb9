SPECIFICATION Spec
CONSTANTS
  MaxClaims = 2
  MaximumAggregatePayout = 2
  MaximumPerClaim = 2
  MaximumChallengeRoundsPerClaim = 1
  MaximumNonterminalRoundsPerClaim = 1
  MaxRounds = 2
CHECK_DEADLOCK FALSE
INVARIANT CoverageAccounts
 
