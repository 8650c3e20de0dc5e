\* An output that claims our key and pays another counts as coming back.
SPECIFICATION Spec
CONSTANTS
  MIN_FOREIGN_INPUTS = 1
  MIN_TOTAL_INPUTS = 2
  MAX_TOTAL_INPUTS = 3
  MIN_TOTAL_OUTPUTS = 2
  MAX_TOTAL_OUTPUTS = 3
  MAX_ROUNDS_LIMIT = 3
  NoPath = NoPath
  Malformed = Malformed
  NoAuthorization = NoAuthorization
  NoPrompt = NoPrompt
  Paths <- MCPaths
  Rounds <- MCRounds
  RoundLimits <- MCRoundLimits
  FeeLimits <- MCFeeLimits
INVARIANT NoOutputIsDressedUp
