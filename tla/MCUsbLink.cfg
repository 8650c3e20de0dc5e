\* Two sessions, in the app or on a bare socket, and tools that may fail.
SPECIFICATION Spec
CONSTANTS
  MIN_FOREIGN_INPUTS = 1
  MIN_TOTAL_INPUTS = 2
  MAX_TOTAL_INPUTS = 3
  MIN_TOTAL_OUTPUTS = 2
  MAX_TOTAL_OUTPUTS = 3
  MAX_ROUNDS_LIMIT = 2
  NoPath = NoPath
  Malformed = Malformed
  NoAuthorization = NoAuthorization
  NoPrompt = NoPrompt
  NoRecord = NoRecord
  Paths <- MCPaths
  Rounds <- MCRounds
  RoundLimits = {2}
  FeeLimits = {1, 2}
  HostRequests <- AllRequests
  Attachments = {FALSE, TRUE}
  UNBIND_FAILS = TRUE
  MaxSessions = 2
  MaxSent = 5
  MaxQueue = 2
INVARIANTS NothingBeforePairing AnswersComeInOrder EndedMeansForgotten
PROPERTIES GatewayIsAnswered LossIsNoticed
CHECK_DEADLOCK FALSE
