\* Two sessions at each end and three records in each direction of a session.
SPECIFICATION Spec
CONSTANTS
  MAX_COUNTER = 2
  MaxSessions = 2
  NoChannel = NoChannel
  NoBody = NoBody
INVARIANTS EachHearsTheOther PairingExcludesTheCable NoncesAreUnique
CHECK_DEADLOCK FALSE
