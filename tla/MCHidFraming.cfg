\* A sender that abandons messages and writes malformed and misplaced reports.
SPECIFICATION Spec
CONSTANTS
  FIRST_CHUNK = 2
  CONT_CHUNK = 3
  MAX_MESSAGE_SIZE = 7
  MaxReports = 6
  MaxWire = 2
  Idle = Idle
  Messages <- MCMessages
INVARIANTS MemoryIsBounded
PROPERTIES UninterruptedMessagesArrive FragmentsAreDropped
CHECK_DEADLOCK FALSE
