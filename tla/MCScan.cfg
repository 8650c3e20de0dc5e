SPECIFICATION Spec
CONSTANTS
  psbtA = psbtA
  psbtB = psbtB
  long = long
  wallet = wallet
  setup = setup
  seedMsg = seedMsg
  other = other
  Messages = {psbtA, psbtB, long, wallet, setup, seedMsg, other}
  Fragments <- MCFragments
  NoMessage = NoMessage
  BadChecksum = BadChecksum
  Holds <- MCHolds
  Scenarios <- MCScenarios
  s1 = s1
  s2 = s2
  o1 = o1
  Seeds = {s1, s2}
  Others = {o1}
  Zero = Zero
  NoScript = NoScript
  NoPsbt = NoPsbt
  NoSeed = NoSeed
  NoReport = NoReport
  NoData = NoData
  Psbts <- MCPsbts
INVARIANTS
  EachScanIsUnderstood
  ChangeIsOurs
PROPERTIES
  ImplementsErasureCode
  HintIsRight
  CompletesInTheEnd
CHECK_DEADLOCK FALSE
