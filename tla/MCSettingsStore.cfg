\* Two cards, swapped, pulled and put back while settings change and power is cut.
SPECIFICATION Spec
CONSTANTS
  Cards = {c1, c2}
  NoCard = NoCard
  NoFile = NoFile
  Torn = Torn
  SettingsQRs <- MCSettingsQRs
  MaxChanges = 2
  MaxCardMoves = 2
  MaxPowerCuts = 1
SYMMETRY CardSymmetry
INVARIANTS FileHoldsTheSettings QrIsAllOrNothing
PROPERTIES BootRestores
CHECK_DEADLOCK FALSE
