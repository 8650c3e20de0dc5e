\* No card is moved; a boot may be cut short and tried again.
SPECIFICATION Spec
CONSTANTS
  Cards = {c1}
  NoCard = NoCard
  NoFile = NoFile
  Torn = Torn
  SettingsQRs <- MCSettingsQRs
  MaxChanges = 1
  MaxCardMoves = 0
  MaxPowerCuts = 2
PROPERTIES SavedSettingsSurvive
CHECK_DEADLOCK FALSE
