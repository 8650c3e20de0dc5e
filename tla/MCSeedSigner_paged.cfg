\* A message after one whose path is refused.
SPECIFICATION Spec
CONSTANTS
  None = None
  Errands <- MessageErrands
  Words = {"w1", "w2"}
  MnemonicLength = 2
  Mnemonics <- MCMnemonics
  ElectrumMnemonics = {}
  Passphrases = {}
  ElectrumEnabled = FALSE
  PassphraseSetting = "disabled"
  Pages = 2
  CompactQRs = TRUE
  Addresses <- MCAddresses
  Descriptors <- MCDescriptors
  ScriptTypes = {"native", "custom"}
  SigTypes = {"ss", "ms"}
  Transactions <- MCTransactions
  Messages <- MCMessages
  PathKinds = {"clean", "custom", "unclean"}
INVARIANTS SignedMessageIsReviewed
