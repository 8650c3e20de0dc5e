\* Seeds and their copies, addresses, transactions and messages.
SPECIFICATION Spec
CONSTANTS
  None = None
  Errands <- AllErrands
  Words = {"w1", "w2"}
  MnemonicLength = 2
  Mnemonics <- MCMnemonics
  ElectrumMnemonics <- MCElectrumMnemonics
  Passphrases = {"p"}
  ElectrumEnabled = TRUE
  PassphraseSetting = "enabled"
  Pages = 2
  CompactQRs = TRUE
  Addresses <- MCAddresses
  Descriptors <- MCDescriptors
  ScriptTypes = {"native", "custom"}
  SigTypes = {"ss", "ms"}
  Transactions <- MCTransactions
  Messages <- MCMessages
  PathKinds = {"clean", "custom", "unclean"}
INVARIANTS TopOfStackIsRunning WorkInProgressIsThere SeedsAreValid BackupIsVerified
INVARIANTS ExplorerShowsItsSource ReviewIsCurrent SignedIsReviewed DescriptorVerifiesAll PagesAndAddressAreShown
PROPERTIES PassphrasesAreReviewed TheWayOutLeadsHome
