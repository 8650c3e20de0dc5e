---------------------------- MODULE MCSeedSigner ----------------------------
(***************************************************************************)
(* Small instances of SeedSigner: two words in the wordlist and two in a   *)
(* mnemonic, so that every first word has its one valid last word; and the *)
(* errands of a user.                                                      *)
(***************************************************************************)
EXTENDS SeedSigner

MCMnemonics         == {<<"w1", "w1">>, <<"w2", "w2">>}
MCElectrumMnemonics == {<<"w1", "w2">>}

A == SeedOf(<<"w1", "w1">>, FALSE)
B == SeedOf(<<"w2", "w2">>, FALSE)

\* Of which both seeds are cosigners.
Wallet == [cosigners |-> {A, B}]

Shared == {"ScanView", "SeedsMenuView", "SeedOptionsView", "LoadSeedView", "ScanSeedQRView"}

-----------------------------------------------------------------------------
SeedScreens ==
  Shared \union
  {"SeedMnemonicEntryView", "SeedMnemonicInvalidView", "SeedDiscardView",
   "SeedElectrumMnemonicStartView",
   "SeedAddPassphraseView", "SeedReviewPassphraseView", "ToolsMenuView",
   "ToolsCalcFinalWordNumWordsView", "ToolsCalcFinalWordCoinFlipsView",
   "ToolsCalcFinalWordShowFinalWordView", "ToolsCalcFinalWordDoneView", "SeedFinalizeView",
   "PowerOptionsView", "PowerOffView", "RestartView",
   "ErrorView", "ScanInvalidQRTypeView", "NotYetImplementedView", "CameraConnectionErrorView"}

BackupScreens ==
  {"ScanView", "SeedsMenuView", "SeedOptionsView", "ToolsMenuView",
   "ToolsImageEntropyLivePreviewView", "ToolsImageEntropyFinalImageView",
   "ToolsImageEntropyMnemonicLengthView", "ToolsDiceEntropyMnemonicLengthView",
   "ToolsDiceEntropyEntryView", "SeedWordsWarningView", "SeedBackupView", "SeedWordsView",
   "SeedWordsBackupTestPromptView", "SeedWordsBackupTestView", "SeedWordsBackupTestMistakeView",
   "SeedBIP85SelectNumWordsView", "SeedBIP85SelectChildIndexView", "SeedBIP85InvalidChildIndexView",
   "SeedTranscribeSeedQRFormatView", "SeedTranscribeSeedQRWarningView",
   "SeedTranscribeSeedQRWholeQRView", "SeedTranscribeSeedQRZoomedInView",
   "SeedTranscribeSeedQRConfirmScanView"}

AddressScreens ==
  Shared \union
  {"ToolsMenuView", "ScanAddressView", "SeedSelectSeedView", "SeedAddressVerificationSuccessView",
   "LoadMultisigWalletDescriptorView", "ScanWalletDescriptorView",
   "SeedExportXpubSigTypeView", "SeedExportXpubScriptTypeView", "SeedExportXpubCustomDerivationView",
   "SeedExportXpubQRFormatView", "SeedExportXpubWarningView", "SeedExportXpubDetailsView",
   "SeedExportXpubQRDisplayView", "ToolsAddressExplorerSelectSourceView",
   "ToolsAddressExplorerAddressTypeView", "ToolsAddressExplorerAddressListView",
   "ToolsAddressExplorerAddressView"}

PsbtScreens ==
  {"ScanView", "SeedOptionsView", "SeedsMenuView", "ScanSeedQRView", "ScanPSBTView", "ErrorView",
   "PSBTSelectSeedView", "PSBTOverviewView", "PSBTNoChangeWarningView", "PSBTMathView",
   "PSBTAddressDetailsView", "PSBTChangeDetailsView", "PSBTOpReturnView", "PSBTFinalizeView",
   "PSBTSigningErrorView", "PSBTSignedQRDisplayView",
   "LoadMultisigWalletDescriptorView", "ScanWalletDescriptorView"}

MessageScreens ==
  {"ScanView", "SeedsMenuView", "SeedOptionsView", "SeedDiscardView", "ErrorView",
   "SeedSelectSeedView", "SeedSignMessageStartView", "SeedSignMessageConfirmMessageView",
   "SeedSignMessageConfirmAddressView", "SeedSignMessageSignedMessageQRView"}

-----------------------------------------------------------------------------
MCDescriptors == {Wallet}
MCAddresses ==
  {[type |-> "native", owner |-> A], [type |-> "nested", owner |-> Wallet],
   [type |-> "nativeLong", owner |-> Wallet]}

Output(seeds, derives) == [names |-> seeds, derives |-> derives]

Plain ==
  [dests |-> 0, change |-> << >>, opReturn |-> FALSE, multisig |-> FALSE, names |-> {A},
   controls |-> {A}, falseIn |-> {}, falseOut |-> {}, mixed |-> FALSE, signed |-> {}]

\* Paid to two addresses, with change that is falsely said to be B's.
Payment   == [Plain EXCEPT !.dests = 2, !.change = <<Output({A}, {A})>>, !.falseOut = {B}]
\* Names a seed that has no key for it.
FullSpend == [Plain EXCEPT !.dests = 1, !.opReturn = TRUE, !.names = {A, B}]
\* Change that A does not derive.
Forgery   == [Plain EXCEPT !.change = <<Output({A}, {})>>, !.falseIn = {B}]
OnlyData  == [Plain EXCEPT !.opReturn = TRUE]

\* B has signed, and A is to.
Multisig  ==
  [Plain EXCEPT !.change = <<Output({A, B}, {Wallet}), Output({A, B}, {Wallet})>>,
                !.multisig = TRUE, !.names = {A, B}, !.controls = {A, B}, !.signed = {B}]
\* One output is not the wallet's, the other says so.
Deceit    == [Multisig EXCEPT !.change = <<Output({A, B}, {}), Output({B}, {})>>]
Mixed     == [Multisig EXCEPT !.mixed = TRUE]

Payments  == {Payment, FullSpend, Forgery, OnlyData}
Multisigs == {Multisig, Deceit, Mixed}

MCTransactions == Payments \union Multisigs

-----------------------------------------------------------------------------
Message(text, pages, path) == [text |-> text, pages |-> pages, path |-> path]

MCMessages ==
  {Message("m1", 2, "clean"), Message("m2", 1, "clean"), Message("m3", 1, "unclean"),
   Message("m4", 1, "custom")}

-----------------------------------------------------------------------------
Errand(views, depth, scans) == [views |-> views, depth |-> depth, scans |-> scans]

\* Seeds are loaded, completed, protected, discarded, made of entropy, written
\* down and transcribed.
SeedErrands ==
  { Errand(SeedScreens, 9, {}), Errand(BackupScreens, 9, {}),
    Errand(SeedScreens \union BackupScreens, 6, {}) }

\* A message, a transaction and a descriptor, one while waiting for the other.
MixedErrands ==
  {Errand(PsbtScreens \union MessageScreens, 5, {Message("m2", 1, "clean"), Payment, Wallet})}

\* Addresses are verified and listed, transactions of one seed and of several are
\* signed, messages are signed; and one flow is left for another.
FlowErrands ==
  MixedErrands \union
  { Errand(AddressScreens, 6, MCAddresses \union MCDescriptors),
    Errand(PsbtScreens, 10, Payments),
    Errand(PsbtScreens, 11, Multisigs \union MCDescriptors),
    Errand(MessageScreens, 7, MCMessages) }

AllErrands == SeedErrands \union FlowErrands

MessageErrands == {Errand(MessageScreens, 8, MCMessages)}
=============================================================================
