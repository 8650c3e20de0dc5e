----------------------------- MODULE BackupFlow -----------------------------
(***************************************************************************)
(* New seeds and written ones: the Views that make a seed out of entropy   *)
(* (views/tools_views.py), show its words and test the user's copy of      *)
(* them, derive a BIP-85 child, and transcribe a SeedQR                    *)
(* (views/seed_views.py).  A seed argument of None stands for the pending  *)
(* seed all along this flow.                                               *)
(***************************************************************************)
EXTENDS SeedFlow

CONSTANTS
  Pages,       \* pages of a mnemonic on SeedWordsView
  CompactQRs   \* SETTING__COMPACT_SEEDQR

ASSUME BackupAssumption == Pages \in Nat \ {0} /\ CompactQRs \in BOOLEAN

WordIndices == 1..MnemonicLength

-----------------------------------------------------------------------------
(* New seeds. *)

ToolsMenuView ==
  /\ At("ToolsMenuView")
  /\ \/ Go(Back)
     \/ \E cls \in {"ToolsImageEntropyLivePreviewView", "ToolsDiceEntropyMnemonicLengthView",
                    "ToolsCalcFinalWordNumWordsView", "ToolsAddressExplorerSelectSourceView",
                    "ScanAddressView"} : Choose(cls)

\* Screens that ask for nothing this model tells apart: on, or back.
EntropyScreens ==
  [ToolsImageEntropyLivePreviewView   |-> "ToolsImageEntropyFinalImageView",
   ToolsImageEntropyFinalImageView    |-> "ToolsImageEntropyMnemonicLengthView",
   ToolsDiceEntropyMnemonicLengthView |-> "ToolsDiceEntropyEntryView"]

CollectEntropy ==
  /\ view.cls \in DOMAIN EntropyScreens
  /\ Go(Back) \/ Choose(EntropyScreens[view.cls])

\* "Cannot return BACK to this View".
GenerateSeed ==
  /\ At("ToolsImageEntropyMnemonicLengthView") \/ At("ToolsDiceEntropyEntryView")
  /\ \/ Go(Back)
     \/ /\ Onward("SeedWordsWarningView")
        /\ \E m \in Mnemonics :
             GoStoring(Clearing(ToWith("SeedWordsWarningView", [seed |-> None, bip85 |-> None])),
                       WithPending(SeedOf(m, FALSE)))

ToolsCalcFinalWordNumWordsView ==
  /\ At("ToolsCalcFinalWordNumWordsView")
  /\ \/ Go(Back)
     \/ /\ Onward("SeedMnemonicEntryView")
        /\ GoStoring(ToWith("SeedMnemonicEntryView", [index |-> 0, calc |-> TRUE]),
                     InitPendingMnemonic(FALSE))

\* The coin flips, zeros or a word chosen by the user are bits of the last word.
ToolsCalcFinalWordFinalizePromptView ==
  /\ At("ToolsCalcFinalWordFinalizePromptView")
  /\ LET last == Len(storage.pendingMnemonic) - 1 IN
     \/ Go(Back)
     \/ Choose("ToolsCalcFinalWordCoinFlipsView")
     \/ /\ Onward("SeedMnemonicEntryView")
        /\ GoStoring(ToWith("SeedMnemonicEntryView", [index |-> last, calc |-> TRUE]),
                     UpdatePendingMnemonic(None, last))
     \/ /\ Onward("ToolsCalcFinalWordShowFinalWordView")
        /\ \E zero \in Words :
             GoStoring(ToWith("ToolsCalcFinalWordShowFinalWordView", [bits |-> zero]),
                       UpdatePendingMnemonic(zero, last))

ToolsCalcFinalWordCoinFlipsView ==
  /\ At("ToolsCalcFinalWordCoinFlipsView")
  /\ \/ Go(Back)
     \/ \E word \in Words : ChooseWith("ToolsCalcFinalWordShowFinalWordView", [bits |-> word])

\* calculate_checksum keeps the bits of the last word that carry entropy and
\* replaces the others: the valid last word that is, or stands for, that word.
WithChecksum(m) ==
  IF m \in Mnemonics THEN m
  ELSE CHOOSE v \in Mnemonics : Front(v) = Front(m)

\* Mutant: the final word is shown but not stored.
ToolsCalcFinalWordShowFinalWordView_NotStored ==
  /\ At("ToolsCalcFinalWordShowFinalWordView")
  /\ Go(Back) \/ Choose("ToolsCalcFinalWordDoneView")

ToolsCalcFinalWordShowFinalWordView ==
  /\ At("ToolsCalcFinalWordShowFinalWordView")
  /\ LET m == storage.pendingMnemonic
         chosen == IF view.args = None THEN m ELSE [m EXCEPT ![Len(m)] = view.args.bits]
         st == [storage EXCEPT !.pendingMnemonic = WithChecksum(chosen)] IN
     GoStoring(Back, st) \/ ChooseStoring("ToolsCalcFinalWordDoneView", st)

ToolsCalcFinalWordDoneView ==
  /\ At("ToolsCalcFinalWordDoneView")
  /\ \/ Go(Back)
     \/ \E cls \in {"SeedFinalizeView", "SeedDiscardView"} :
          ChooseStoring(cls, ConvertPendingMnemonic(storage))

NewSeedViews ==
  \/ ToolsMenuView \/ CollectEntropy \/ GenerateSeed
  \/ ToolsCalcFinalWordNumWordsView \/ ToolsCalcFinalWordFinalizePromptView
  \/ ToolsCalcFinalWordCoinFlipsView \/ ToolsCalcFinalWordShowFinalWordView
  \/ ToolsCalcFinalWordDoneView

-----------------------------------------------------------------------------
(* The words of a seed, or of its BIP-85 child. *)

Source == [seed |-> view.args.seed, bip85 |-> view.args.bip85]
Page(n) == [seed |-> view.args.seed, bip85 |-> view.args.bip85, page |-> n]

SeedBackupView ==
  /\ At("SeedBackupView")
  /\ \/ Go(Back)
     \/ ChooseWith("SeedWordsWarningView", [seed |-> view.args.seed, bip85 |-> None])
     \/ ~view.args.seed.electrum /\ ChooseWith("SeedTranscribeSeedQRFormatView", view.args)

\* The warning leaves the history as it is shown: BACK never lands on it.
SeedWordsWarningView ==
  /\ At("SeedWordsWarningView")
  /\ Go(Back) \/ ChooseSkipping("SeedWordsView", Page(0))

SeedWordsView ==
  /\ At("SeedWordsView")
  /\ \/ Go(Back)
     \/ view.args.page < Pages - 1 /\ ChooseWith("SeedWordsView", Page(view.args.page + 1))
     \/ view.args.page = Pages - 1 /\ ChooseWith("SeedWordsBackupTestPromptView", Source)

\* Where a finished backup leads.
BackupDone(seed) ==
  IF seed = None THEN To("SeedFinalizeView") ELSE ToWith("SeedOptionsView", [seed |-> seed])

TestOf(confirmed, cur) ==
  ToWith("SeedWordsBackupTestView",
         [seed |-> view.args.seed, bip85 |-> view.args.bip85, confirmed |-> confirmed, cur |-> cur])

SeedWordsBackupTestPromptView ==
  /\ At("SeedWordsBackupTestPromptView")
  /\ \/ Go(BackupDone(view.args.seed))
     \/ Onward("SeedWordsBackupTestView") /\ Go(TestOf(<< >>, None))

\* Mutant: any word is asked for, the confirmed ones again.
Asked_AnyWord == IF view.args.cur = None THEN WordIndices ELSE {view.args.cur}

\* A word not yet confirmed is asked for, or the one just got wrong.
Asked == IF view.args.cur = None THEN WordIndices \ Range(view.args.confirmed) ELSE {view.args.cur}

SeedWordsBackupTestView ==
  /\ At("SeedWordsBackupTestView")
  /\ \E i \in Asked :
       LET confirmed == Append(view.args.confirmed, i) IN
       \/ Turn(IF Len(confirmed) = MnemonicLength
               THEN ToWith("SeedWordsBackupTestSuccessView", [seed |-> view.args.seed])
               ELSE TestOf(confirmed, None),
               controller, storage, {<<"confirmed", Source, i>>})
       \/ ChooseWith("SeedWordsBackupTestMistakeView", [view.args EXCEPT !.cur = i])

SeedWordsBackupTestMistakeView ==
  /\ At("SeedWordsBackupTestMistakeView")
  /\ \/ ChooseWith("SeedWordsView", Page(0))
     \/ Go(TestOf(view.args.confirmed, view.args.cur))

SeedWordsBackupTestSuccessView ==
  /\ At("SeedWordsBackupTestSuccessView")
  /\ Go(IF view.args.seed = None THEN BackupDone(None) ELSE Clearing(BackupDone(view.args.seed)))

BIP85Views ==
  \/ /\ At("SeedBIP85SelectNumWordsView")
     /\ Go(Back) \/ ChooseWith("SeedBIP85SelectChildIndexView", view.args)
  \/ /\ At("SeedBIP85SelectChildIndexView")
     /\ \/ Go(Back)
        \/ ChooseWith("SeedWordsWarningView", [seed |-> view.args.seed, bip85 |-> "child"])
        \/ ChooseSkipping("SeedBIP85InvalidChildIndexView", view.args)
  \/ /\ At("SeedBIP85InvalidChildIndexView")
     /\ Go(Skipping(ToWith("SeedBIP85SelectChildIndexView", view.args)))

WordsViews ==
  \/ SeedBackupView \/ SeedWordsWarningView \/ SeedWordsView \/ BIP85Views
  \/ SeedWordsBackupTestPromptView \/ SeedWordsBackupTestView
  \/ SeedWordsBackupTestMistakeView \/ SeedWordsBackupTestSuccessView

-----------------------------------------------------------------------------
(* A SeedQR copied by hand, and scanned to see whether the copy is right. *)

OfSeed == [seed |-> view.args.seed]

SeedTranscribeSeedQRFormatView ==
  /\ At("SeedTranscribeSeedQRFormatView")
  /\ IF CompactQRs
     THEN Go(Back) \/ ChooseWith("SeedTranscribeSeedQRWarningView", OfSeed)
     ELSE Go(Skipping(ToWith("SeedTranscribeSeedQRWarningView", OfSeed)))

SeedTranscribeSeedQRWarningView ==
  /\ At("SeedTranscribeSeedQRWarningView")
  /\ Go(Back) \/ ChooseSkipping("SeedTranscribeSeedQRWholeQRView", OfSeed)

SeedTranscribeSeedQRWholeQRView ==
  /\ At("SeedTranscribeSeedQRWholeQRView")
  /\ Go(Back) \/ ChooseWith("SeedTranscribeSeedQRZoomedInView", OfSeed)

\* Its only way out is forward.
SeedTranscribeSeedQRZoomedInView ==
  /\ At("SeedTranscribeSeedQRZoomedInView")
  /\ Go(ToWith("SeedTranscribeSeedQRConfirmQRPromptView", OfSeed))

\* BACK is to look at the QR code again; Done is the way out.
SeedTranscribeSeedQRConfirmQRPromptView ==
  /\ At("SeedTranscribeSeedQRConfirmQRPromptView")
  /\ \/ Go(Clearing(ToWith("SeedOptionsView", OfSeed)))
     \/ Onward("SeedTranscribeSeedQRZoomedInView") /\ Go(Back)
     \/ ChooseWith("SeedTranscribeSeedQRConfirmScanView", OfSeed)

\* Back; not a SeedQR; a seed, and the same one or another.
SeedTranscribeSeedQRConfirmScanView ==
  /\ At("SeedTranscribeSeedQRConfirmScanView")
  /\ \/ Go(Back)
     \/ Go(Skipping(To("SeedTranscribeSeedQRConfirmInvalidQRView")))
     \/ \E m \in Mnemonics :
          Go(IF m = view.args.seed.words
             THEN ToWith("SeedTranscribeSeedQRConfirmSuccessView", OfSeed)
             ELSE Skipping(To("SeedTranscribeSeedQRConfirmWrongSeedView")))

\* "Skip BACK to the zoomed in transcription view".
SeedTranscribeSeedQRRejected ==
  /\ \/ At("SeedTranscribeSeedQRConfirmInvalidQRView")
     \/ At("SeedTranscribeSeedQRConfirmWrongSeedView")
  /\ Go(Skipping(Back))

SeedTranscribeSeedQRConfirmSuccessView ==
  /\ At("SeedTranscribeSeedQRConfirmSuccessView")
  /\ Go(ToWith("SeedOptionsView", OfSeed))

SeedQRViews ==
  \/ SeedTranscribeSeedQRFormatView \/ SeedTranscribeSeedQRWarningView
  \/ SeedTranscribeSeedQRWholeQRView \/ SeedTranscribeSeedQRZoomedInView
  \/ SeedTranscribeSeedQRConfirmQRPromptView \/ SeedTranscribeSeedQRConfirmScanView
  \/ SeedTranscribeSeedQRRejected \/ SeedTranscribeSeedQRConfirmSuccessView
=============================================================================
