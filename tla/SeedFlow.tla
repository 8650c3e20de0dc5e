------------------------------ MODULE SeedFlow ------------------------------
(***************************************************************************)
(* Seeds in memory: SeedStorage (models/seed_storage.py), the scanners     *)
(* (views/scan_views.py) and the Views that load, name, protect and        *)
(* discard a seed (views/seed_views.py).  A side flow that needs a seed    *)
(* leaves its name in resume_main_flow; SeedOptionsView looks at it and    *)
(* sends the user back to where the seed was wanted.                       *)
(***************************************************************************)
EXTENDS Controller

CONSTANTS
  Words,              \* the wordlist
  MnemonicLength,     \* 12 or 24 in the code
  Mnemonics,          \* what passes BIP-39's checksum
  ElectrumMnemonics,  \* what passes Electrum's
  Passphrases,        \* besides the empty one, written ""
  ElectrumEnabled,    \* SETTING__ELECTRUM_SEEDS
  PassphraseSetting   \* SETTING__PASSPHRASE: "disabled", "enabled" or "required"

ASSUME SeedAssumption ==
  /\ MnemonicLength \in Nat \ {0, 1}
  /\ Mnemonics \union ElectrumMnemonics \subseteq [1..MnemonicLength -> Words]
  /\ ElectrumEnabled \in BOOLEAN

\* What the Seed class holds.
Seeds ==
  [words : Mnemonics \union ElectrumMnemonics, electrum : BOOLEAN, passphrase : Passphrases \union {""}]

\* None is neither a seed nor a word, nor a flow to be resumed, nor the arguments of a
\* View that has some.
ASSUME NoneAssumption ==
  /\ None \notin Seeds \union Words
  /\ None \notin {"psbt", "singlesig_addr", "multisig_addr", "address_explorer", "sign_message"}
  /\ \A seed \in Seeds : None # [seed |-> seed]
  /\ \A index \in 0..MnemonicLength, calc \in BOOLEAN : None # [index |-> index, calc |-> calc]

\* The last word has bits of its own besides the checksum, so that some last word
\* goes with whatever words come before it.
ASSUME ChecksumAssumption ==
  \A m \in [1..(MnemonicLength - 1) -> Words] : \E v \in Mnemonics : Front(v) = m

-----------------------------------------------------------------------------
(* Seeds, and the operations of SeedStorage as functions of its state. *)

SeedOf(mnemonic, electrum) == [words |-> mnemonic, electrum |-> electrum, passphrase |-> ""]

WithPending(seed)    == [storage EXCEPT !.pendingSeed = seed]
WithPassphrase(p)    == [storage EXCEPT !.pendingSeed.passphrase = p]
ClearPendingSeed     == WithPending(None)
FinalizePendingSeed  ==
  [storage EXCEPT !.seeds = @ \union {storage.pendingSeed}, !.pendingSeed = None]
DiscardSeed(seed)    == [storage EXCEPT !.seeds = @ \ {seed}]

InitPendingMnemonic(electrum) ==
  [storage EXCEPT !.pendingMnemonic = [i \in 1..MnemonicLength |-> None],
                  !.isElectrum = electrum]
DiscardPendingMnemonic == [storage EXCEPT !.pendingMnemonic = << >>, !.isElectrum = FALSE]
UpdatePendingMnemonic(word, index) == [storage EXCEPT !.pendingMnemonic[index + 1] = word]

IsValid(st) ==
  st.pendingMnemonic \in IF st.isElectrum THEN ElectrumMnemonics ELSE Mnemonics

ConvertPendingMnemonic(st) ==
  [st EXCEPT !.pendingSeed = SeedOf(st.pendingMnemonic, st.isElectrum),
             !.pendingMnemonic = << >>, !.isElectrum = FALSE]

-----------------------------------------------------------------------------
(* Scanning.  Each flow has its own action for what it wants to scan. *)

ScannerFor ==
  [ScanPSBTView |-> "psbt", ScanSeedQRView |-> "seed",
   ScanWalletDescriptorView |-> "descriptor", ScanAddressView |-> "address"]

Scanners(kind) == {"ScanView"} \union {cls \in DOMAIN ScannerFor : ScannerFor[cls] = kind}
AtAnyScanner   == view.cls \in {"ScanView"} \union DOMAIN ScannerFor
Scanned(kind)  == view.cls \in Scanners(kind) /\ ~leaving

\* The user gives up; or the code is not one that any flow can use.
ScanComesToNothing ==
  /\ AtAnyScanner
  /\ \/ Go(To("MainMenuView"))
     \/ ChooseLeaving("ScanInvalidQRTypeView", [controller EXCEPT !.resume = None])
     \/ ~At("ScanView") /\ Choose("ErrorView")
     \/ Choose("NotYetImplementedView")
     \/ Onward("CameraConnectionErrorView") /\ RaiseError("camera")

ScanSeed ==
  /\ Scanned("seed")
  /\ \E m \in Mnemonics :
       GoStoring(To(IF PassphraseSetting = "required" THEN "SeedAddPassphraseView"
                                                      ELSE "SeedFinalizeView"),
                 WithPending(SeedOf(m, FALSE)))

-----------------------------------------------------------------------------
(* Choosing a seed, or a way to load one. *)

\* The rows that the four screens asking for a seed have in common.
LoadASeed(scanner, temps) ==
  \/ ChooseLeaving(scanner, temps)
  \/ /\ Onward("SeedMnemonicEntryView")
     /\ Turn(To("SeedMnemonicEntryView"), temps, InitPendingMnemonic(FALSE), {})
  \/ ElectrumEnabled /\ ChooseLeaving("SeedElectrumMnemonicStartView", temps)

SeedsMenuView ==
  /\ At("SeedsMenuView")
  /\ IF storage.seeds = {}
     THEN Go(Clearing(To("LoadSeedView")))
     ELSE \/ Go(Back)
          \/ \E seed \in storage.seeds : ChooseWith("SeedOptionsView", [seed |-> seed])
          \/ Choose("LoadSeedView")

LoadSeedView ==
  /\ At("LoadSeedView")
  /\ Go(Back) \/ LoadASeed("ScanSeedQRView", controller) \/ Choose("ToolsMenuView")

\* The seed that a message is to be signed with is noted in sign_message_data,
\* which this View takes to be there.
SeedSelectSeedView ==
  /\ At("SeedSelectSeedView")
  /\ LET flow == view.args.flow IN
     \/ Go(Back)
     \/ \E seed \in storage.seeds :
          IF flow = "singlesig_addr"
          THEN ChooseWith("SeedAddressVerificationView", [seed |-> seed])
          ELSE /\ Onward("SeedSignMessageConfirmMessageView")
               /\ IF controller.signData = None THEN Raise
                  ELSE GoWith(To("SeedSignMessageConfirmMessageView"),
                              [controller EXCEPT !.signData.seed = seed])
     \/ LoadASeed("ScanView", [controller EXCEPT !.resume = flow])

-----------------------------------------------------------------------------
(* Typing a mnemonic. *)

WordIndex   == IF view.args = None THEN 0 ELSE view.args.index
IsCalcFinal == view.args # None /\ view.args.calc

\* After the word, with st the storage that holds it.
NextAfterWord(st) ==
  LET last == Len(st.pendingMnemonic) - 1 IN
  IF IsCalcFinal /\ WordIndex = last - 1
    THEN GoStoring(To("ToolsCalcFinalWordFinalizePromptView"), st)
  ELSE IF IsCalcFinal /\ WordIndex = last
    THEN GoStoring(To("ToolsCalcFinalWordShowFinalWordView"), st)
  ELSE IF WordIndex < last
    THEN GoStoring(ToWith("SeedMnemonicEntryView", [index |-> WordIndex + 1, calc |-> IsCalcFinal]), st)
  ELSE IF IsValid(st)
    THEN GoStoring(To("SeedFinalizeView"), ConvertPendingMnemonic(st))
  ELSE GoStoring(To("SeedMnemonicInvalidView"), st)

\* Mutant: BACK discards the mnemonic from any word.
SeedMnemonicEntryView_BackDiscards ==
  /\ At("SeedMnemonicEntryView")
  /\ \/ GoStoring(Back, DiscardPendingMnemonic)
     \/ /\ Onward("SeedMnemonicEntryView")
        /\ \E word \in Words :
             IF WordIndex < Len(storage.pendingMnemonic)
             THEN NextAfterWord(UpdatePendingMnemonic(word, WordIndex))
             ELSE Raise

SeedMnemonicEntryView ==
  /\ At("SeedMnemonicEntryView")
  /\ \/ GoStoring(Back, IF WordIndex = 0 THEN DiscardPendingMnemonic ELSE storage)
     \/ /\ Onward("SeedMnemonicEntryView")
        /\ \E word \in Words :
             IF WordIndex < Len(storage.pendingMnemonic)
             THEN NextAfterWord(UpdatePendingMnemonic(word, WordIndex))
             ELSE Raise

SeedMnemonicInvalidView ==
  /\ At("SeedMnemonicInvalidView")
  /\ \/ ChooseWith("SeedMnemonicEntryView", [index |-> 0, calc |-> FALSE])
     \/ GoStoring(To("MainMenuView"), DiscardPendingMnemonic)

SeedElectrumMnemonicStartView ==
  /\ At("SeedElectrumMnemonicStartView")
  /\ GoStoring(To("SeedMnemonicEntryView"), InitPendingMnemonic(TRUE))

-----------------------------------------------------------------------------
(* The pending seed becomes a seed in memory. *)

KeepSeed ==
  GoStoring(Clearing(ToWith("SeedOptionsView", [seed |-> storage.pendingSeed])), FinalizePendingSeed)

SeedFinalizeView ==
  /\ At("SeedFinalizeView")
  /\ \/ KeepSeed
     \/ PassphraseSetting # "disabled" /\ Choose("SeedAddPassphraseView")

\* What was typed is set even when the user goes back from it.
SeedAddPassphraseView ==
  /\ At("SeedAddPassphraseView")
  /\ \/ \E p \in Passphrases \union {""} :
          GoStoring(To("SeedAddPassphraseExitDialogView"), WithPassphrase(p))
     \/ /\ Onward("SeedReviewPassphraseView")
        /\ \E p \in Passphrases : GoStoring(To("SeedReviewPassphraseView"), WithPassphrase(p))

\* Mutant: a passphrase that is discarded stays in the seed.
SeedAddPassphraseExitDialogView_PassphraseStays ==
  /\ At("SeedAddPassphraseExitDialogView")
  /\ Choose("SeedAddPassphraseView") \/ Go(To("SeedFinalizeView"))

SeedAddPassphraseExitDialogView ==
  /\ At("SeedAddPassphraseExitDialogView")
  /\ \/ Choose("SeedAddPassphraseView")
     \/ GoStoring(To("SeedFinalizeView"), WithPassphrase(""))

SeedReviewPassphraseView ==
  /\ At("SeedReviewPassphraseView")
  /\ KeepSeed \/ Choose("SeedAddPassphraseView")

\* Without a seed argument it is the pending one that is to be discarded.
SeedDiscardView ==
  /\ At("SeedDiscardView")
  /\ LET pending == view.args = None IN
     \/ Go(Skipping(IF pending THEN To("SeedFinalizeView")
                               ELSE ToWith("SeedOptionsView", [seed |-> view.args.seed])))
     \/ GoStoring(Clearing(To("MainMenuView")),
                  IF pending THEN ClearPendingSeed ELSE DiscardSeed(view.args.seed))

-----------------------------------------------------------------------------
(* SeedOptionsView: straight on to the flow that wanted a seed, or a menu. *)

FlowWaiting(seed) ==
  IF controller.unverified # None /\ controller.resume = "singlesig_addr" THEN "singlesig_addr"
  ELSE IF controller.resume \in {"address_explorer", "sign_message"} THEN controller.resume
  ELSE IF controller.psbt # None /\ controller.resume = "psbt" /\ seed \in controller.psbt.names
    THEN "psbt"
  ELSE "none"

ResumeFlow(seed) ==
  LET onward == [controller EXCEPT !.resume = None] IN
  CASE FlowWaiting(seed) = "singlesig_addr" ->
         GoWith(Skipping(ToWith("SeedAddressVerificationView", [seed |-> seed])), onward)
    [] FlowWaiting(seed) = "address_explorer" ->
         Go(Skipping(ToWith("SeedExportXpubScriptTypeView", [seed |-> seed, sigType |-> "ss"])))
    [] FlowWaiting(seed) = "sign_message" ->
         IF controller.signData = None THEN Raise
         ELSE GoWith(Skipping(To("SeedSignMessageConfirmMessageView")),
                     [controller EXCEPT !.signData.seed = seed])
    [] OTHER ->
         GoWith(Skipping(To("PSBTOverviewView")), [onward EXCEPT !.psbtSeed = seed])

\* What a flow has collected about the message to be signed.
NoMessage == [seed |-> None, message |-> None, paged |-> None]

SeedOptionsMenu(seed) ==
  \/ Go(To("MainMenuView"))
  \/ ChooseLeaving("ScanPSBTView", [controller EXCEPT !.psbtSeed = seed])
  \/ ChooseWith("SeedExportXpubSigTypeView", [seed |-> seed])
  \/ /\ Onward("SeedExportXpubScriptTypeView")
     /\ GoWith(ToWith("SeedExportXpubScriptTypeView", [seed |-> seed, sigType |-> "ss"]),
               [controller EXCEPT !.resume = "address_explorer"])
  \/ /\ Onward("SeedSignMessageStartView")
     /\ GoWith(To("ScanView"), [controller EXCEPT !.signData = [NoMessage EXCEPT !.seed = seed],
                                                  !.resume = "sign_message"])
  \/ \E cls \in {"SeedBackupView", "SeedDiscardView"} : ChooseWith(cls, [seed |-> seed])
  \/ ~seed.electrum /\ ChooseWith("SeedBIP85SelectNumWordsView", [seed |-> seed])

SeedOptionsView ==
  /\ At("SeedOptionsView")
  /\ LET seed == view.args.seed IN
     IF FlowWaiting(seed) = "none" THEN SeedOptionsMenu(seed) ELSE ResumeFlow(seed)

SeedViews ==
  \/ ScanComesToNothing \/ ScanSeed
  \/ SeedsMenuView \/ LoadSeedView \/ SeedSelectSeedView
  \/ SeedMnemonicEntryView \/ SeedMnemonicInvalidView \/ SeedElectrumMnemonicStartView
  \/ SeedFinalizeView \/ SeedAddPassphraseView \/ SeedAddPassphraseExitDialogView
  \/ SeedReviewPassphraseView \/ SeedDiscardView \/ SeedOptionsView
=============================================================================
