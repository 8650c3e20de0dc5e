----------------------------- MODULE SeedSigner -----------------------------
(***************************************************************************)
(* The Controller running every flow, and what the flows promise.          *)
(***************************************************************************)
EXTENDS PsbtFlow, MessageFlow

Views ==
  \/ SharedViews \/ SeedViews
  \/ NewSeedViews \/ WordsViews \/ SeedQRViews
  \/ VerificationViews \/ ExplorerViews
  \/ PsbtViews \/ MessageViews

Next == Views \/ UserWantsOut

\* The user answers the screen that is shown.
Spec == Init /\ [][Next]_vars /\ WF_vars(Views)

-----------------------------------------------------------------------------
(* Seeds. *)

\* A seed that is waiting to be finalized is there for every View that works on
\* it, and a mnemonic for every View of its final word: SeedStorage forgets the one
\* when it becomes the other, and BACK must not lead to a View whose turn is over.
\* Not so SeedMnemonicEntryView: BACK from the first word of a mnemonic that was
\* invalid discards it, and Review & Edit then asks for words of none.
WorkInProgressIsThere ==
  /\ view.cls \in {"SeedFinalizeView", "SeedAddPassphraseView",
                   "SeedAddPassphraseExitDialogView", "SeedReviewPassphraseView"}
       => storage.pendingSeed # None
  /\ view.cls = "SeedDiscardView" /\ view.args = None => storage.pendingSeed # None
  /\ view.cls \in {"SeedWordsView", "SeedWordsBackupTestView"} /\ view.args.seed = None
       => storage.pendingSeed # None
  /\ view.cls \in {"ToolsCalcFinalWordFinalizePromptView", "ToolsCalcFinalWordShowFinalWordView",
                   "ToolsCalcFinalWordDoneView"}
       => storage.pendingMnemonic # << >>

\* Every seed in memory, or about to be, has passed its checksum, whether it was
\* typed, scanned, generated, or completed by a calculated final word.
SeedsAreValid ==
  \A seed \in storage.seeds \union ({storage.pendingSeed} \ {None}) :
    seed.words \in IF seed.electrum THEN ElectrumMnemonics ELSE Mnemonics

\* A seed with a passphrase is kept only from the screen that shows the
\* passphrase and its fingerprint: what was typed and then discarded in the exit
\* dialog has no effect on the seed.
PassphrasesAreReviewed ==
  [][\A seed \in storage'.seeds \ storage.seeds :
       seed.passphrase # "" => view.cls = "SeedReviewPassphraseView"]_vars

\* "Success" after a backup test: the user has confirmed every word of that seed,
\* or of its child, however often a mistake was made on the way.
BackupIsVerified ==
  view.cls = "SeedWordsBackupTestSuccessView" =>
    \E child \in {None, "child"} : \A i \in WordIndices :
      <<"confirmed", [seed |-> view.args.seed, bip85 |-> child], i>> \in shown

-----------------------------------------------------------------------------
(* Addresses. *)

\* Addresses listed by the explorer are those of the seed and script type, or of
\* the descriptor, of the last AddressType screen that BACK would lead to.
ExplorerShowsItsSource ==
  view.cls = "ToolsAddressExplorerAddressListView" =>
    \E i \in 1..Len(backStack) :
      /\ backStack[i].cls = "ToolsAddressExplorerAddressTypeView"
      /\ \A j \in (i + 1)..Len(backStack) : backStack[j].cls # backStack[i].cls
      /\ IF backStack[i].args = None
         THEN controller.explorer.seed = None /\ controller.explorer.descriptor = controller.descriptor
         ELSE /\ controller.explorer.seed = backStack[i].args.seed
              /\ controller.explorer.script = backStack[i].args.script

-----------------------------------------------------------------------------
(* Transactions. *)

ReviewScreens ==
  {"PSBTNoChangeWarningView", "PSBTMathView", "PSBTAddressDetailsView", "PSBTChangeDetailsView",
   "PSBTOpReturnView", "PSBTFinalizeView"}

\* What is reviewed is the transaction that would be signed, as read for the seed
\* that was chosen last, and that seed is in memory.  A descriptor scanned after the
\* flow was left leads to its change screen all the same, which then finds no
\* transaction or no seed to show anything of.
ReviewIsCurrent ==
  view.cls \in ReviewScreens =>
    \/ /\ view.cls = "PSBTChangeDetailsView"
       /\ controller.parser = None \/ controller.psbtSeed = None
    \/ /\ controller.parser = [psbt |-> controller.psbt, seed |-> controller.psbtSeed]
       /\ controller.psbtSeed \in storage.seeds

\* Nothing is signed before every address paid, every change output and the
\* OP_RETURN have been on the screen, as read for the seed that signs.
SignedIsReviewed ==
  view.cls = "PSBTSignedQRDisplayView" =>
    LET parser == controller.parser  tx == parser.psbt IN
    /\ controller.psbt = Trimmed(tx, parser.seed)
    /\ \A n \in 0..(tx.dests - 1) : AddressOf(parser, n) \in shown
    /\ \A n \in 0..(Len(tx.change) - 1) : \E v \in BOOLEAN : ChangeOf(parser, n, v) \in shown
    /\ tx.opReturn => OpReturnOf(parser) \in shown

\* With a descriptor in memory no change output of a multisig goes unverified,
\* the ones included that were skipped before the descriptor was loaded.
DescriptorVerifiesAll ==
  view.cls = "PSBTSignedQRDisplayView" /\ controller.descriptor # None =>
    LET parser == controller.parser IN
    \A n \in 0..(Len(parser.psbt.change) - 1) :
      parser.psbt.multisig => ChangeOf(parser, n, TRUE) \in shown

-----------------------------------------------------------------------------
(* Messages. *)

\* Nothing is signed before every page of the text that was paged has been on the
\* screen, and the address of the message for the seed that signs.
PagesAndAddressAreShown ==
  view.cls = "SeedSignMessageSignedMessageQRView" =>
    LET data == controller.signData IN
    /\ data.message # None /\ data.seed # None /\ data.paged # None
    /\ \A n \in 0..(data.paged.pages - 1) : <<"page", data.paged, n>> \in shown
    /\ <<"address", data.message, data.seed>> \in shown

\* "Complete the message review": the pages are those of the message that is signed.
SignedMessageIsReviewed ==
  view.cls = "SeedSignMessageSignedMessageQRView" =>
    \A n \in 0..(controller.signData.message.pages - 1) :
      <<"page", controller.signData.message, n>> \in shown

\* "Wipe seed from the device?": what has been wiped signs nothing.
SigningSeedIsInMemory ==
  view.cls = "SeedSignMessageSignedMessageQRView" => controller.signData.seed \in storage.seeds
=============================================================================
