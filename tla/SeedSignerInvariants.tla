------------------------ MODULE SeedSignerInvariants ------------------------
(***************************************************************************)
(* What is true in between: the inductive invariants that SeedSignerProofs *)
(* proves, in parts, and what a turn of the loop has to do to keep them.   *)
(***************************************************************************)
EXTENDS SeedSigner

-----------------------------------------------------------------------------
(* The loop and its stack. *)

\* What the back stack holds: a View's name and its arguments, nothing else.
IsEntry(e) == e = [cls |-> e.cls, args |-> e.args]

\* A sequence of entries.
IsStack(s) == \E S : s \in Seq(S) /\ \A e \in S : IsEntry(e)

\* The back stack is one.  Equality of Destinations compares names and arguments
\* only, so without this the entry that is left on top when the loop finds the
\* Destination there already need not be the View that runs.
StackOK ==
  /\ Len(backStack) \in Nat
  /\ backStack = [i \in 1..Len(backStack) |-> backStack[i]]
  /\ \A i \in 1..Len(backStack) : IsEntry(backStack[i])

IInv == StackOK /\ TopOfStackIsRunning

\* Where a turn ends: at Home, or on top of what is left of the stack; going back,
\* at a View from below, with what is below that, and no other View is lost than the
\* one that returned and, if that was skipped, the one below it; otherwise at the Destination, on
\* top of the View that returned it or of the one below, or in place of its equal.
Kept(d) == IF d.skip THEN Len(backStack) - 1 ELSE Len(backStack)

Landed(d, m) ==
  /\ m \in 0..Len(backStack) /\ Len(backStack') = m + 1 /\ view' = backStack'[m + 1]
  /\ \A i \in 1..m : backStack'[i] = backStack[i]
  /\ \/ /\ GoesBack(d)
        /\ \E k \in (m + 1)..(Len(backStack) - 1) : view' = backStack[k] /\ (~d.clear => k = m + 1)
        /\ ~d.clear => \A j \in (m + 1)..(Kept(d) - 1) : backStack[j] = view'
     \/ /\ ~GoesBack(d) /\ view' = Entry(d)
        /\ d.clear => m = 0
        /\ d.skip => m < Len(backStack)
        /\ ~d.clear => m = Kept(d) \/ (m + 1 = Kept(d) /\ view' = backStack[m + 1])

-----------------------------------------------------------------------------
(* Seeds, and the Views that work on them. *)

ValidSeeds == {seed \in Seeds : seed.words \in IF seed.electrum THEN ElectrumMnemonics ELSE Mnemonics}

\* What SeedStorage may hold.  All that SeedsAreValid says is part of it.
StorageType ==
  [seeds : SUBSET ValidSeeds, pendingSeed : ValidSeeds \union {None},
   pendingMnemonic : {<< >>} \union [1..MnemonicLength -> Words \union {None}],
   isElectrum : BOOLEAN]

\* Where the passphrase of the pending seed is being worked on ...
PassphraseScreens ==
  {"SeedAddPassphraseView", "SeedAddPassphraseExitDialogView", "SeedReviewPassphraseView"}

\* ... and all Views that lead to the pending seed becoming one in memory or being
\* discarded.  None of them goes back to what is below it in the stack.
IsFinishing(e) ==
  \/ e.cls \in PassphraseScreens \union {"SeedFinalizeView"}
  \/ e.cls = "SeedDiscardView" /\ e.args = None

\* The words of a seed, for which None stands for the pending one.
WordScreens ==
  {"SeedWordsWarningView", "SeedWordsView", "SeedWordsBackupTestPromptView",
   "SeedWordsBackupTestView", "SeedWordsBackupTestMistakeView", "SeedWordsBackupTestSuccessView"}

NeedsPending(e) == IsFinishing(e) \/ (e.cls \in WordScreens /\ e.args.seed = None)

\* Views of a seed in memory, which lead to those of its words.
ScreensOfASeed ==
  {"SeedOptionsView", "SeedBackupView",
   "SeedBIP85SelectNumWordsView", "SeedBIP85SelectChildIndexView", "SeedBIP85InvalidChildIndexView",
   "SeedTranscribeSeedQRFormatView", "SeedTranscribeSeedQRWarningView",
   "SeedTranscribeSeedQRWholeQRView", "SeedTranscribeSeedQRZoomedInView",
   "SeedTranscribeSeedQRConfirmQRPromptView", "SeedTranscribeSeedQRConfirmScanView",
   "SeedTranscribeSeedQRConfirmSuccessView"}

\* Views of the mnemonic that is being typed, among them those of its last word
\* when that is to be calculated.
FinalWordScreens ==
  {"ToolsCalcFinalWordFinalizePromptView", "ToolsCalcFinalWordCoinFlipsView",
   "ToolsCalcFinalWordShowFinalWordView", "ToolsCalcFinalWordDoneView"}
TypingScreens == {"SeedMnemonicEntryView", "SeedMnemonicInvalidView"} \union FinalWordScreens

\* The arguments of an entry of the stack.
ArgsOK(e) ==
  /\ e.cls \in ScreensOfASeed => e.args.seed \in Seeds
  /\ e.cls \in WordScreens => e.args.seed \in Seeds \union {None}
  /\ e.cls = "SeedDiscardView" => e.args = None \/ \E seed \in Seeds : e.args = [seed |-> seed]
  /\ e.cls = "SeedMnemonicEntryView" =>
       e.args = None \/ e.args \in [index : 0..(MnemonicLength - 1), calc : BOOLEAN]
  /\ e.cls = "ToolsCalcFinalWordShowFinalWordView" => e.args = None \/ e.args \in [bits : Words]
  /\ e.cls \in {"SeedWordsBackupTestView", "SeedWordsBackupTestMistakeView"} =>
       e.args = [seed |-> e.args.seed, bip85 |-> e.args.bip85, confirmed |-> e.args.confirmed, cur |-> e.args.cur]

\* WordIndex and IsCalcFinal of an entry.
IndexOf(e) == IF e.args = None THEN 0 ELSE e.args.index
CalcOf(e)  == e.args # None /\ e.args.calc

\* What may be above what: typing goes on until it is finished, and once all
\* words but the last are there only the last one is typed again.  So BACK from
\* the first word, which discards the mnemonic, never leads to a View that is
\* about its last word.
MayBeOn(y, x) ==
  /\ x.cls \in TypingScreens => y.cls \in TypingScreens \/ IsFinishing(y)
  /\ x.cls \in FinalWordScreens =>
       \/ y.cls \in FinalWordScreens \/ IsFinishing(y)
       \/ y.cls = "SeedMnemonicEntryView" /\ CalcOf(y) /\ IndexOf(y) = MnemonicLength - 1
  /\ x.cls = "ToolsCalcFinalWordDoneView" => IsFinishing(y)

\* The words before the one an entry is about are there.
Typed(e, st) ==
  LET m == st.pendingMnemonic IN
  /\ e.cls \in FinalWordScreens =>
       m # << >> /\ ~st.isElectrum /\ \A i \in 1..(MnemonicLength - 1) : m[i] \in Words
  /\ e.cls = "SeedMnemonicEntryView" =>
       /\ CalcOf(e) => ~st.isElectrum
       /\ m # << >> => \A i \in 1..IndexOf(e) : m[i] \in Words
  /\ e.cls = "ToolsCalcFinalWordDoneView" => m \in Mnemonics

\* Nobody leaves a pending seed with a passphrase but by keeping or discarding it.
NoPassphraseUnseen(st, e) ==
  st.pendingSeed # None /\ st.pendingSeed.passphrase # "" => e.cls \in PassphraseScreens

Places == 1..Len(backStack)

EntriesOK ==
  \A i \in Places : ArgsOK(backStack[i]) /\ (NeedsPending(backStack[i]) => storage.pendingSeed # None)
StackedOK == \A j \in Places : \A i \in 1..(j - 1) : MayBeOn(backStack[j], backStack[i])
TypedOK   == ~IsFinishing(view) => \A i \in Places : Typed(backStack[i], storage)

SeedInv ==
  /\ storage \in StorageType
  /\ EntriesOK /\ StackedOK /\ TypedOK
  /\ NoPassphraseUnseen(storage, view)

\* What the View that runs may do: return d and leave stored behind.
SeedStep(d, stored) ==
  /\ d.skip => view.cls # "MainMenuView"
  /\ stored \in StorageType
  /\ ~d.clear => (stored.pendingSeed = None => storage.pendingSeed = None)
  /\ ~d.clear => \A i \in Places : (GoesBack(d) => i < Len(backStack)) =>
                   IsFinishing(Entry(d)) \/ Typed(backStack[i], stored)
  /\ GoesBack(d) => ~d.clear
  /\ ~GoesBack(d) =>
       /\ ArgsOK(Entry(d)) /\ (NeedsPending(Entry(d)) => stored.pendingSeed # None)
       /\ Typed(Entry(d), stored) \/ IsFinishing(Entry(d))
       /\ ~d.clear => /\ ~d.skip => MayBeOn(Entry(d), view)
                      /\ \A x : MayBeOn(view, x) => MayBeOn(Entry(d), x)
  /\ IF GoesBack(d) THEN \A e : NoPassphraseUnseen(stored, e) ELSE NoPassphraseUnseen(stored, Entry(d))

\* A View that neither types nor finishes a seed, leaves the storage alone, and
\* leads to Views of that sort or of seeds that are there.
Leads(e) ==
  ArgsOK(e) /\ e.cls \notin TypingScreens /\ (NeedsPending(e) => storage.pendingSeed # None)

Quiet(d) ==
  /\ d.skip => view.cls # "MainMenuView"
  /\ view.cls \notin TypingScreens /\ ~IsFinishing(view)
  /\ IF GoesBack(d) THEN ~d.clear ELSE Leads(Entry(d))

\* The Views that have nothing to do with a seed being loaded.
Elsewhere(cls) ==
  cls \notin ScreensOfASeed \union WordScreens \union TypingScreens \union PassphraseScreens
             \union {"SeedFinalizeView", "SeedDiscardView"}

AddsNoSeed == storage'.seeds \subseteq storage.seeds

\* The pending one, if it is kept.
AddsPending == storage'.seeds \subseteq storage.seeds \union {storage.pendingSeed}

-----------------------------------------------------------------------------
(* Backups, and the address explorer. *)

\* The Views between the choice of what to back up and its test.
BackupScreens ==
  {"SeedWordsWarningView", "SeedWordsView", "SeedWordsBackupTestPromptView",
   "SeedWordsBackupTestView", "SeedWordsBackupTestMistakeView"}

Confirmation(e, i) == <<"confirmed", [seed |-> e.args.seed, bip85 |-> e.args.bip85], i>>

\* What a View of the test says is confirmed has been, no word twice; the word that
\* it asks for again is none of them.
Confirms(e, displayed) ==
  /\ e.cls \in BackupScreens => e.args.bip85 \in {None, "child"}
  /\ e.cls \in {"SeedWordsBackupTestView", "SeedWordsBackupTestMistakeView"} =>
       /\ e.args = [seed |-> e.args.seed, bip85 |-> e.args.bip85,
                    confirmed |-> e.args.confirmed, cur |-> e.args.cur]
       /\ e.args.confirmed \in Seq(WordIndices)
       /\ \A i, j \in 1..Len(e.args.confirmed) : i # j => e.args.confirmed[i] # e.args.confirmed[j]
       /\ \A i \in 1..Len(e.args.confirmed) : Confirmation(e, e.args.confirmed[i]) \in displayed
       /\ \/ e.args.cur = None
          \/ /\ e.args.cur \in WordIndices
             /\ \A i \in 1..Len(e.args.confirmed) : e.args.confirmed[i] # e.args.cur
  /\ e.cls = "SeedWordsBackupTestSuccessView" =>
       \E child \in {None, "child"} : \A i \in WordIndices :
         <<"confirmed", [seed |-> e.args.seed, bip85 |-> child], i>> \in displayed

BackupInv == \A i \in 1..Len(backStack) : Confirms(backStack[i], shown)

\* A turn that leads to no View of a backup.
NoBackup(cls) == cls \notin BackupScreens \union {"SeedWordsBackupTestSuccessView"}

TypeScreen == "ToolsAddressExplorerAddressTypeView"
Listings   == {"ToolsAddressExplorerAddressListView", "ToolsAddressExplorerAddressView"}

\* The explorer's data are those of the AddressType screen with these arguments.
Sourced(temps, args) ==
  IF args = None
  THEN temps.explorer.seed = None /\ temps.explorer.descriptor = temps.descriptor
  ELSE temps.explorer.seed = args.seed /\ temps.explorer.script = args.script

\* The AddressType screen leads to the listings only, and they are reached through
\* it only: there is at most one in the history, below every listing.
ExplorerInv ==
  /\ \A i, j \in 1..Len(backStack) :
       i < j /\ backStack[i].cls = TypeScreen => backStack[j].cls \in Listings
  /\ \A j \in 1..Len(backStack) :
       backStack[j].cls \in Listings =>
         \E i \in 1..Len(backStack) : i < j /\ backStack[i].cls = TypeScreen
  /\ \A i \in 1..Len(backStack) :
       view.cls \in Listings /\ backStack[i].cls = TypeScreen => Sourced(controller, backStack[i].args)

-----------------------------------------------------------------------------
(* Seeds that are chosen. *)

\* A turn that neither is in the explorer nor leads to its listings.
Outside == view.cls \notin {"ToolsAddressExplorerAddressTypeView",
  "ToolsAddressExplorerAddressListView", "ToolsAddressExplorerAddressView"}
NoListing(cls) ==
  cls \notin {"ToolsAddressExplorerAddressListView", "ToolsAddressExplorerAddressView"}

\* Views about one seed in memory, those of its words and of discarding it among them.
OfASeed(e) ==
  \/ e.cls \in ScreensOfASeed
  \/ e.cls \in WordScreens /\ e.args.seed # None
  \/ e.cls = "SeedDiscardView" /\ e.args # None

\* The screens under "Seeds" on the main menu.
UnderSeeds(e) == OfASeed(e) \/ e.cls = "SeedsMenuView"

\* Discarding a seed leads Home, so that every View about a seed, and the choice of
\* one for a transaction, is about one that is still there; and no seed's menu opens
\* in the middle of another flow that began with the scanner.
KnownSeeds ==
  /\ controller.psbtSeed \in storage.seeds \union {None}
  /\ \A i \in Places : backStack[i].cls # "MainMenuView"
  /\ \A i \in Places : OfASeed(backStack[i]) => backStack[i].args.seed \in storage.seeds
  /\ \A i, j \in Places : i < j /\ backStack[i].cls = "ScanView" => ~UnderSeeds(backStack[j])

\* What a View may return, and leave behind.
KnownStep(d, temps, stored) ==
  /\ d.skip => view.cls # "MainMenuView"
  /\ temps.psbtSeed \in storage.seeds \union {None}
  /\ Target(d) = Home \/ storage.seeds \subseteq stored.seeds
  /\ GoesBack(d) => ~d.clear
  /\ ~GoesBack(d) =>
       /\ d.cls = "MainMenuView" => d.args = None
       /\ OfASeed(Entry(d)) => d.args.seed \in stored.seeds
       /\ UnderSeeds(Entry(d)) => d.clear \/ UnderSeeds(view) \/ view.cls = "MainMenuView"

-----------------------------------------------------------------------------
(* The review of a transaction, and what is signed. *)

ReviewZone == ReviewScreens \union {"PSBTSigningErrorView", "PSBTSignedQRDisplayView"}

\* Where a descriptor is asked for, scanned and accepted.
DescriptorScreens ==
  {"LoadMultisigWalletDescriptorView", "ScanWalletDescriptorView", "MultisigWalletDescriptorView"}

\* All that the review, and a descriptor loaded on the way, leads to without
\* clearing the history.
Beyond ==
  ReviewZone \union DescriptorScreens \union
  {"SeedAddressVerificationView", "SeedAddressVerificationSuccessView",
   "ToolsAddressExplorerAddressTypeView", "ToolsAddressExplorerAddressListView",
   "ToolsAddressExplorerAddressView", "ErrorView", "ScanInvalidQRTypeView", "NotYetImplementedView"}

OfReview == Beyond \union {"PSBTOverviewView"}

\* No transaction has been read for a seed.
Idle == controller.parser = None \/ controller.psbtSeed = None

UnderReview == \E i \in Places : backStack[i].cls = "PSBTOverviewView"

\* What may be above what.
ReviewStacked ==
  \A i, j \in Places : i < j =>
    /\ backStack[i].cls \in OfReview => backStack[j].cls \in Beyond
    /\ backStack[i].cls # "PSBTSignedQRDisplayView"
    /\ backStack[i].cls = "MultisigWalletDescriptorView" => backStack[j].cls \notin DescriptorScreens

\* The error screen is on a scanner of one kind.
ReviewArgs ==
  \A i \in Places :
    /\ backStack[i].cls = "ErrorView" => i > 1 /\ backStack[i - 1].cls \in DOMAIN ScannerFor
    /\ backStack[i].cls = "SeedSelectSeedView" =>
         backStack[i].args.flow \in {"singlesig_addr", "sign_message"}
    /\ backStack[i].cls \in {"PSBTAddressDetailsView", "PSBTChangeDetailsView"} =>
         backStack[i].args.num \in Nat

\* How many destinations and change outputs have been on the screen when the review
\* is at an entry of the stack.
DestsBefore(e, tx) ==
  IF e.cls \in {"PSBTNoChangeWarningView", "PSBTMathView"} THEN 0
  ELSE IF e.cls = "PSBTAddressDetailsView" THEN e.args.num ELSE tx.dests
ChangeBefore(e, tx) ==
  IF e.cls \in {"PSBTNoChangeWarningView", "PSBTMathView", "PSBTAddressDetailsView"} \union DescriptorScreens
  THEN 0
  ELSE IF e.cls = "PSBTChangeDetailsView" THEN e.args.num ELSE Len(tx.change)

Reached(e, parser, items) ==
  /\ \A n \in Nat : n < DestsBefore(e, parser.psbt) => AddressOf(parser, n) \in items
  /\ \A n \in Nat : n < ChangeBefore(e, parser.psbt) => \E v \in BOOLEAN : ChangeOf(parser, n, v) \in items
  /\ e.cls \in {"PSBTFinalizeView", "PSBTSigningErrorView", "PSBTSignedQRDisplayView"} /\ parser.psbt.opReturn
       => OpReturnOf(parser) \in items

VerifiedBefore(e, parser, items) ==
  \A n \in Nat : n < ChangeBefore(e, parser.psbt) => ChangeOf(parser, n, TRUE) \in items

\* The review is above its overview, and so are the screens for a descriptor when they
\* are to lead back to it; without a transaction only a change screen is left of it.
ReviewReached ==
  \A i \in Places :
    /\ backStack[i].cls \in ReviewZone =>
         \/ UnderReview /\ Reached(backStack[i], controller.parser, shown)
         \/ backStack[i].cls = "PSBTChangeDetailsView" /\ Idle
    /\ backStack[i].cls \in DescriptorScreens /\ controller.resume = "psbt" =>
         \/ UnderReview /\ Reached(backStack[i], controller.parser, shown)
         \/ Idle

\* A flow that began with the scanner is not about a transaction that was read.
ScanIsApart ==
  \A i \in Places :
    /\ backStack[i].cls = "ScanView" /\ ~Idle
    /\ controller.resume = "psbt" \/ \E j \in Places : j > i /\ backStack[j].cls = "PSBTSelectSeedView"
    => UnderReview

ParserOK ==
  /\ view = Home => controller.parser = None
  /\ controller.parser # None =>
       /\ controller.parser = [psbt |-> controller.parser.psbt, seed |-> controller.parser.seed]
       /\ controller.parser.psbt \in Transactions
       /\ IF view.cls = "PSBTSignedQRDisplayView"
          THEN controller.psbt = Trimmed(controller.parser.psbt, controller.parser.seed)
          ELSE controller.psbt = controller.parser.psbt
  /\ view.cls # "PSBTSignedQRDisplayView" => controller.psbt \in Transactions \union {None}

\* What is above the overview is about the seed that was chosen last.
OverviewOK ==
  \A i \in Places : backStack[i].cls = "PSBTOverviewView" =>
    /\ controller.psbtSeed # None
    /\ i = Len(backStack) => controller.psbt \in Transactions
    /\ i < Len(backStack) => controller.parser # None /\ controller.parser.seed = controller.psbtSeed

\* With a descriptor the review has verified all change so far, or is to start over
\* with it from the screen of the descriptor.
DescriptorOK ==
  \A i \in Places :
    /\ backStack[i].cls = "MultisigWalletDescriptorView" => controller.descriptor # None
    /\ /\ ~Idle /\ controller.descriptor # None
       /\ controller.parser.psbt.multisig /\ backStack[i].cls \in ReviewZone
       =>
         \/ VerifiedBefore(backStack[i], controller.parser, shown)
         \/ \E j \in Places : j > i /\ backStack[j].cls = "MultisigWalletDescriptorView"

ReviewInv ==
  /\ ReviewStacked /\ ReviewArgs /\ ReviewReached /\ ScanIsApart
  /\ ParserOK /\ OverviewOK /\ DescriptorOK

\* What a View leaves behind of what the review is about.
Undisturbed(temps) ==
  /\ temps.psbt = controller.psbt /\ temps.parser = controller.parser
  /\ temps.psbtSeed = controller.psbtSeed /\ temps.descriptor = controller.descriptor
  /\ temps.resume = controller.resume \/ temps.resume # "psbt"

\* Onward, without clearing the history: the View that is left stays below, or makes
\* room for the next one.  The conditions are about the next View, and about a flow
\* that is to be resumed.
MayFollow(d) ==
  /\ d.cls \notin {"PSBTOverviewView", "BackStackView"}
  /\ view.cls \in OfReview => d.cls \in Beyond
  /\ d.cls \in DescriptorScreens => \A i \in Places : backStack[i].cls # "MultisigWalletDescriptorView"
  /\ d.cls = "ErrorView" => ~d.skip /\ view.cls \in DOMAIN ScannerFor
  /\ d.cls = "SeedSelectSeedView" => d.args.flow \in {"singlesig_addr", "sign_message"}
  /\ d.cls \in {"PSBTAddressDetailsView", "PSBTChangeDetailsView"} => d.args.num \in Nat
  /\ d.cls = "PSBTSelectSeedView" =>
       Idle \/ UnderReview \/ \A i \in Places : backStack[i].cls # "ScanView"

ReviewFollows(d, temps, items) ==
  /\ d.cls \in ReviewZone =>
       \/ UnderReview /\ Reached(Entry(d), controller.parser, items)
       \/ d.cls = "PSBTChangeDetailsView" /\ Idle
  /\ d.cls \in ReviewZone /\ ~Idle /\ temps.descriptor # None /\ controller.parser.psbt.multisig =>
       VerifiedBefore(Entry(d), controller.parser, items)
  /\ d.cls \in DescriptorScreens /\ temps.resume = "psbt" =>
       Idle \/ (UnderReview /\ Reached(Entry(d), controller.parser, items))

\* The review is to be resumed after a descriptor, or a seed, was loaded.
ResumeFollows(d, temps, items) ==
  /\ d.cls = "ScanView" => Idle \/ temps.resume # "psbt"
  /\ temps.resume = "psbt" /\ controller.resume # "psbt" =>
       \A i \in Places :
         /\ backStack[i].cls = "ScanView" => Idle \/ UnderReview
         /\ backStack[i].cls \in DescriptorScreens =>
              Idle \/ (UnderReview /\ Reached(backStack[i], controller.parser, items))

SigningInv == KnownSeeds /\ ReviewInv

\* What these Views need of the classes they lead to: neither a seed's menu ...
NoSeedMenu(cls) ==
  cls \notin {"SeedOptionsView", "SeedBackupView",
    "SeedBIP85SelectNumWordsView", "SeedBIP85SelectChildIndexView", "SeedBIP85InvalidChildIndexView",
    "SeedTranscribeSeedQRFormatView", "SeedTranscribeSeedQRWarningView",
    "SeedTranscribeSeedQRWholeQRView", "SeedTranscribeSeedQRZoomedInView",
    "SeedTranscribeSeedQRConfirmQRPromptView", "SeedTranscribeSeedQRConfirmScanView",
    "SeedTranscribeSeedQRConfirmSuccessView",
    "SeedWordsWarningView", "SeedWordsView", "SeedWordsBackupTestPromptView",
    "SeedWordsBackupTestView", "SeedWordsBackupTestMistakeView", "SeedWordsBackupTestSuccessView",
    "SeedDiscardView", "SeedsMenuView"}

\* ... nor a screen of which the review depends.
NoReview(cls) ==
  cls \notin {"PSBTOverviewView", "PSBTNoChangeWarningView", "PSBTMathView", "PSBTAddressDetailsView",
    "PSBTChangeDetailsView", "PSBTOpReturnView", "PSBTFinalizeView", "PSBTSigningErrorView",
    "PSBTSignedQRDisplayView", "LoadMultisigWalletDescriptorView", "ScanWalletDescriptorView",
    "MultisigWalletDescriptorView", "PSBTSelectSeedView", "ScanView", "ErrorView", "SeedSelectSeedView"}

-----------------------------------------------------------------------------
(* Messages. *)

\* Outside of the review and of what it leads to.
Aside ==
  view.cls \notin {"PSBTOverviewView", "PSBTNoChangeWarningView", "PSBTMathView", "PSBTAddressDetailsView",
    "PSBTChangeDetailsView", "PSBTOpReturnView", "PSBTFinalizeView", "PSBTSigningErrorView",
    "PSBTSignedQRDisplayView", "LoadMultisigWalletDescriptorView", "ScanWalletDescriptorView",
    "MultisigWalletDescriptorView", "SeedAddressVerificationView", "SeedAddressVerificationSuccessView",
    "ToolsAddressExplorerAddressTypeView", "ToolsAddressExplorerAddressListView",
    "ToolsAddressExplorerAddressView", "ErrorView", "ScanInvalidQRTypeView", "NotYetImplementedView"}

\* What a View does not change of the storage.
Keeps(stored) == storage.seeds \subseteq stored.seeds

MessageReview ==
  {"SeedSignMessageConfirmMessageView", "SeedSignMessageConfirmAddressView",
   "SeedSignMessageSignedMessageQRView"}

PageOf(args) == IF args = None THEN 0 ELSE args.page

\* What has been on the screen when the review of a message is at an entry.
ShownBefore(e, data, items) ==
  /\ e.cls = "SeedSignMessageConfirmMessageView" =>
       /\ PageOf(e.args) \in Nat
       /\ PageOf(e.args) > 0 => data.paged # None
       /\ \A n \in Nat : n < PageOf(e.args) => <<"page", data.paged, n>> \in items
  /\ e.cls # "SeedSignMessageConfirmMessageView" =>
       /\ data.paged # None
       /\ \A n \in 0..(data.paged.pages - 1) : <<"page", data.paged, n>> \in items
  /\ e.cls = "SeedSignMessageSignedMessageQRView" =>
       /\ data.message # None /\ data.seed # None
       /\ <<"address", data.message, data.seed>> \in items

\* The attributes have a place for the message, and the message one for its pages.
MessageHasPlace(temps) ==
  /\ "signData" \in DOMAIN temps
  /\ temps.signData = None \/ "paged" \in DOMAIN temps.signData

\* Above a screen of the review there is only the rest of it: BACK from the first
\* page, which drops the message, leaves the review as a whole.
MessageInv ==
  /\ MessageHasPlace(controller)
  /\ \A i, j \in Places : i < j /\ backStack[i].cls \in MessageReview =>
       /\ backStack[j].cls \in MessageReview
       /\ backStack[j].cls = "SeedSignMessageConfirmMessageView" => PageOf(backStack[j].args) > 0
  /\ \A i \in Places : backStack[i].cls \in MessageReview =>
       ShownBefore(backStack[i], controller.signData, shown)
=============================================================================
