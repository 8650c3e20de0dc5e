-------------------------- MODULE SeedSignerProofs --------------------------
(***************************************************************************)
(* Proofs about the Controller and its flows, for any errands.             *)
(*                                                                         *)
(* The loop: the running View is on top of the back stack, whatever the    *)
(* Views return: one lemma for a turn of the loop, and one step for each   *)
(* action of each flow that cites it.                                      *)
(*                                                                         *)
(* Seeds: what a View works on is there, all seeds in memory are valid,    *)
(* and passphrases are kept from the screen that shows them, for any       *)
(* wordlist and any length of a mnemonic.                                  *)
(*                                                                         *)
(* The screens: the words of a backup that is said to be right have all    *)
(* been confirmed, the addresses of the explorer are those of the source   *)
(* that was chosen, and what is signed, a transaction or a message, has    *)
(* been reviewed before.                                                   *)
(***************************************************************************)
EXTENDS SeedSignerInvariants, SequenceTheorems, FiniteSetTheorems, TLAPS

-----------------------------------------------------------------------------
(* The loop's operations on a stack. *)

\* StackOK says of the variable what IsStack says of any sequence ...
LEMMA StackIsSeq ==
  ASSUME StackOK PROVE IsStack(backStack)
<1> DEFINE S == {backStack[i] : i \in 1..Len(backStack)}
<1>1. backStack \in Seq(S)
  BY DEF StackOK
<1>2. \A e \in S : IsEntry(e)
  BY DEF StackOK
<1> QED BY <1>1, <1>2 DEF IsStack

\* ... and a sequence of entries is what StackOK asks for.
LEMMA SeqIsStack ==
  ASSUME NEW s, IsStack(s)
  PROVE  /\ Len(s) \in Nat
         /\ s = [i \in 1..Len(s) |-> s[i]]
         /\ \A i \in 1..Len(s) : IsEntry(s[i])
  BY DEF IsStack

\* The stack that clear_history leaves: that of no entries, among any entries.
LEMMA EmptyIsStack ==
  ASSUME NEW s, IsStack(s) PROVE IsStack(<< >>)
  BY DEF IsStack

\* The stack without the current View, for skip_current_view.
LEMMA FrontIsStack ==
  ASSUME NEW s, IsStack(s), s # << >> PROVE IsStack(Front(s))
  BY DEF IsStack, Front

\* The stack without the current View and the one before it, for going back.
LEMMA PoppedIsStack ==
  ASSUME NEW s, IsStack(s) PROVE IsStack(Popped(s))
  BY DEF IsStack, Popped

LEMMA PoppedIsTwoShorter ==
  ASSUME NEW S, NEW s \in Seq(S), Len(s) >= 2 PROVE Len(Popped(s)) = Len(s) - 2
<1>1. Len(s) \in Nat /\ Popped(s) = SubSeq(s, 1, Len(s) - 2)
  BY DEF Popped
<1>2. \A i \in 1..(Len(s) - 2) : s[i] \in S
  BY <1>1
<1> DEFINE n == Len(s) - 2
<1>3. n \in Int /\ n >= 0
  BY <1>1
<1> HIDE DEF n
<1>4. Len(SubSeq(s, 1, n)) = IF 1 <= n THEN n - 1 + 1 ELSE 0
  BY <1>2, <1>3, SubSeqProperties DEF n
<1>5. Len(SubSeq(s, 1, n)) = n
  BY <1>3, <1>4
<1> QED BY <1>1, <1>5 DEF n

\* What is on top is an entry ...
LEMMA LastIsEntry ==
  ASSUME NEW s, IsStack(s), s # << >> PROVE IsEntry(Last(s))
  BY DEF IsStack, Last

\* ... and so is what going back leads to, Home where nothing is left.
LEMMA PreviousIsEntry ==
  ASSUME NEW s, IsStack(s) PROVE IsEntry(PreviousIn(s))
  BY DEF IsStack, PreviousIn, Home, Entry, To, IsEntry

\* What is pushed is on top.
LEMMA AppendedIsStack ==
  ASSUME NEW s, IsStack(s), NEW e, IsEntry(e)
  PROVE  IsStack(Append(s, e)) /\ Append(s, e) # << >> /\ Last(Append(s, e)) = e
<1> PICK S : s \in Seq(S) /\ \A x \in S : IsEntry(x)
  BY DEF IsStack
<1>1. Append(s, e) \in Seq(S \union {e})
  OBVIOUS
<1>2. \A x \in S \union {e} : IsEntry(x)
  OBVIOUS
<1>3. Append(s, e) # << >> /\ Last(Append(s, e)) = e
  BY <1>1 DEF Last
<1> QED BY <1>1, <1>2, <1>3 DEF IsStack

-----------------------------------------------------------------------------
(* A turn of the loop. *)

\* Whatever a View returns, the View that runs next is on top of the stack, which
\* is empty at Home.  The one thing the loop cannot take is Home returning a
\* Destination that skips it: nothing is there to pop.
LEMMA TurnStep ==
  ASSUME NEW d, NEW temps, NEW stored, NEW displayed,
         IInv, d.skip => view.cls # "MainMenuView",
         Turn(d, temps, stored, displayed)
  PROVE  IInv'
<1> DEFINE kept == AfterSkip(d)
<1>1. IsStack(backStack)
  BY StackIsSeq DEF IInv
<1>2. d.skip => backStack # << >>
  BY DEF IInv, TopOfStackIsRunning, Home, Entry, To
<1>3. IsStack(kept)
  BY <1>1, <1>2, FrontIsStack DEF AfterSkip
<1>4. IsEntry(Target(d))
  BY <1>3, PreviousIsEntry DEF Target, Entry, IsEntry
<1>5. IsStack(Remaining(d))
  BY <1>3, EmptyIsStack, PoppedIsStack DEF Remaining
<1>6. CASE Target(d) = Home
  BY <1>6 DEF Turn, IInv, StackOK, TopOfStackIsRunning
<1>7. CASE Target(d) # Home
  <2>1. view' = Target(d) /\ backStack' = Pushed(d)
    BY <1>7 DEF Turn
  <2>2. IsStack(Pushed(d)) /\ Pushed(d) # << >> /\ Last(Pushed(d)) = Target(d)
    <3>1. CASE IsOnTop(d)
      <4>1. /\ Remaining(d) # << >>
            /\ Last(Remaining(d)).cls = Target(d).cls
            /\ Last(Remaining(d)).args = Target(d).args
        BY <3>1 DEF IsOnTop
      <4>2. Last(Remaining(d)) = Target(d)
        BY <4>1, <1>4, <1>5, LastIsEntry DEF IsEntry
      <4> QED BY <3>1, <4>1, <4>2, <1>5 DEF Pushed
    <3>2. CASE ~IsOnTop(d)
      BY <3>2, <1>4, <1>5, AppendedIsStack DEF Pushed
    <3> QED BY <3>1, <3>2
  <2>3. StackOK'
    BY <2>1, <2>2, SeqIsStack DEF StackOK
  <2>4. TopOfStackIsRunning'
    BY <2>1, <2>2, <1>7 DEF TopOfStackIsRunning
  <2> QED BY <2>3, <2>4 DEF IInv
<1> QED BY <1>6, <1>7

LEMMA Landing ==
  ASSUME NEW d, NEW temps, NEW stored, NEW displayed,
         IInv, d.skip => view.cls # "MainMenuView",
         Turn(d, temps, stored, displayed)
  PROVE  \/ /\ view' = Home /\ backStack' = << >> /\ Target(d) = Home
            /\ controller' = Wiped(temps) /\ storage' = stored /\ shown' = {}
         \/ /\ view' # Home /\ \E m : Landed(d, m)
            /\ controller' = temps /\ storage' = stored /\ shown' = shown \union displayed
<1> DEFINE kept == AfterSkip(d)
           left == Remaining(d)
<1>1. PICK S : backStack \in Seq(S) /\ \A e \in S : IsEntry(e)
  BY StackIsSeq DEF IInv, IsStack
<1>2. d.skip => backStack # << >>
  BY DEF IInv, TopOfStackIsRunning, Home, Entry, To
<1>3. /\ kept \in Seq(S) /\ Len(kept) \in 0..Len(backStack)
      /\ \A i \in 1..Len(kept) : kept[i] = backStack[i]
      /\ d.skip => Len(kept) < Len(backStack)
      /\ Len(kept) = Kept(d)
  BY <1>1, <1>2 DEF AfterSkip, Front, Kept
<1>4. /\ left \in Seq(S) /\ Len(left) \in 0..Len(kept)
      /\ \A i \in 1..Len(left) : left[i] = kept[i]
      /\ d.clear => Len(left) = 0
      /\ ~d.clear /\ ~GoesBack(d) => Len(left) = Kept(d)
  <2>1. CASE d.clear
    BY <2>1 DEF Remaining
  <2>2. CASE ~d.clear /\ GoesBack(d)
    BY <2>2, <1>3 DEF Remaining, Popped
  <2>3. CASE ~d.clear /\ ~GoesBack(d)
    BY <2>3, <1>3 DEF Remaining
  <2> QED BY <2>1, <2>2, <2>3
<1>5. CASE Target(d) = Home
  BY <1>5 DEF Turn
<1>6. CASE Target(d) # Home
  <2>1. /\ view' = Target(d) /\ backStack' = Pushed(d)
        /\ controller' = temps /\ storage' = stored /\ shown' = shown \union displayed
    BY <1>6 DEF Turn
  <2>2. IsEntry(Target(d))
    <3>1. IsStack(kept)
      BY <1>1, <1>3 DEF IsStack
    <3> QED BY <3>1, PreviousIsEntry DEF Target, Entry, IsEntry
  <2>3. GoesBack(d) =>
          /\ \E k \in (Len(left) + 1)..(Len(backStack) - 1) :
               Target(d) = backStack[k] /\ (~d.clear => k = Len(left) + 1)
          /\ ~d.clear => Kept(d) - 1 = Len(left) + 1 /\ backStack[Kept(d) - 1] = Target(d)
    <3> SUFFICES ASSUME GoesBack(d)
                 PROVE  /\ \E k \in (Len(left) + 1)..(Len(backStack) - 1) :
                             Target(d) = backStack[k] /\ (~d.clear => k = Len(left) + 1)
                        /\ ~d.clear => Kept(d) - 1 = Len(left) + 1 /\ backStack[Kept(d) - 1] = Target(d)
      OBVIOUS
    <3>1. Len(kept) >= 2 /\ Target(d) = kept[Len(kept) - 1]
      BY <1>3, <1>6 DEF Target, PreviousIn
    <3>2. Len(left) <= Len(kept) - 2 /\ (~d.clear => Len(left) = Len(kept) - 2)
      <4>1. CASE d.clear
        BY <1>4, <3>1, <4>1, <1>3
      <4>2. CASE ~d.clear
        <5>1. left = Popped(kept)
          BY <4>2 DEF Remaining
        <5>2. Len(left) = Len(kept) - 2
          BY <1>3, <3>1, <5>1, PoppedIsTwoShorter
        <5> QED BY <1>1, <1>3, <5>2
      <4> QED BY <4>1, <4>2
    <3>3. /\ Len(kept) - 1 \in (Len(left) + 1)..(Len(backStack) - 1)
          /\ Target(d) = backStack[Len(kept) - 1]
          /\ ~d.clear => Len(kept) - 1 = Len(left) + 1
      BY <1>1, <1>3, <1>4, <3>1, <3>2
    <3> QED BY <1>3, <3>3
  <2>4. CASE IsOnTop(d)
    <3>1. left # << >> /\ Last(left).cls = Target(d).cls /\ Last(left).args = Target(d).args
      BY <2>4 DEF IsOnTop
    <3>2. Len(left) >= 1 /\ left[Len(left)] = Target(d)
      BY <1>1, <1>4, <2>2, <3>1 DEF Last, IsEntry
    <3>3. backStack' = left
      BY <2>1, <2>4 DEF Pushed
    <3>4. view' = backStack[Len(left)]
      BY <1>3, <1>4, <2>1, <3>2
    <3>5. GoesBack(d) =>
            /\ \E k \in Len(left)..(Len(backStack) - 1) :
                 view' = backStack[k] /\ (~d.clear => k = Len(left))
            /\ ~d.clear => \A j \in Len(left)..(Kept(d) - 1) : backStack[j] = view'
      <4>1. GoesBack(d) => \E k \in Len(left)..(Len(backStack) - 1) :
                             view' = backStack[k] /\ (~d.clear => k = Len(left))
        BY <1>1, <1>3, <1>4, <2>3, <3>2, <3>4
      <4>2. ASSUME GoesBack(d), ~d.clear, NEW j \in Len(left)..(Kept(d) - 1)
            PROVE  backStack[j] = view'
        <5>1. Kept(d) - 1 = Len(left) + 1 /\ backStack[Kept(d) - 1] = Target(d)
          BY <2>3, <4>2
        <5>2. j = Len(left) \/ j = Kept(d) - 1
          BY <1>1, <1>3, <1>4, <4>2, <5>1
        <5> QED BY <2>1, <3>4, <5>1, <5>2
      <4> QED BY <4>1, <4>2
    <3>6. Landed(d, Len(left) - 1)
      <4>1. /\ Len(backStack') = (Len(left) - 1) + 1 /\ Len(left) - 1 \in 0..Len(backStack)
            /\ (Len(left) - 1) + 1 = Len(left)
        BY <1>3, <1>4, <3>2, <3>3
      <4>2. \A i \in 1..(Len(left) - 1) : backStack'[i] = backStack[i]
        BY <1>3, <1>4, <3>3
      <4>3. /\ d.clear => FALSE
            /\ d.skip => Len(left) - 1 < Len(backStack)
            /\ ~d.clear /\ ~GoesBack(d) => (Len(left) - 1) + 1 = Kept(d)
        BY <1>3, <1>4, <3>2
      <4> QED BY Zenon, <2>1, <3>2, <3>3, <3>4, <3>5, <4>1, <4>2, <4>3 DEF Landed, Target
    <3> QED BY <1>6, <2>1, <3>6
  <2>5. CASE ~IsOnTop(d)
    <3>1. backStack' = Append(left, Target(d))
      BY <2>1, <2>5 DEF Pushed
    <3>2. /\ Len(backStack') = Len(left) + 1 /\ backStack'[Len(left) + 1] = Target(d)
          /\ \A i \in 1..Len(left) : backStack'[i] = left[i]
      BY <1>4, <3>1
    <3>3. Landed(d, Len(left))
      <4>1. /\ Len(left) \in 0..Len(backStack) /\ view' = backStack'[Len(left) + 1]
            /\ \A i \in 1..Len(left) : backStack'[i] = backStack[i]
        BY <1>1, <1>3, <1>4, <2>1, <3>2
      <4>2. /\ d.clear => Len(left) = 0
            /\ d.skip => Len(left) < Len(backStack)
            /\ ~d.clear /\ ~GoesBack(d) => Len(left) = Kept(d)
        BY <1>1, <1>3, <1>4
      <4>3. GoesBack(d) =>
              /\ \E k \in (Len(left) + 1)..(Len(backStack) - 1) :
                   view' = backStack[k] /\ (~d.clear => k = Len(left) + 1)
              /\ ~d.clear => \A j \in (Len(left) + 1)..(Kept(d) - 1) : backStack[j] = view'
        <5>1. GoesBack(d) => \E k \in (Len(left) + 1)..(Len(backStack) - 1) :
                               view' = backStack[k] /\ (~d.clear => k = Len(left) + 1)
          BY <2>1, <2>3
        <5>2. ASSUME GoesBack(d), ~d.clear, NEW j \in (Len(left) + 1)..(Kept(d) - 1)
              PROVE  backStack[j] = view'
          <6>1. Kept(d) - 1 = Len(left) + 1 /\ backStack[Kept(d) - 1] = Target(d)
            BY <2>3, <5>2
          <6>2. j = Kept(d) - 1
            BY <1>4, <5>2, <6>1
          <6> QED BY <2>1, <6>1, <6>2
        <5> QED BY <5>1, <5>2
      <4>4. ~GoesBack(d) => view' = Entry(d)
        BY <2>1 DEF Target
      <4> HIDE DEF left, kept
      <4> QED BY <3>2, <4>1, <4>2, <4>3, <4>4 DEF Landed
    <3> QED BY <1>6, <2>1, <3>3
  <2> QED BY <2>4, <2>5
<1> QED BY <1>5, <1>6

\* The View that runs is on top.
LEMMA ViewIsOnTop ==
  ASSUME IInv
  PROVE  /\ Len(backStack) \in Nat
         /\ view # Home => Len(backStack) > 0 /\ backStack[Len(backStack)] = view
         /\ view = Home => Len(backStack) = 0
<1>1. PICK S : backStack \in Seq(S)
  BY StackIsSeq DEF IInv, IsStack
<1>2. Len(<< >>) = 0
  OBVIOUS
<1> QED BY <1>1, <1>2 DEF IInv, TopOfStackIsRunning, Last

\* Every View but Home may return what it likes.
LEMMA AwayFromHome ==
  ASSUME IInv, view.cls # "MainMenuView"
  PROVE  \A d, temps, stored, displayed : Turn(d, temps, stored, displayed) => IInv'
  BY TurnStep

\* A View that scans is not Home.
LEMMA ScannerIsNotHome ==
  /\ AtAnyScanner => view.cls # "MainMenuView"
  /\ \A kind : Scanned(kind) => view.cls # "MainMenuView"
  BY DEF AtAnyScanner, Scanned, Scanners, ScannerFor

-----------------------------------------------------------------------------
(* The flows. *)

\* The Views every flow shares: Home is the one with the stack empty, so it is taken
\* by TurnStep, none of its choices skipping it.
LEMMA SharedViewsStep ==
  ASSUME IInv, SharedViews PROVE IInv'
<1>1. CASE MainMenuView
  BY <1>1, TurnStep DEF MainMenuView, Choose, Go, To
<1>2. CASE PowerOptionsView
  BY <1>2, AwayFromHome DEF PowerOptionsView, At, Go, Choose
<1>3. CASE PowerOffView
  BY <1>3, AwayFromHome DEF PowerOffView, At, Go
<1>4. CASE RestartView
  BY <1>4 DEF RestartView, IInv, StackOK, TopOfStackIsRunning
<1>5. CASE UnhandledExceptionView
  BY <1>5, AwayFromHome DEF UnhandledExceptionView, At, Go
<1>6. CASE WarnAndGoHome
  BY <1>6, AwayFromHome DEF WarnAndGoHome, At, Go
<1>7. CASE ErrorView
  BY <1>7, AwayFromHome DEF ErrorView, At, Go
<1> QED BY <1>1, <1>2, <1>3, <1>4, <1>5, <1>6, <1>7 DEF SharedViews

\* Loading, finalizing and discarding a seed.
LEMMA SeedViewsStep ==
  ASSUME IInv, SeedViews PROVE IInv'
<1>1. CASE ScanComesToNothing
  BY <1>1, AwayFromHome, ScannerIsNotHome DEF ScanComesToNothing, Go, ChooseLeaving,
    GoWith, Choose, RaiseError
<1>2. CASE ScanSeed
  BY Zenon, <1>2, AwayFromHome, ScannerIsNotHome DEF ScanSeed, GoStoring
<1>3. CASE SeedsMenuView
  BY Zenon, <1>3, AwayFromHome DEF SeedsMenuView, At, Go, ChooseWith, Choose
<1>4. CASE LoadSeedView
  BY Zenon, <1>4, AwayFromHome DEF LoadSeedView, At, Go, LoadASeed, ChooseLeaving, GoWith, Choose
<1>5. CASE SeedSelectSeedView
  BY Zenon, <1>5, AwayFromHome DEF SeedSelectSeedView, At, Go, ChooseWith, Raise, RaiseError, GoWith,
    LoadASeed, ChooseLeaving
<1>6. CASE SeedMnemonicEntryView
  BY <1>6, AwayFromHome DEF SeedMnemonicEntryView, At, GoStoring, NextAfterWord, Raise,
    RaiseError, Go
<1>7. CASE SeedMnemonicInvalidView
  BY <1>7, AwayFromHome DEF SeedMnemonicInvalidView, At, ChooseWith, Go, GoStoring
<1>8. CASE SeedElectrumMnemonicStartView
  BY Zenon, <1>8, AwayFromHome DEF SeedElectrumMnemonicStartView, At, GoStoring
<1>9. CASE SeedFinalizeView
  BY <1>9, AwayFromHome DEF SeedFinalizeView, At, KeepSeed, GoStoring, Choose, Go
<1>10. CASE SeedAddPassphraseView
  BY Zenon, <1>10, AwayFromHome DEF SeedAddPassphraseView, At, GoStoring
<1>11. CASE SeedAddPassphraseExitDialogView
  BY Zenon, <1>11, AwayFromHome DEF SeedAddPassphraseExitDialogView, At, Choose, Go, GoStoring
<1>12. CASE SeedReviewPassphraseView
  BY <1>12, AwayFromHome DEF SeedReviewPassphraseView, At, KeepSeed, GoStoring, Choose, Go
<1>13. CASE SeedDiscardView
  BY <1>13, AwayFromHome DEF SeedDiscardView, At, Go, GoStoring
<1>14. CASE SeedOptionsView
  BY <1>14, AwayFromHome DEF SeedOptionsView, At, SeedOptionsMenu, Go, ChooseLeaving, GoWith,
    ChooseWith, ResumeFlow, Raise, RaiseError
<1> QED BY <1>1, <1>2, <1>3, <1>4, <1>5, <1>6, <1>7, <1>8, <1>9, <1>10, <1>11, <1>12, <1>13,
    <1>14 DEF SeedViews

\* Making a new seed.
LEMMA NewSeedViewsStep ==
  ASSUME IInv, NewSeedViews PROVE IInv'
<1>1. CASE ToolsMenuView
  BY <1>1, AwayFromHome DEF ToolsMenuView, At, Go, Choose
<1>2. CASE CollectEntropy
  BY <1>2, AwayFromHome DEF CollectEntropy, EntropyScreens, Go, Choose
<1>3. CASE GenerateSeed
  BY Zenon, <1>3, AwayFromHome DEF GenerateSeed, At, Go, GoStoring
<1>4. CASE ToolsCalcFinalWordNumWordsView
  BY Zenon, <1>4, AwayFromHome DEF ToolsCalcFinalWordNumWordsView, At, Go, GoStoring
<1>5. CASE ToolsCalcFinalWordFinalizePromptView
  BY Zenon, <1>5, AwayFromHome DEF ToolsCalcFinalWordFinalizePromptView, At, Go, Choose, GoStoring
<1>6. CASE ToolsCalcFinalWordCoinFlipsView
  BY Zenon, <1>6, AwayFromHome DEF ToolsCalcFinalWordCoinFlipsView, At, Go, ChooseWith
<1>7. CASE ToolsCalcFinalWordShowFinalWordView
  BY <1>7, AwayFromHome DEF ToolsCalcFinalWordShowFinalWordView, At, GoStoring, ChooseStoring
<1>8. CASE ToolsCalcFinalWordDoneView
  BY <1>8, AwayFromHome DEF ToolsCalcFinalWordDoneView, At, Go, ChooseStoring, GoStoring
<1> QED BY <1>1, <1>2, <1>3, <1>4, <1>5, <1>6, <1>7, <1>8 DEF NewSeedViews

\* The backup in words and its test.
LEMMA WordsViewsStep ==
  ASSUME IInv, WordsViews PROVE IInv'
<1>1. CASE SeedBackupView
  BY <1>1, AwayFromHome DEF SeedBackupView, At, Go, ChooseWith
<1>2. CASE SeedWordsWarningView
  BY <1>2, AwayFromHome DEF SeedWordsWarningView, At, Go, ChooseSkipping
<1>3. CASE SeedWordsView
  BY <1>3, AwayFromHome DEF SeedWordsView, At, Go, ChooseWith
<1>4. CASE BIP85Views
  BY <1>4, AwayFromHome DEF BIP85Views, At, Go, ChooseWith, ChooseSkipping
<1>5. CASE SeedWordsBackupTestPromptView
  BY <1>5, AwayFromHome DEF SeedWordsBackupTestPromptView, At, Go
<1>6. CASE SeedWordsBackupTestView
  BY <1>6, AwayFromHome DEF SeedWordsBackupTestView, At, ChooseWith, Go
<1>7. CASE SeedWordsBackupTestMistakeView
  BY <1>7, AwayFromHome DEF SeedWordsBackupTestMistakeView, At, ChooseWith, Go
<1>8. CASE SeedWordsBackupTestSuccessView
  BY <1>8, AwayFromHome DEF SeedWordsBackupTestSuccessView, At, Go
<1> QED BY <1>1, <1>2, <1>3, <1>4, <1>5, <1>6, <1>7, <1>8 DEF WordsViews

\* The SeedQR transcription.
LEMMA SeedQRViewsStep ==
  ASSUME IInv, SeedQRViews PROVE IInv'
<1>1. CASE SeedTranscribeSeedQRFormatView
  BY <1>1, AwayFromHome DEF SeedTranscribeSeedQRFormatView, At, Go, ChooseWith
<1>2. CASE SeedTranscribeSeedQRWarningView
  BY <1>2, AwayFromHome DEF SeedTranscribeSeedQRWarningView, At, Go, ChooseSkipping
<1>3. CASE SeedTranscribeSeedQRWholeQRView
  BY <1>3, AwayFromHome DEF SeedTranscribeSeedQRWholeQRView, At, Go, ChooseWith
<1>4. CASE SeedTranscribeSeedQRZoomedInView
  BY <1>4, AwayFromHome DEF SeedTranscribeSeedQRZoomedInView, At, Go
<1>5. CASE SeedTranscribeSeedQRConfirmQRPromptView
  BY <1>5, AwayFromHome DEF SeedTranscribeSeedQRConfirmQRPromptView, At, Go, ChooseWith
<1>6. CASE SeedTranscribeSeedQRConfirmScanView
  BY <1>6, AwayFromHome DEF SeedTranscribeSeedQRConfirmScanView, At, Go
<1>7. CASE SeedTranscribeSeedQRRejected
  BY <1>7, AwayFromHome DEF SeedTranscribeSeedQRRejected, At, Go
<1>8. CASE SeedTranscribeSeedQRConfirmSuccessView
  BY <1>8, AwayFromHome DEF SeedTranscribeSeedQRConfirmSuccessView, At, Go
<1> QED BY <1>1, <1>2, <1>3, <1>4, <1>5, <1>6, <1>7, <1>8 DEF SeedQRViews

\* Verifying an address.
LEMMA VerificationViewsStep ==
  ASSUME IInv, VerificationViews PROVE IInv'
<1>1. CASE ScanAddress
  BY <1>1, AwayFromHome, ScannerIsNotHome DEF ScanAddress, Go
<1>2. CASE AddressVerificationStartView
  BY <1>2, AwayFromHome DEF AddressVerificationStartView, At, GoWith
<1>3. CASE AddressVerificationSigTypeView
  BY <1>3, AwayFromHome DEF AddressVerificationSigTypeView, At, GoWith, Raise, RaiseError, Go
<1>4. CASE SeedAddressVerificationView
  BY <1>4, AwayFromHome DEF SeedAddressVerificationView, At, Raise, RaiseError, Go, Choose
<1>5. CASE SeedAddressVerificationSuccessView
  BY <1>5, AwayFromHome DEF SeedAddressVerificationSuccessView, At, Go
<1>6. CASE ScanDescriptor
  BY <1>6, AwayFromHome, ScannerIsNotHome DEF ScanDescriptor, GoWith
<1>7. CASE LoadMultisigWalletDescriptorView
  BY <1>7, AwayFromHome DEF LoadMultisigWalletDescriptorView, At, Choose, Go
<1>8. CASE MultisigWalletDescriptorView
  BY <1>8, AwayFromHome DEF MultisigWalletDescriptorView, At, GoWith, ReturnToFlow, Go
<1> QED BY <1>1, <1>2, <1>3, <1>4, <1>5, <1>6, <1>7, <1>8 DEF VerificationViews

\* Exporting an xpub and exploring addresses.
LEMMA ExplorerViewsStep ==
  ASSUME IInv, ExplorerViews PROVE IInv'
<1>1. CASE SeedExportXpubSigTypeView
  BY Zenon, <1>1, AwayFromHome DEF SeedExportXpubSigTypeView, At, Go, ChooseWith
<1>2. CASE SeedExportXpubScriptTypeView
  BY <1>2, AwayFromHome DEF SeedExportXpubScriptTypeView, At, Go, BackFromExplorer, GoWith,
    ChooseWith
<1>3. CASE SeedExportXpubCustomDerivationView
  BY <1>3, AwayFromHome DEF SeedExportXpubCustomDerivationView, At, Go
<1>4. CASE ExportXpub
  BY <1>4, AwayFromHome DEF ExportXpub, At, Go, ChooseWith, ChooseSkipping
<1>5. CASE ToolsAddressExplorerSelectSourceView
  BY Zenon, <1>5, AwayFromHome DEF ToolsAddressExplorerSelectSourceView, At, Go, GoWith, ChooseLeaving,
    LoadASeed
<1>6. CASE ToolsAddressExplorerAddressTypeView
  BY Zenon, <1>6, AwayFromHome DEF ToolsAddressExplorerAddressTypeView, At, GoWith
<1>7. CASE ToolsAddressExplorerAddressListView
  BY <1>7, AwayFromHome DEF ToolsAddressExplorerAddressListView, At, Raise, RaiseError, Go,
    ChooseWith, ChooseSkipping
<1>8. CASE ToolsAddressExplorerAddressView
  BY <1>8, AwayFromHome DEF ToolsAddressExplorerAddressView, At, Go
<1> QED BY <1>1, <1>2, <1>3, <1>4, <1>5, <1>6, <1>7, <1>8 DEF ExplorerViews

\* A transaction's review and signature.
LEMMA PsbtViewsStep ==
  ASSUME IInv, PsbtViews PROVE IInv'
<1>1. CASE ScanPsbt
  BY <1>1, AwayFromHome, ScannerIsNotHome DEF ScanPsbt, GoWith
<1>2. CASE PSBTSelectSeedView
  BY Zenon, <1>2, AwayFromHome DEF PSBTSelectSeedView, At, Raise, RaiseError, Go, ChooseLeaving,
    GoWith, LoadASeed
<1>3. CASE PSBTOverviewView
  BY <1>3, AwayFromHome DEF PSBTOverviewView, At, OverviewScreen, GoWith, ChooseLeaving, Raise,
    RaiseError, Go
<1>4. CASE PSBTRejected
  BY <1>4, AwayFromHome DEF PSBTRejected, At, Go
<1>5. CASE PSBTNoChangeWarningView
  BY <1>5, AwayFromHome DEF PSBTNoChangeWarningView, At, Go, ChooseSkipping
<1>6. CASE PSBTMathView
  BY <1>6, AwayFromHome DEF PSBTMathView, At, Go
<1>7. CASE PSBTAddressDetailsView
  BY <1>7, AwayFromHome DEF PSBTAddressDetailsView, At, Raise, RaiseError, Go, Show, ShowOnward
<1>8. CASE PSBTChangeDetailsView
  BY <1>8, AwayFromHome DEF PSBTChangeDetailsView, At, Go, Raise, RaiseError,
    PSBTChangeDetailsScreen, Show, ShowOnward
<1>9. CASE PSBTOpReturnView
  BY <1>9, AwayFromHome DEF PSBTOpReturnView, At, Raise, RaiseError, Go, Show, ShowOnward
<1>10. CASE PSBTFinalizeView
  BY <1>10, AwayFromHome DEF PSBTFinalizeView, At, Go, Choose, ChooseLeaving, GoWith
<1>11. CASE PSBTSignedQRDisplayView
  BY <1>11, AwayFromHome DEF PSBTSignedQRDisplayView, At, Go
<1>12. CASE PSBTSigningErrorView
  BY <1>12, AwayFromHome DEF PSBTSigningErrorView, At, Go, GoWith
<1> QED BY <1>1, <1>2, <1>3, <1>4, <1>5, <1>6, <1>7, <1>8, <1>9, <1>10, <1>11, <1>12 DEF
    PsbtViews

\* A message's review and signature.
LEMMA MessageViewsStep ==
  ASSUME IInv, MessageViews PROVE IInv'
<1>1. CASE ScanMessage
  BY <1>1, AwayFromHome, ScannerIsNotHome DEF ScanMessage, Go
<1>2. CASE SeedSignMessageStartView
  BY <1>2, AwayFromHome DEF SeedSignMessageStartView, At, GoWith
<1>3. CASE SeedSignMessageConfirmMessageView
  BY <1>3, AwayFromHome DEF SeedSignMessageConfirmMessageView, At, Raise, RaiseError, Go,
    ConfirmMessageScreen
<1>4. CASE SeedSignMessageConfirmAddressView
  BY <1>4, AwayFromHome DEF SeedSignMessageConfirmAddressView, At, Raise, RaiseError, Go
<1>5. CASE SeedSignMessageSignedMessageQRView
  BY <1>5, AwayFromHome DEF SeedSignMessageSignedMessageQRView, At, GoWith
<1> QED BY <1>1, <1>2, <1>3, <1>4, <1>5 DEF MessageViews

-----------------------------------------------------------------------------
(* The specification. *)

\* The invariant holds at start-up, and every step of the system preserves it.
LEMMA InitIInv == Init => IInv
  BY DEF Init, IInv, StackOK, TopOfStackIsRunning

LEMMA NextIInv == IInv /\ [Next]_vars => IInv'
<1> SUFFICES ASSUME IInv, [Next]_vars PROVE IInv'
  OBVIOUS
<1>1. CASE Views
  BY <1>1, SharedViewsStep, SeedViewsStep, NewSeedViewsStep, WordsViewsStep, SeedQRViewsStep,
     VerificationViewsStep, ExplorerViewsStep, PsbtViewsStep, MessageViewsStep DEF Views
<1>2. CASE UserWantsOut
  BY <1>2 DEF UserWantsOut, IInv, StackOK, TopOfStackIsRunning
<1>3. CASE UNCHANGED vars
  BY <1>3 DEF vars, IInv, StackOK, TopOfStackIsRunning
<1> QED BY <1>1, <1>2, <1>3 DEF Next

\* Controller.start's loop never loses track of what it is running: the top of
\* the back stack is the running View, Home's stack is empty, and so neither
\* the pop for skip_current_view, outside of the loop's try, nor the screensaver's
\* look at the top of the stack ever meets an empty one away from Home.  For any
\* seeds, words, transactions and messages, any errand of any depth.
THEOREM TopOfStack == Spec => []TopOfStackIsRunning
<1>1. IInv => TopOfStackIsRunning
  BY DEF IInv
<1> QED BY InitIInv, NextIInv, <1>1, PTL DEF Spec

-----------------------------------------------------------------------------
(* Seeds: a turn of the loop. *)

LEMMA SeedTurn ==
  ASSUME IInv, SeedInv, NEW d, NEW temps, NEW stored, NEW displayed,
         SeedStep(d, stored), Turn(d, temps, stored, displayed)
  PROVE  SeedInv'
<1>0. Len(backStack) \in Nat /\ (view # Home => Len(backStack) > 0 /\ backStack[Len(backStack)] = view)
  BY ViewIsOnTop
<1>1. d.skip => view.cls # "MainMenuView"
  BY DEF SeedStep
<1>2. CASE /\ view' = Home /\ backStack' = << >> /\ Target(d) = Home /\ storage' = stored
  <2>1. Len(<< >>) = 0
    OBVIOUS
  <2>2. EntriesOK' /\ StackedOK' /\ TypedOK'
    BY <1>2, <2>1 DEF EntriesOK, StackedOK, TypedOK, Places
  <2>3. NoPassphraseUnseen(stored, Home)
    BY <1>2 DEF SeedStep, Target
  <2> QED BY Zenon, <1>2, <2>2, <2>3 DEF SeedInv, SeedStep, NoPassphraseUnseen
<1>3. ASSUME NEW m, Landed(d, m), view' # Home, storage' = stored PROVE SeedInv'
  <2>1. /\ m \in 0..Len(backStack) /\ Len(backStack') = m + 1 /\ backStack'[m + 1] = view'
        /\ \A i \in 1..m : backStack'[i] = backStack[i]
    BY <1>3 DEF Landed
  <2>2. CASE GoesBack(d)
    <3>1. PICK k \in (m + 1)..(Len(backStack) - 1) : view' = backStack[k]
      BY <1>3, <2>2 DEF Landed
    <3>2. ~d.clear /\ ~IsFinishing(Entry(d))
      BY <2>2 DEF SeedStep, GoesBack, IsFinishing, PassphraseScreens, Entry
    <3>3. \A i \in Places' : \E j \in Places : backStack'[i] = backStack[j] /\ j < Len(backStack)
      BY <1>0, <2>1, <3>1 DEF Places
    <3>4. EntriesOK'
      BY <1>3, <3>2, <3>3 DEF EntriesOK, SeedInv, SeedStep
    <3>5. StackedOK'
      <4>1. SUFFICES ASSUME NEW j \in 1..(m + 1), NEW i \in 1..(j - 1)
                     PROVE  MayBeOn(backStack'[j], backStack'[i])
        BY <2>1 DEF StackedOK, Places
      <4>2. i \in 1..m /\ backStack'[i] = backStack[i]
        BY <2>1
      <4>3. \E l \in Places : backStack'[j] = backStack[l] /\ i < l
        BY <1>0, <2>1, <3>1 DEF Places
      <4> QED BY <2>1, <4>2, <4>3 DEF SeedInv, StackedOK, Places
    <3>6. TypedOK'
      BY <1>3, <2>2, <3>2, <3>3 DEF TypedOK, SeedStep
    <3>7. NoPassphraseUnseen(stored, view')
      BY <2>2 DEF SeedStep
    <3> QED BY Zenon, <1>3, <3>4, <3>5, <3>6, <3>7 DEF SeedInv, SeedStep, NoPassphraseUnseen
  <2>3. CASE ~GoesBack(d)
    <3>1. view' = Entry(d) /\ (d.clear => m = 0) /\ (d.skip => m < Len(backStack))
      BY <1>3, <2>3 DEF Landed
    <3>2. ArgsOK(Entry(d)) /\ (NeedsPending(Entry(d)) => stored.pendingSeed # None)
      BY <2>3 DEF SeedStep
    <3>3. EntriesOK'
      <4>1. SUFFICES ASSUME NEW i \in 1..(m + 1)
                     PROVE  /\ ArgsOK(backStack'[i])
                            /\ NeedsPending(backStack'[i]) => stored.pendingSeed # None
        BY <1>3, <2>1 DEF EntriesOK, Places
      <4>2. CASE i = m + 1
        BY <2>1, <3>1, <3>2, <4>2
      <4>3. CASE i # m + 1
        <5>1. i \in 1..m /\ i \in Places /\ backStack'[i] = backStack[i] /\ ~d.clear
          BY <2>1, <3>1, <4>3 DEF Places
        <5> QED BY <5>1 DEF SeedInv, EntriesOK, SeedStep
      <4> QED BY <4>2, <4>3
    <3>4. StackedOK'
      <4>1. SUFFICES ASSUME NEW j \in 1..(m + 1), NEW i \in 1..(j - 1)
                     PROVE  MayBeOn(backStack'[j], backStack'[i])
        BY <2>1 DEF StackedOK, Places
      <4>2. i \in 1..m /\ backStack'[i] = backStack[i] /\ ~d.clear
        BY <2>1, <3>1
      <4>3. CASE j = m + 1
        <5>1. backStack'[j] = Entry(d)
          BY <2>1, <3>1, <4>3
        <5>2. view = backStack[Len(backStack)]
          BY <1>0, <2>1, <4>2, ViewIsOnTop
        <5>3. i < Len(backStack) => MayBeOn(view, backStack[i])
          BY <1>0, <2>1, <4>2, <5>2 DEF SeedInv, StackedOK, Places
        <5>4. i = Len(backStack) => backStack[i] = view /\ ~d.skip
          BY <2>1, <3>1, <4>2, <5>2
        <5> QED BY <1>0, <2>1, <2>3, <4>2, <5>1, <5>3, <5>4 DEF SeedStep
      <4>4. CASE j # m + 1
        <5>1. j \in Places /\ backStack'[j] = backStack[j]
          BY <2>1, <4>4 DEF Places
        <5> QED BY <4>2, <5>1 DEF SeedInv, StackedOK
      <4> QED BY <4>3, <4>4
    <3>5. TypedOK'
      <4>1. SUFFICES ASSUME ~IsFinishing(Entry(d)), NEW i \in 1..(m + 1)
                     PROVE  Typed(backStack'[i], stored)
        BY <1>3, <2>1, <3>1 DEF TypedOK, Places
      <4>2. CASE i = m + 1
        BY <2>1, <2>3, <3>1, <4>1, <4>2 DEF SeedStep
      <4>3. CASE i # m + 1
        <5>1. i \in 1..m /\ i \in Places /\ backStack'[i] = backStack[i] /\ ~d.clear
          BY <2>1, <3>1, <4>3 DEF Places
        <5> QED BY <2>3, <4>1, <5>1 DEF SeedStep
      <4> QED BY <4>2, <4>3
    <3>6. NoPassphraseUnseen(stored, Entry(d))
      BY <2>3 DEF SeedStep
    <3> QED BY Zenon, <1>3, <3>1, <3>3, <3>4, <3>5, <3>6 DEF SeedInv, SeedStep, NoPassphraseUnseen
  <2> QED BY <2>2, <2>3
<1> QED BY <1>1, <1>2, <1>3, Landing

\* What is true of the stack is true of the View that runs.
LEMMA ViewIsOK ==
  ASSUME IInv, SeedInv
  PROVE  /\ ArgsOK(view) /\ (NeedsPending(view) => storage.pendingSeed # None)
         /\ ~IsFinishing(view) => Typed(view, storage)
<1>1. CASE view = Home
  BY <1>1 DEF Home, Entry, To, ArgsOK, NeedsPending, IsFinishing, Typed, ScreensOfASeed,
         WordScreens,
    PassphraseScreens, FinalWordScreens
<1>2. CASE view # Home
  <2>1. Len(backStack) \in Places /\ backStack[Len(backStack)] = view
    BY <1>2, ViewIsOnTop DEF Places
  <2> QED BY <2>1 DEF SeedInv, EntriesOK, TypedOK
<1> QED BY <1>1, <1>2

LEMMA QuietStep ==
  ASSUME IInv, SeedInv, NEW d, NEW temps, NEW displayed, Quiet(d), Turn(d, temps, storage, displayed)
  PROVE  SeedInv'
<1>1. \A i \in Places : Typed(backStack[i], storage)
  BY DEF Quiet, SeedInv, TypedOK
<1>2. ~(storage.pendingSeed # None /\ storage.pendingSeed.passphrase # "")
  BY Zenon DEF Quiet, SeedInv, NoPassphraseUnseen, IsFinishing
<1>3. \A x : MayBeOn(view, x) => x.cls \notin TypingScreens
  BY DEF Quiet, MayBeOn
<1>4. ~GoesBack(d) => /\ Typed(Entry(d), storage)
                      /\ MayBeOn(Entry(d), view)
                      /\ \A x : MayBeOn(view, x) => MayBeOn(Entry(d), x)
  BY <1>3 DEF Quiet, Leads, Typed, MayBeOn, TypingScreens, FinalWordScreens
<1>5. SeedStep(d, storage)
  BY Zenon, <1>1, <1>2, <1>4 DEF SeedStep, Quiet, Leads, NoPassphraseUnseen, SeedInv
<1> QED BY <1>5, SeedTurn

\* From one of them, or from a View of a seed in memory, to one of them.
LEMMA ElsewhereStep ==
  ASSUME IInv, SeedInv,
         view.cls \notin TypingScreens \union PassphraseScreens \union {"SeedFinalizeView", "SeedDiscardView"}
  PROVE  \A d, temps, displayed :
           /\ d.skip => view.cls # "MainMenuView"
           /\ (GoesBack(d) /\ ~d.clear) \/ (~GoesBack(d) /\ Elsewhere(d.cls))
           /\ Turn(d, temps, storage, displayed)
           => SeedInv'
<1> SUFFICES ASSUME NEW d, NEW temps, NEW displayed,
                    d.skip => view.cls # "MainMenuView",
                    (GoesBack(d) /\ ~d.clear) \/ (~GoesBack(d) /\ Elsewhere(d.cls)),
                    Turn(d, temps, storage, displayed)
             PROVE  SeedInv'
  OBVIOUS
<1>1. ~GoesBack(d) => Leads(Entry(d))
  BY DEF Leads, Entry, Elsewhere, ArgsOK, NeedsPending, IsFinishing, ScreensOfASeed,
         WordScreens,
     TypingScreens, FinalWordScreens, PassphraseScreens
<1>2. Quiet(d)
  BY <1>1 DEF Quiet, IsFinishing
<1> QED BY <1>2, QuietStep

LEMMA VerificationViewsKeepSeeds ==
  ASSUME IInv, SeedInv, VerificationViews PROVE SeedInv'
<1> USE DEF ScreensOfASeed, WordScreens, TypingScreens, FinalWordScreens, PassphraseScreens, Elsewhere
<1>1. CASE ScanAddress
  BY Zenon, <1>1, ElsewhereStep
     DEF ScanAddress, Scanned, Scanners, ScannerFor, Go, To, ToWith, Back, Skipping, Clearing,
         GoesBack
<1>2. CASE AddressVerificationStartView
  BY Zenon, <1>2, ElsewhereStep
     DEF AddressVerificationStartView, At, GoWith, VerifyWithDescriptor, VerifyWithSeed, To,
         ToWith, Back, Skipping, Clearing, GoesBack
<1>3. CASE AddressVerificationSigTypeView
  BY Zenon, <1>3, ElsewhereStep
     DEF AddressVerificationSigTypeView, At, GoWith, Raise, RaiseError, Go, VerifyWithSeed,
         VerifyWithDescriptor, To, ToWith, Back, Skipping, Clearing, GoesBack
<1>4. CASE SeedAddressVerificationView
  BY Zenon, <1>4, ElsewhereStep
     DEF SeedAddressVerificationView, At, Raise, RaiseError, Go, Choose, To, ToWith, Back,
         Skipping, Clearing, GoesBack
<1>5. CASE SeedAddressVerificationSuccessView
  BY <1>5, ElsewhereStep
     DEF SeedAddressVerificationSuccessView, At, Go, To, ToWith, Back, Skipping, Clearing,
         GoesBack
<1>6. CASE ScanDescriptor
  BY <1>6, ElsewhereStep
     DEF ScanDescriptor, Scanned, Scanners, ScannerFor, GoWith, To, ToWith, Back, Skipping,
         Clearing, GoesBack
<1>7. CASE LoadMultisigWalletDescriptorView
  BY <1>7, ElsewhereStep
     DEF LoadMultisigWalletDescriptorView, At, Choose, Go, To, ToWith, Back, Skipping,
         Clearing, GoesBack
<1>8. CASE MultisigWalletDescriptorView
  BY <1>8, ElsewhereStep
     DEF MultisigWalletDescriptorView, At, GoWith, ReturnToFlow, Go, To, ToWith, Back,
         Skipping, Clearing, GoesBack
<1> QED BY <1>1, <1>2, <1>3, <1>4, <1>5, <1>6, <1>7, <1>8 DEF VerificationViews

\* The same with a Destination that is about a seed.
LEMMA OfASeedStep ==
  ASSUME IInv, SeedInv,
         view.cls \notin TypingScreens \union PassphraseScreens \union {"SeedFinalizeView", "MainMenuView"},
         ~IsFinishing(view)
  PROVE  \A d, temps, displayed :
           /\ (GoesBack(d) /\ ~d.clear) \/ (~GoesBack(d) /\ Leads(Entry(d)))
           /\ Turn(d, temps, storage, displayed)
           => SeedInv'
  BY QuietStep DEF Quiet, IsFinishing

LEMMA MessageViewsKeepSeeds ==
  ASSUME IInv, SeedInv, MessageViews PROVE SeedInv'
<1> USE DEF ScreensOfASeed, WordScreens, TypingScreens, FinalWordScreens, PassphraseScreens, Elsewhere
<1>1. CASE ScanMessage
  BY <1>1, ElsewhereStep
     DEF ScanMessage, Scanned, Scanners, ScannerFor, Go, To, ToWith, Back, Skipping, Clearing,
         GoesBack
<1>2. CASE SeedSignMessageStartView
  BY <1>2, ElsewhereStep
     DEF SeedSignMessageStartView, At, GoWith, To, ToWith, Back, Skipping, Clearing, GoesBack
<1>3. CASE SeedSignMessageConfirmMessageView
  BY Zenon, <1>3, ElsewhereStep
     DEF SeedSignMessageConfirmMessageView, At, Raise, RaiseError, Go, ConfirmMessageScreen,
         To, ToWith, Back, Skipping, Clearing, GoesBack
<1>4. CASE SeedSignMessageConfirmAddressView
  BY Zenon, <1>4, ElsewhereStep
     DEF SeedSignMessageConfirmAddressView, At, Raise, RaiseError, Go, To, ToWith, Back,
         Skipping, Clearing, GoesBack
<1>5. CASE SeedSignMessageSignedMessageQRView
  BY <1>5, ElsewhereStep
     DEF SeedSignMessageSignedMessageQRView, At, GoWith, To, ToWith, Back, Skipping, Clearing,
         GoesBack
<1> QED BY <1>1, <1>2, <1>3, <1>4, <1>5 DEF MessageViews

LEMMA SeedQRViewsKeepSeeds ==
  ASSUME IInv, SeedInv, SeedQRViews PROVE SeedInv'
<1> USE DEF ScreensOfASeed, WordScreens, TypingScreens, FinalWordScreens, PassphraseScreens, Elsewhere
<1>0. ArgsOK(view) /\ (NeedsPending(view) => storage.pendingSeed # None) /\ None \notin Seeds
  BY ViewIsOK, NoneAssumption
<1>1. CASE SeedTranscribeSeedQRFormatView
  BY Zenon, <1>1, <1>0, OfASeedStep
     DEF SeedTranscribeSeedQRFormatView, At, Go, ChooseWith, OfSeed, To, ToWith, Back,
         Skipping, Clearing, GoesBack, IsFinishing, NeedsPending, Leads, ArgsOK, Entry
<1>2. CASE SeedTranscribeSeedQRWarningView
  BY Zenon, <1>2, <1>0, OfASeedStep
     DEF SeedTranscribeSeedQRWarningView, At, Go, ChooseSkipping, OfSeed, To, ToWith, Back,
         Skipping, Clearing, GoesBack, IsFinishing, NeedsPending, Leads, ArgsOK, Entry
<1>3. CASE SeedTranscribeSeedQRWholeQRView
  BY Zenon, <1>3, <1>0, OfASeedStep
     DEF SeedTranscribeSeedQRWholeQRView, At, Go, ChooseWith, OfSeed, To, ToWith, Back,
         Skipping, Clearing, GoesBack, IsFinishing, NeedsPending, Leads, ArgsOK, Entry
<1>4. CASE SeedTranscribeSeedQRZoomedInView
  BY Zenon, <1>4, <1>0, OfASeedStep
     DEF SeedTranscribeSeedQRZoomedInView, At, Go, OfSeed, To, ToWith, Back, Skipping,
         Clearing, GoesBack, IsFinishing, NeedsPending, Leads, ArgsOK, Entry
<1>5. CASE SeedTranscribeSeedQRConfirmQRPromptView
  BY Zenon, <1>5, <1>0, OfASeedStep
     DEF SeedTranscribeSeedQRConfirmQRPromptView, At, Go, ChooseWith, OfSeed, To, ToWith, Back,
         Skipping, Clearing, GoesBack, IsFinishing, NeedsPending, Leads, ArgsOK, Entry
<1>6. CASE SeedTranscribeSeedQRConfirmScanView
  BY Zenon, <1>6, <1>0, OfASeedStep
     DEF SeedTranscribeSeedQRConfirmScanView, At, Go, OfSeed, To, ToWith, Back, Skipping,
         Clearing, GoesBack, IsFinishing, NeedsPending, Leads, ArgsOK, Entry
<1>7. CASE SeedTranscribeSeedQRRejected
  BY <1>7, ElsewhereStep
     DEF SeedTranscribeSeedQRRejected, At, Go, To, ToWith, Back, Skipping, Clearing, GoesBack
<1>8. CASE SeedTranscribeSeedQRConfirmSuccessView
  BY Zenon, <1>8, <1>0, OfASeedStep
     DEF SeedTranscribeSeedQRConfirmSuccessView, At, Go, OfSeed, To, ToWith, Back, Skipping,
         Clearing, GoesBack, IsFinishing, NeedsPending, Leads, ArgsOK, Entry
<1> QED BY <1>1, <1>2, <1>3, <1>4, <1>5, <1>6, <1>7, <1>8 DEF SeedQRViews

LEMMA WordsViewsKeepSeeds ==
  ASSUME IInv, SeedInv, WordsViews PROVE SeedInv'
<1> USE DEF ScreensOfASeed, WordScreens, TypingScreens, FinalWordScreens, PassphraseScreens, Elsewhere
<1>0. ArgsOK(view) /\ (NeedsPending(view) => storage.pendingSeed # None) /\ None \notin Seeds
  BY ViewIsOK, NoneAssumption
<1>1. CASE SeedBackupView
  <2>1. CASE Go(Back)
    BY <1>1, <2>1, <1>0, ElsewhereStep
       DEF SeedBackupView, At, Go, To, ToWith, Back, Skipping, Clearing, GoesBack
  <2>2. CASE ChooseWith("SeedWordsWarningView", [seed |-> view.args.seed, bip85 |-> None])
    BY Zenon, <1>1, <2>2, <1>0, OfASeedStep
       DEF SeedBackupView, At, Go, ChooseWith, To, ToWith, Back, Skipping, Clearing, GoesBack,
           IsFinishing, NeedsPending, Leads, ArgsOK, Entry
  <2>3. CASE ChooseWith("SeedTranscribeSeedQRFormatView", view.args)
    BY Zenon, <1>1, <2>3, <1>0, OfASeedStep
       DEF SeedBackupView, At, Go, ChooseWith, To, ToWith, Back, Skipping, Clearing, GoesBack,
           IsFinishing, NeedsPending, Leads, ArgsOK, Entry
  <2> QED BY <1>1, <2>1, <2>2, <2>3 DEF SeedBackupView
<1>2. CASE SeedWordsWarningView
  BY Zenon, <1>2, <1>0, OfASeedStep
     DEF SeedWordsWarningView, At, Go, ChooseSkipping, Page, To, ToWith, Back, Skipping,
         Clearing, GoesBack, IsFinishing, NeedsPending, Leads, ArgsOK, Entry
<1>3. CASE SeedWordsView
  BY Zenon, <1>3, <1>0, OfASeedStep
     DEF SeedWordsView, At, Go, ChooseWith, Page, Source, To, ToWith, Back, Skipping, Clearing,
         GoesBack, IsFinishing, NeedsPending, Leads, ArgsOK, Entry
<1>4. CASE BIP85Views
  <2>1. CASE At("SeedBIP85SelectNumWordsView")
    <3>1. view.cls = "SeedBIP85SelectNumWordsView" /\ view.args.seed \in Seeds /\ ~IsFinishing(view)
      BY <2>1, <1>0 DEF At, ArgsOK, IsFinishing
    <3> QED BY Zenon, <1>4, <3>1, OfASeedStep
               DEF BIP85Views, At, Go, ChooseWith, ChooseSkipping, To, ToWith, Back, Skipping,
                   Clearing, GoesBack, IsFinishing, NeedsPending, Leads, ArgsOK, Entry
  <2>2. CASE At("SeedBIP85SelectChildIndexView")
    <3>1. /\ view.cls = "SeedBIP85SelectChildIndexView" /\ view.args.seed \in Seeds /\ ~IsFinishing(view)
          /\ None \notin Seeds
      BY <2>2, <1>0 DEF At, ArgsOK, IsFinishing
    <3> QED BY Zenon, <1>4, <3>1, OfASeedStep
               DEF BIP85Views, At, Go, ChooseWith, ChooseSkipping, To, ToWith, Back, Skipping,
                   Clearing, GoesBack, IsFinishing, NeedsPending, Leads, ArgsOK, Entry
  <2>3. CASE At("SeedBIP85InvalidChildIndexView")
    <3>1. view.cls = "SeedBIP85InvalidChildIndexView" /\ view.args.seed \in Seeds /\ ~IsFinishing(view)
      BY <2>3, <1>0 DEF At, ArgsOK, IsFinishing
    <3> QED BY Zenon, <1>4, <3>1, OfASeedStep
               DEF BIP85Views, At, Go, ChooseWith, ChooseSkipping, To, ToWith, Back, Skipping,
                   Clearing, GoesBack, IsFinishing, NeedsPending, Leads, ArgsOK, Entry
  <2> QED BY <1>4, <2>1, <2>2, <2>3 DEF BIP85Views
<1>5. CASE SeedWordsBackupTestPromptView
  BY Zenon, <1>5, <1>0, OfASeedStep
     DEF SeedWordsBackupTestPromptView, At, Go, BackupDone, TestOf, To, ToWith, Back, Skipping,
         Clearing, GoesBack, IsFinishing, NeedsPending, Leads, ArgsOK, Entry
<1>6. CASE SeedWordsBackupTestView
  BY Zenon, <1>6, <1>0, OfASeedStep
     DEF SeedWordsBackupTestView, At, ChooseWith, Go, TestOf, To, ToWith, Back, Skipping,
         Clearing, GoesBack, IsFinishing, NeedsPending, Leads, ArgsOK, Entry
<1>7. CASE SeedWordsBackupTestMistakeView
  BY Zenon, <1>7, <1>0, OfASeedStep
     DEF SeedWordsBackupTestMistakeView, At, ChooseWith, Go, TestOf, Page, To, ToWith, Back,
         Skipping, Clearing, GoesBack, IsFinishing, NeedsPending, Leads, ArgsOK, Entry
<1>8. CASE SeedWordsBackupTestSuccessView
  BY Zenon, <1>8, <1>0, OfASeedStep
     DEF SeedWordsBackupTestSuccessView, At, Go, BackupDone, To, ToWith, Back, Skipping,
         Clearing, GoesBack, IsFinishing, NeedsPending, Leads, ArgsOK, Entry
<1> QED BY <1>1, <1>2, <1>3, <1>4, <1>5, <1>6, <1>7, <1>8 DEF WordsViews

-----------------------------------------------------------------------------
(* The operations of SeedStorage. *)

\* A mnemonic, complete or not, as a sequence.
LEMMA MnemonicIsSeq ==
  ASSUME NEW X, NEW m \in [1..MnemonicLength -> X]
  PROVE  m \in Seq(X) /\ Len(m) = MnemonicLength /\ m # << >>
<1>1. MnemonicLength \in Nat /\ MnemonicLength > 1
  BY SeedAssumption
<1>2. m \in Seq(X)
  BY <1>1, IsASeq
<1>3. Len(m) = MnemonicLength
  BY <1>1, <1>2, LenProperties
<1>4. Len(<< >>) = 0
  OBVIOUS
<1> QED BY <1>1, <1>2, <1>3, <1>4

\* Before and while it is typed.
LEMMA PendingMnemonic ==
  ASSUME NEW st \in StorageType, st.pendingMnemonic # << >>
  PROVE  /\ st.pendingMnemonic \in [1..MnemonicLength -> Words \union {None}]
         /\ Len(st.pendingMnemonic) = MnemonicLength
<1>1. st.pendingMnemonic \in [1..MnemonicLength -> Words \union {None}]
  BY DEF StorageType
<1> QED BY Zenon, <1>1, MnemonicIsSeq

LEMMA InitStored ==
  ASSUME storage \in StorageType, NEW electrum \in BOOLEAN
  PROVE  LET st == InitPendingMnemonic(electrum) IN
         /\ st \in StorageType /\ st.seeds = storage.seeds /\ st.pendingSeed = storage.pendingSeed
         /\ st.isElectrum = electrum
  BY Zenon DEF StorageType, InitPendingMnemonic

LEMMA DiscardStored ==
  ASSUME storage \in StorageType
  PROVE  /\ DiscardPendingMnemonic \in StorageType
         /\ DiscardPendingMnemonic.seeds = storage.seeds
         /\ DiscardPendingMnemonic.pendingSeed = storage.pendingSeed
         /\ DiscardPendingMnemonic.pendingMnemonic = << >> /\ ~DiscardPendingMnemonic.isElectrum
  BY Zenon DEF StorageType, DiscardPendingMnemonic

LEMMA UpdateStored ==
  ASSUME storage \in StorageType, storage.pendingMnemonic # << >>,
         NEW word \in Words \union {None}, NEW index \in 0..(MnemonicLength - 1)
  PROVE  LET st == UpdatePendingMnemonic(word, index) IN
         /\ st \in StorageType /\ st.seeds = storage.seeds /\ st.pendingSeed = storage.pendingSeed
         /\ st.isElectrum = storage.isElectrum
         /\ st.pendingMnemonic # << >> /\ Len(st.pendingMnemonic) = MnemonicLength
         /\ st.pendingMnemonic[index + 1] = word
         /\ \A i \in 1..MnemonicLength :
              i # index + 1 => st.pendingMnemonic[i] = storage.pendingMnemonic[i]
<1> DEFINE m == storage.pendingMnemonic
           n == [m EXCEPT ![index + 1] = word]
<1>1. m \in [1..MnemonicLength -> Words \union {None}] /\ MnemonicLength \in Nat
  BY PendingMnemonic, SeedAssumption
<1>2. /\ n \in [1..MnemonicLength -> Words \union {None}] /\ n[index + 1] = word
      /\ \A i \in 1..MnemonicLength : i # index + 1 => n[i] = m[i]
  BY <1>1
<1>3. n # << >> /\ Len(n) = MnemonicLength
  BY Zenon, <1>2, MnemonicIsSeq
<1>4. UpdatePendingMnemonic(word, index) = [storage EXCEPT !.pendingMnemonic = n]
  BY DEF UpdatePendingMnemonic, StorageType
<1> HIDE DEF n
<1> QED BY Zenon, <1>2, <1>3, <1>4 DEF StorageType

\* A seed made of a valid mnemonic.
LEMMA NewSeed ==
  ASSUME NEW m, NEW electrum \in BOOLEAN, m \in IF electrum THEN ElectrumMnemonics ELSE Mnemonics
  PROVE  SeedOf(m, electrum) \in ValidSeeds /\ SeedOf(m, electrum) # None
         /\ SeedOf(m, electrum).passphrase = ""
<1>1. SeedOf(m, electrum) \in Seeds
  BY DEF SeedOf, Seeds
<1> QED BY Zenon, <1>1, NoneAssumption DEF SeedOf, ValidSeeds

LEMMA PendingStored ==
  ASSUME storage \in StorageType, NEW seed \in ValidSeeds \union {None}
  PROVE  /\ WithPending(seed) \in StorageType /\ WithPending(seed).seeds = storage.seeds
         /\ WithPending(seed).pendingSeed = seed
         /\ WithPending(seed).pendingMnemonic = storage.pendingMnemonic
         /\ WithPending(seed).isElectrum = storage.isElectrum
  BY DEF StorageType, WithPending

LEMMA PassphraseStored ==
  ASSUME storage \in StorageType, storage.pendingSeed # None, NEW p \in Passphrases \union {""}
  PROVE  /\ WithPassphrase(p) \in StorageType /\ WithPassphrase(p).seeds = storage.seeds
         /\ WithPassphrase(p).pendingSeed # None
         /\ WithPassphrase(p).pendingSeed.passphrase = p
<1> DEFINE s == [storage.pendingSeed EXCEPT !.passphrase = p]
<1>1. storage.pendingSeed \in ValidSeeds
  BY Zenon DEF StorageType
<1>2. s \in ValidSeeds /\ s.passphrase = p
  BY Zenon, <1>1 DEF ValidSeeds, Seeds
<1>3. s # None
  BY Zenon, <1>2, NoneAssumption DEF ValidSeeds
<1>4. WithPassphrase(p) = [storage EXCEPT !.pendingSeed = s]
  BY Zenon DEF WithPassphrase, StorageType
<1> HIDE DEF s
<1> QED BY Zenon, <1>2, <1>3, <1>4 DEF StorageType

LEMMA FinalizeStored ==
  ASSUME storage \in StorageType, storage.pendingSeed # None
  PROVE  /\ FinalizePendingSeed \in StorageType /\ FinalizePendingSeed.pendingSeed = None
         /\ FinalizePendingSeed.seeds = storage.seeds \union {storage.pendingSeed}
         /\ storage.pendingSeed \in Seeds
  BY Zenon DEF StorageType, FinalizePendingSeed, ValidSeeds

LEMMA DiscardSeedStored ==
  ASSUME storage \in StorageType, NEW seed
  PROVE  /\ DiscardSeed(seed) \in StorageType /\ DiscardSeed(seed).pendingSeed = storage.pendingSeed
         /\ DiscardSeed(seed).seeds \subseteq storage.seeds
  BY DEF StorageType, DiscardSeed

LEMMA ConvertStored ==
  ASSUME NEW st \in StorageType, IsValid(st)
  PROVE  LET conv == ConvertPendingMnemonic(st) IN
         /\ conv \in StorageType /\ conv.seeds = st.seeds
         /\ conv.pendingSeed # None /\ conv.pendingSeed.passphrase = ""
<1>1. st.isElectrum \in BOOLEAN
  BY DEF StorageType
<1> DEFINE seed == SeedOf(st.pendingMnemonic, st.isElectrum)
<1>2. seed \in ValidSeeds /\ seed # None /\ seed.passphrase = ""
  BY Zenon, <1>1, NewSeed DEF IsValid
<1> HIDE DEF seed
<1>3. ConvertPendingMnemonic(st)
        = [st EXCEPT !.pendingSeed = seed, !.pendingMnemonic = << >>, !.isElectrum = FALSE]
  BY DEF ConvertPendingMnemonic, seed
<1> QED BY Zenon, <1>2, <1>3 DEF StorageType

\* calculate_checksum makes a valid mnemonic of any words.
LEMMA ChecksumIsValid ==
  ASSUME NEW m \in [1..MnemonicLength -> Words \union {None}],
         \A i \in 1..(MnemonicLength - 1) : m[i] \in Words
  PROVE  WithChecksum(m) \in Mnemonics
<1>1. MnemonicLength \in Nat /\ MnemonicLength > 1
  BY SeedAssumption
<1>2. m \in Seq(Words \union {None}) /\ Len(m) = MnemonicLength
  BY MnemonicIsSeq
<1>3. Front(m) = [i \in 1..(MnemonicLength - 1) |-> m[i]]
  BY <1>1, <1>2 DEF Front
<1>4. Front(m) \in [1..(MnemonicLength - 1) -> Words]
  BY <1>1, <1>3
<1>5. \E v \in Mnemonics : Front(v) = Front(m)
  BY <1>4, ChecksumAssumption
<1> QED BY <1>5 DEF WithChecksum

\* A mnemonic is made of words.
LEMMA MnemonicsAreWords ==
  ASSUME NEW m \in Mnemonics \union ElectrumMnemonics
  PROVE  /\ m \in [1..MnemonicLength -> Words \union {None}] /\ m # << >>
         /\ \A i \in 1..MnemonicLength : m[i] \in Words
<1>1. m \in [1..MnemonicLength -> Words]
  BY SeedAssumption
<1> QED BY <1>1, MnemonicIsSeq

-----------------------------------------------------------------------------
(* A mnemonic is typed. *)

\* Below a View where nothing is typed, nothing is.
LEMMA NothingIsTyped ==
  ASSUME IInv, SeedInv, view.cls \notin TypingScreens, ~IsFinishing(view)
  PROVE  /\ \A i \in Places : backStack[i].cls \notin TypingScreens
         /\ \A x : MayBeOn(view, x) => x.cls \notin TypingScreens
         /\ \A i \in Places : \A st : Typed(backStack[i], st)
<1>1. \A x : MayBeOn(view, x) => x.cls \notin TypingScreens
  BY DEF MayBeOn
<1>2. \A i \in Places : backStack[i].cls \notin TypingScreens
  <2>1. SUFFICES ASSUME NEW i \in Places PROVE backStack[i].cls \notin TypingScreens
    OBVIOUS
  <2>2. Len(backStack) \in Nat /\ Len(backStack) > 0 /\ backStack[Len(backStack)] = view
    BY <2>1, ViewIsOnTop DEF Places
  <2>3. i # Len(backStack) => MayBeOn(view, backStack[i])
    BY <2>1, <2>2 DEF SeedInv, StackedOK, Places
  <2> QED BY <1>1, <2>2, <2>3
<1> QED BY <1>1, <1>2 DEF Typed, TypingScreens, FinalWordScreens

\* Nobody has a passphrase that is not on its screens.
LEMMA NoPassphrase ==
  ASSUME SeedInv, view.cls \notin PassphraseScreens,
         NEW st, st.pendingSeed = storage.pendingSeed
  PROVE  \A e : NoPassphraseUnseen(st, e)
  BY Zenon DEF SeedInv, NoPassphraseUnseen

\* The first word of a new mnemonic.
LEMMA StartsTyping ==
  ASSUME IInv, SeedInv, view.cls \notin TypingScreens \union {"MainMenuView"}, ~IsFinishing(view),
         NEW electrum \in BOOLEAN, NEW temps,
         NEW args, args = None \/ (~electrum /\ args = [index |-> 0, calc |-> TRUE]),
         NEW d, d.cls = "SeedMnemonicEntryView", d.args = args, ~d.skip, ~d.clear,
         Turn(d, temps, InitPendingMnemonic(electrum), {})
  PROVE  SeedInv'
<1> DEFINE st == InitPendingMnemonic(electrum)
           e == Entry(d)
<1>1. /\ st \in StorageType /\ st.pendingSeed = storage.pendingSeed /\ st.isElectrum = electrum
  BY InitStored DEF SeedInv
<1>2. /\ e.cls = "SeedMnemonicEntryView" /\ e.args = args
      /\ ~d.skip /\ ~d.clear /\ ~GoesBack(d)
  BY DEF Entry, GoesBack
<1>3. /\ IndexOf(e) = 0 /\ (CalcOf(e) => ~electrum)
      /\ args = None \/ args \in [index : 0..(MnemonicLength - 1), calc : BOOLEAN]
  <2>1. 0 \in 0..(MnemonicLength - 1)
    BY SeedAssumption
  <2>2. CASE args = None
    BY <1>2, <2>2 DEF IndexOf, CalcOf
  <2>3. CASE ~electrum /\ args = [index |-> 0, calc |-> TRUE]
    BY <1>2, <2>1, <2>3 DEF IndexOf, CalcOf
  <2> QED BY <2>2, <2>3
<1>4. /\ \A x : MayBeOn(view, x) => MayBeOn(e, x)
      /\ MayBeOn(e, view)
  BY <1>2, NothingIsTyped DEF MayBeOn, TypingScreens, FinalWordScreens
<1>5. ~IsFinishing(e) /\ ~NeedsPending(e) /\ ArgsOK(e) /\ Typed(e, st)
  BY <1>1, <1>2, <1>3
  DEF IsFinishing, NeedsPending, PassphraseScreens, WordScreens, ArgsOK, ScreensOfASeed, Typed,
      FinalWordScreens
<1>6. NoPassphraseUnseen(st, e)
  BY <1>1, NoPassphrase DEF IsFinishing
<1> HIDE DEF st, e
<1>7. SeedStep(d, st)
  BY <1>1, <1>2, <1>4, <1>5, <1>6, NothingIsTyped DEF SeedStep, SeedInv, e
<1> QED BY <1>7, SeedTurn DEF st

\* The rows that the four screens asking for a seed have in common.
LEMMA LoadASeedKeeps ==
  ASSUME IInv, SeedInv, view.cls \notin TypingScreens \union {"MainMenuView"}, ~IsFinishing(view),
         view.cls # "SeedDiscardView", NEW scanner, Elsewhere(scanner), scanner # "BackStackView", NEW temps,
         LoadASeed(scanner, temps)
  PROVE  SeedInv'
<1>1. CASE ChooseLeaving(scanner, temps)
  BY <1>1, ElsewhereStep DEF ChooseLeaving, GoWith, To, GoesBack, IsFinishing
<1>2. CASE Turn(To("SeedMnemonicEntryView"), temps, InitPendingMnemonic(FALSE), {})
  <2> DEFINE d == To("SeedMnemonicEntryView")
  <2>1. d.cls = "SeedMnemonicEntryView" /\ d.args = None /\ ~d.skip /\ ~d.clear
    BY DEF To
  <2> HIDE DEF d
  <2> QED BY Zenon, <1>2, <2>1, StartsTyping DEF d
<1>3. CASE ChooseLeaving("SeedElectrumMnemonicStartView", temps)
  BY <1>3, ElsewhereStep
  DEF ChooseLeaving, GoWith, To, GoesBack, IsFinishing, Elsewhere, ScreensOfASeed, WordScreens,
      TypingScreens, FinalWordScreens, PassphraseScreens
<1> QED BY Zenon, <1>1, <1>2, <1>3 DEF LoadASeed

\* What stays typed when a word is added or changed that nothing depends on.
LEMMA TypedKept ==
  ASSUME NEW x, ArgsOK(x), x.cls # "ToolsCalcFinalWordDoneView", Typed(x, storage), NEW st,
         st.isElectrum = storage.isElectrum, storage.pendingMnemonic # << >>, st.pendingMnemonic # << >>,
         \A i \in 1..(MnemonicLength - 1) :
           storage.pendingMnemonic[i] \in Words => st.pendingMnemonic[i] \in Words
  PROVE  Typed(x, st)
<1>1. x.cls = "SeedMnemonicEntryView" => IndexOf(x) \in 0..(MnemonicLength - 1)
  BY SeedAssumption DEF ArgsOK, IndexOf
<1>2. x.cls = "SeedMnemonicEntryView" => \A i \in 1..IndexOf(x) : i \in 1..(MnemonicLength - 1)
  BY <1>1, SeedAssumption
<1> QED BY <1>2 DEF Typed, FinalWordScreens

\* From one of the typing Views to another, with what was typed.
LEMMA TypingStep ==
  ASSUME IInv, SeedInv, view.cls \in TypingScreens, NEW d, ~GoesBack(d), ~d.clear, ~d.skip, NEW st,
         st \in StorageType, st.pendingSeed = storage.pendingSeed, st.isElectrum = storage.isElectrum,
         storage.pendingMnemonic # << >>, st.pendingMnemonic # << >>,
         \A i \in 1..(MnemonicLength - 1) :
           storage.pendingMnemonic[i] \in Words => st.pendingMnemonic[i] \in Words,
         view.cls # "ToolsCalcFinalWordDoneView",
         d.cls \in TypingScreens, ArgsOK(Entry(d)), Typed(Entry(d), st),
         view.cls \in FinalWordScreens \/ (CalcOf(view) /\ IndexOf(view) = MnemonicLength - 1) =>
           \/ d.cls \in FinalWordScreens
           \/ /\ d.cls = "SeedMnemonicEntryView"
              /\ CalcOf(Entry(d)) /\ IndexOf(Entry(d)) = MnemonicLength - 1,
         Go(d) \/ GoStoring(d, st), Go(d) => st = storage
  PROVE  SeedInv'
<1>1. Turn(d, controller, st, {})
  BY DEF Go, GoStoring
<1>2. ~IsFinishing(view) /\ view.cls \notin PassphraseScreens /\ Entry(d).cls = d.cls
  BY DEF IsFinishing, TypingScreens, FinalWordScreens, PassphraseScreens, Entry
<1>3. \A i \in Places : backStack[i].cls # "ToolsCalcFinalWordDoneView"
  <2>1. SUFFICES ASSUME NEW i \in Places PROVE backStack[i].cls # "ToolsCalcFinalWordDoneView"
    OBVIOUS
  <2>2. Len(backStack) \in Nat /\ Len(backStack) > 0 /\ backStack[Len(backStack)] = view
    BY <2>1, ViewIsOnTop DEF Places
  <2>3. i # Len(backStack) => MayBeOn(view, backStack[i])
    BY <2>1, <2>2 DEF SeedInv, StackedOK, Places
  <2> QED BY <1>2, <2>2, <2>3 DEF MayBeOn
<1>4. \A i \in Places : Typed(backStack[i], st)
  BY <1>2, <1>3, TypedKept DEF SeedInv, EntriesOK, TypedOK
<1>5. ~NeedsPending(Entry(d))
  BY <1>2 DEF NeedsPending, IsFinishing, TypingScreens, FinalWordScreens, PassphraseScreens,
         WordScreens
<1>6. MayBeOn(Entry(d), view) /\ \A x : MayBeOn(view, x) => MayBeOn(Entry(d), x)
  BY <1>2 DEF MayBeOn
<1>7. \A e : NoPassphraseUnseen(st, e)
  BY <1>2, NoPassphrase
<1>8. SeedStep(d, st)
  BY <1>4, <1>5, <1>6, <1>7 DEF SeedStep
<1> QED BY <1>1, <1>8, SeedTurn

\* BACK to a View below, whose words are still there.
LEMMA TypingGoesBack ==
  ASSUME IInv, SeedInv, view.cls \in TypingScreens, NEW st,
         st \in StorageType, st.pendingSeed = storage.pendingSeed,
         \A x : ArgsOK(x) /\ MayBeOn(view, x) /\ Typed(x, storage) => Typed(x, st),
         GoStoring(Back, st)
  PROVE  SeedInv'
<1>1. ~IsFinishing(view) /\ view.cls \notin PassphraseScreens
  BY DEF IsFinishing, TypingScreens, FinalWordScreens, PassphraseScreens
<1>2. \A i \in Places : i < Len(backStack) => Typed(backStack[i], st)
  <2>1. SUFFICES ASSUME NEW i \in Places, i < Len(backStack) PROVE Typed(backStack[i], st)
    OBVIOUS
  <2>2. Len(backStack) \in Nat /\ Len(backStack) > 0 /\ backStack[Len(backStack)] = view
    BY <2>1, ViewIsOnTop DEF Places
  <2>3. MayBeOn(view, backStack[i])
    BY <2>1, <2>2 DEF SeedInv, StackedOK, Places
  <2> QED BY <1>1, <2>1, <2>3 DEF SeedInv, EntriesOK, TypedOK
<1>3. \A e : NoPassphraseUnseen(st, e)
  BY <1>1, NoPassphrase
<1>4. GoesBack(Back) /\ ~Back.skip /\ ~Back.clear
  BY DEF GoesBack, Back, To
<1>5. SeedStep(Back, st)
  BY <1>2, <1>3, <1>4 DEF SeedStep
<1> QED BY <1>5, SeedTurn DEF GoStoring

\* From anywhere to a place that clears the history and has nothing to do with seeds
\* being loaded, or Home.
LEMMA LeavesTyping ==
  ASSUME IInv, SeedInv, view.cls # "MainMenuView", NEW d, NEW st, Elsewhere(d.cls), ~GoesBack(d),
         d.clear \/ Entry(d) = Home, ~d.skip,
         st \in StorageType, st.pendingSeed = None \/ st.pendingSeed = storage.pendingSeed,
         view.cls \notin PassphraseScreens \/ st.pendingSeed = None,
         NEW temps, NEW displayed, Turn(d, temps, st, displayed)
  PROVE  SeedInv'
<1>1. \A e : NoPassphraseUnseen(st, e)
  BY Zenon, NoPassphrase DEF NoPassphraseUnseen
<1>2. /\ Entry(d).cls = d.cls
      /\ ArgsOK(Entry(d)) /\ ~NeedsPending(Entry(d)) /\ Typed(Entry(d), st)
  BY DEF Entry, Elsewhere, ArgsOK, NeedsPending, IsFinishing, Typed, ScreensOfASeed,
         WordScreens,
     TypingScreens, FinalWordScreens, PassphraseScreens
<1>3. CASE d.clear
  <2>1. SeedStep(d, st)
    BY <1>1, <1>2, <1>3 DEF SeedStep
  <2> QED BY <2>1, SeedTurn
<1>4. CASE Entry(d) = Home
  <2>1. /\ view' = Home /\ backStack' = << >> /\ storage' = st
    BY <1>4 DEF Turn, Target
  <2>2. Len(<< >>) = 0
    OBVIOUS
  <2>3. EntriesOK' /\ StackedOK' /\ TypedOK'
    BY <2>1, <2>2 DEF EntriesOK, StackedOK, TypedOK, Places
  <2>4. NoPassphraseUnseen(st, Home)
    BY <1>1
  <2>5. NoPassphraseUnseen(storage, view)'
    BY Zenon, <2>1, <2>4 DEF NoPassphraseUnseen
  <2> QED BY <2>1, <2>3, <2>5 DEF SeedInv
<1> QED BY <1>3, <1>4

\* A View that raises.
LEMMA RaisesFromTyping ==
  ASSUME IInv, SeedInv, view.cls \in TypingScreens, Raise PROVE SeedInv'
<1> DEFINE d == Clearing(ToWith("UnhandledExceptionView", [error |-> "exception"]))
<1>1. /\ d.cls = "UnhandledExceptionView" /\ ~d.skip /\ d.clear /\ ~GoesBack(d)
  BY DEF Clearing, ToWith, To, GoesBack
<1>2. Turn(d, controller, storage, {})
  BY DEF Raise, RaiseError, Go
<1>3. Elsewhere("UnhandledExceptionView")
  BY DEF Elsewhere, ScreensOfASeed, WordScreens, TypingScreens, FinalWordScreens,
         PassphraseScreens
<1>4. view.cls # "MainMenuView" /\ view.cls \notin PassphraseScreens
  BY DEF TypingScreens, FinalWordScreens, PassphraseScreens
<1> HIDE DEF d
<1> QED BY <1>1, <1>2, <1>3, <1>4, LeavesTyping DEF SeedInv

\* A seed is pending, and about to be finalized or discarded.
LEMMA BecomesPending ==
  ASSUME IInv, SeedInv, view.cls # "MainMenuView", NEW d, NEW st, NEW temps, NEW displayed,
         ~GoesBack(d), ~d.clear,
         d.cls \in PassphraseScreens \union {"SeedFinalizeView", "SeedDiscardView"}, d.args = None,
         st \in StorageType, st.pendingSeed # None, NoPassphraseUnseen(st, Entry(d)),
         Turn(d, temps, st, displayed)
  PROVE  SeedInv'
<1>1. /\ Entry(d).cls = d.cls /\ Entry(d).args = None /\ IsFinishing(Entry(d)) /\ ArgsOK(Entry(d))
  BY DEF Entry, IsFinishing, ArgsOK, PassphraseScreens, ScreensOfASeed, WordScreens
<1>2. \A x : MayBeOn(Entry(d), x)
  BY <1>1 DEF MayBeOn
<1>3. SeedStep(d, st)
  BY <1>1, <1>2 DEF SeedStep
<1> QED BY <1>3, SeedTurn

-----------------------------------------------------------------------------
(* The Views that type. *)

\* After the word.
LEMMA NextAfterWordKeeps ==
  ASSUME IInv, SeedInv, view.cls = "SeedMnemonicEntryView", storage.pendingMnemonic # << >>,
         NEW word \in Words, NextAfterWord(UpdatePendingMnemonic(word, WordIndex))
  PROVE  SeedInv'
<1> DEFINE k  == IndexOf(view)
           st == UpdatePendingMnemonic(word, k)
<1>1. /\ WordIndex = k /\ IsCalcFinal = CalcOf(view) /\ IsCalcFinal \in BOOLEAN
      /\ k \in 0..(MnemonicLength - 1) /\ MnemonicLength \in Nat /\ MnemonicLength > 1
  <2>1. ArgsOK(view)
    BY ViewIsOK
  <2> QED BY <2>1, SeedAssumption DEF ArgsOK, WordIndex, IsCalcFinal, IndexOf, CalcOf
<1>2. ~IsFinishing(view) /\ view.cls \in TypingScreens /\ Typed(view, storage)
  BY ViewIsOK DEF IsFinishing, PassphraseScreens, TypingScreens
<1>3. /\ st \in StorageType /\ st.pendingSeed = storage.pendingSeed /\ st.isElectrum = storage.isElectrum
      /\ st.pendingMnemonic # << >> /\ Len(st.pendingMnemonic) = MnemonicLength
      /\ st.pendingMnemonic[k + 1] = word
      /\ \A i \in 1..MnemonicLength : i # k + 1 => st.pendingMnemonic[i] = storage.pendingMnemonic[i]
  BY <1>1, UpdateStored DEF SeedInv
<1>4. /\ \A i \in 1..(k + 1) : st.pendingMnemonic[i] \in Words
      /\ \A i \in 1..(MnemonicLength - 1) :
           storage.pendingMnemonic[i] \in Words => st.pendingMnemonic[i] \in Words
  <2>1. \A i \in 1..k : storage.pendingMnemonic[i] \in Words
    BY <1>2 DEF Typed
  <2> HIDE DEF st, k
  <2>2. \A i \in 1..(k + 1) : i \in 1..MnemonicLength /\ (i = k + 1 \/ (i \in 1..k /\ i # k + 1))
    BY <1>1
  <2>3. \A i \in 1..(k + 1) : st.pendingMnemonic[i] \in Words
    BY <1>3, <2>1, <2>2
  <2>4. ASSUME NEW i \in 1..(MnemonicLength - 1), storage.pendingMnemonic[i] \in Words
        PROVE  st.pendingMnemonic[i] \in Words
    <3>1. i \in 1..MnemonicLength
      BY <1>1
    <3> QED BY <1>3, <2>4, <3>1
  <2> QED BY <2>3, <2>4
<1>5. CalcOf(view) => ~st.isElectrum
  BY <1>2, <1>3 DEF Typed
<1> DEFINE next == [index |-> k + 1, calc |-> CalcOf(view)]
           last == MnemonicLength - 1
<1>6. \/ CalcOf(view) /\ k = last - 1 /\ GoStoring(To("ToolsCalcFinalWordFinalizePromptView"), st)
      \/ CalcOf(view) /\ k = last /\ GoStoring(To("ToolsCalcFinalWordShowFinalWordView"), st)
      \/ ~(CalcOf(view) /\ k = last) /\ k < last /\ GoStoring(ToWith("SeedMnemonicEntryView", next), st)
      \/ IsValid(st) /\ GoStoring(To("SeedFinalizeView"), ConvertPendingMnemonic(st))
      \/ ~(CalcOf(view) /\ k = last) /\ GoStoring(To("SeedMnemonicInvalidView"), st)
  BY <1>1, <1>3 DEF NextAfterWord
<1> HIDE DEF st, k, next
<1>7. CASE CalcOf(view) /\ k = last - 1 /\ GoStoring(To("ToolsCalcFinalWordFinalizePromptView"), st)
  <2> DEFINE d == To("ToolsCalcFinalWordFinalizePromptView")
  <2>1. /\ d.cls = "ToolsCalcFinalWordFinalizePromptView" /\ Entry(d).cls = d.cls
        /\ ~GoesBack(d) /\ ~d.clear /\ ~d.skip
    BY DEF To, Entry, GoesBack
  <2>2. ArgsOK(Entry(d)) /\ d.cls \in FinalWordScreens /\ d.cls \in TypingScreens
    BY <2>1 DEF ArgsOK, TypingScreens, FinalWordScreens, ScreensOfASeed, WordScreens
  <2>3. Typed(Entry(d), st)
    BY <1>1, <1>3, <1>4, <1>5, <1>7, <2>1 DEF Typed, FinalWordScreens
  <2> HIDE DEF d
  <2>4. GoStoring(d, st)
    BY <1>7 DEF d
  <2>5. ~Go(d) \/ st = storage
    BY <2>4, <1>3 DEF Go, GoStoring, Turn
  <2> QED BY <1>2, <1>3, <1>4, <2>1, <2>2, <2>3, <2>4, <2>5, TypingStep
<1>8. CASE CalcOf(view) /\ k = last /\ GoStoring(To("ToolsCalcFinalWordShowFinalWordView"), st)
  <2> DEFINE d == To("ToolsCalcFinalWordShowFinalWordView")
  <2>1. /\ d.cls = "ToolsCalcFinalWordShowFinalWordView" /\ Entry(d).cls = d.cls /\ Entry(d).args = None
        /\ ~GoesBack(d) /\ ~d.clear /\ ~d.skip
    BY DEF To, Entry, GoesBack
  <2>2. ArgsOK(Entry(d)) /\ d.cls \in FinalWordScreens /\ d.cls \in TypingScreens
    BY <2>1 DEF ArgsOK, TypingScreens, FinalWordScreens, ScreensOfASeed, WordScreens
  <2>3. Typed(Entry(d), st)
    BY <1>1, <1>3, <1>4, <1>5, <1>8, <2>1 DEF Typed, FinalWordScreens
  <2> HIDE DEF d
  <2>4. GoStoring(d, st)
    BY <1>8 DEF d
  <2>5. ~Go(d) \/ st = storage
    BY <2>4, <1>3 DEF Go, GoStoring, Turn
  <2> QED BY <1>2, <1>3, <1>4, <2>1, <2>2, <2>3, <2>4, <2>5, TypingStep
<1>9. CASE ~(CalcOf(view) /\ k = last) /\ k < last /\ GoStoring(ToWith("SeedMnemonicEntryView", next), st)
  <2> DEFINE d == ToWith("SeedMnemonicEntryView", next)
  <2>1. /\ d.cls = "SeedMnemonicEntryView" /\ Entry(d).cls = d.cls /\ Entry(d).args = next
        /\ ~GoesBack(d) /\ ~d.clear /\ ~d.skip
    BY DEF To, ToWith, Entry, GoesBack
  <2>2. next \in [index : 0..(MnemonicLength - 1), calc : BOOLEAN] /\ next.index = k + 1
        /\ next.calc = CalcOf(view)
    BY <1>1, <1>9 DEF next
  <2>3. ArgsOK(Entry(d)) /\ d.cls \in TypingScreens
    BY <2>1, <2>2 DEF ArgsOK, TypingScreens, FinalWordScreens, ScreensOfASeed, WordScreens
  <2>4. (CalcOf(Entry(d)) => CalcOf(view)) /\ IndexOf(Entry(d)) \in {0, k + 1}
    BY <2>1, <2>2 DEF CalcOf, IndexOf
  <2>5. Typed(Entry(d), st)
    BY <1>1, <1>4, <1>5, <2>1, <2>4 DEF Typed, FinalWordScreens
  <2>6. ~(CalcOf(view) /\ IndexOf(view) = MnemonicLength - 1) /\ view.cls \notin FinalWordScreens
    BY <1>9 DEF k, FinalWordScreens
  <2> HIDE DEF d
  <2>7. GoStoring(d, st)
    BY <1>9 DEF d
  <2>8. ~Go(d) \/ st = storage
    BY <2>7, <1>3 DEF Go, GoStoring, Turn
  <2> QED BY <1>2, <1>3, <1>4, <2>1, <2>3, <2>5, <2>6, <2>7, <2>8, TypingStep
<1>10. CASE IsValid(st) /\ GoStoring(To("SeedFinalizeView"), ConvertPendingMnemonic(st))
  <2> DEFINE d == To("SeedFinalizeView")
             conv == ConvertPendingMnemonic(st)
  <2>1. d.cls = "SeedFinalizeView" /\ d.args = None /\ ~GoesBack(d) /\ ~d.clear /\ ~d.skip
    BY DEF To, GoesBack
  <2>2. conv \in StorageType /\ conv.pendingSeed # None /\ conv.pendingSeed.passphrase = ""
    BY Zenon, <1>3, <1>10, ConvertStored
  <2>3. NoPassphraseUnseen(conv, Entry(d))
    BY Zenon, <2>2 DEF NoPassphraseUnseen
  <2> HIDE DEF d, conv
  <2>4. Turn(d, controller, conv, {})
    BY <1>10 DEF GoStoring, d, conv
  <2> QED BY Zenon, <2>1, <2>2, <2>3, <2>4, BecomesPending
<1>11. CASE ~(CalcOf(view) /\ k = last) /\ GoStoring(To("SeedMnemonicInvalidView"), st)
  <2> DEFINE d == To("SeedMnemonicInvalidView")
  <2>1. /\ d.cls = "SeedMnemonicInvalidView" /\ Entry(d).cls = d.cls
        /\ ~GoesBack(d) /\ ~d.clear /\ ~d.skip
    BY DEF To, Entry, GoesBack
  <2>2. ArgsOK(Entry(d)) /\ Typed(Entry(d), st) /\ d.cls \in TypingScreens
    BY <2>1 DEF ArgsOK, Typed, TypingScreens, FinalWordScreens, ScreensOfASeed, WordScreens
  <2>3. ~(CalcOf(view) /\ IndexOf(view) = MnemonicLength - 1) /\ view.cls \notin FinalWordScreens
    BY <1>11 DEF k, FinalWordScreens
  <2> HIDE DEF d
  <2>4. GoStoring(d, st)
    BY <1>11 DEF d
  <2>5. ~Go(d) \/ st = storage
    BY <2>4, <1>3 DEF Go, GoStoring, Turn
  <2> QED BY <1>2, <1>3, <1>4, <2>1, <2>2, <2>3, <2>4, <2>5, TypingStep
<1> QED BY <1>6, <1>7, <1>8, <1>9, <1>10, <1>11

\* BACK from the first word discards the mnemonic: nothing below needs it.
LEMMA EntryKeeps ==
  ASSUME IInv, SeedInv, SeedMnemonicEntryView PROVE SeedInv'
<1>0. /\ view.cls = "SeedMnemonicEntryView" /\ view.cls \in TypingScreens /\ WordIndex = IndexOf(view)
      /\ ~IsFinishing(view)
  BY DEF SeedMnemonicEntryView, At, TypingScreens, WordIndex, IndexOf, IsFinishing,
         PassphraseScreens
<1>1. CASE GoStoring(Back, IF WordIndex = 0 THEN DiscardPendingMnemonic ELSE storage)
  <2>1. CASE WordIndex = 0
    <3>1. ASSUME NEW x, MayBeOn(view, x), Typed(x, storage) PROVE Typed(x, DiscardPendingMnemonic)
      <4>1. x.cls \notin FinalWordScreens
        BY <1>0, <2>1, <3>1, SeedAssumption DEF MayBeOn, FinalWordScreens
      <4> QED BY <4>1, DiscardStored DEF Typed, SeedInv, FinalWordScreens
    <3> QED BY <1>0, <1>1, <2>1, <3>1, DiscardStored, TypingGoesBack DEF SeedInv
  <2>2. CASE WordIndex # 0
    BY <1>0, <1>1, <2>2, TypingGoesBack DEF SeedInv
  <2> QED BY <2>1, <2>2
<1>2. CASE \E word \in Words : /\ WordIndex < Len(storage.pendingMnemonic)
                               /\ NextAfterWord(UpdatePendingMnemonic(word, WordIndex))
  <2>1. storage.pendingMnemonic # << >>
    <3>1. IndexOf(view) \in Nat
      BY <1>0, ViewIsOK, SeedAssumption DEF ArgsOK, IndexOf
    <3>2. Len(<< >>) = 0
      OBVIOUS
    <3> QED BY <1>0, <1>2, <3>1, <3>2
  <2> QED BY <1>0, <1>2, <2>1, NextAfterWordKeeps
<1>3. CASE Raise
  BY <1>0, <1>3, RaisesFromTyping
<1> QED BY <1>1, <1>2, <1>3 DEF SeedMnemonicEntryView

LEMMA InvalidKeeps ==
  ASSUME IInv, SeedInv, SeedMnemonicInvalidView PROVE SeedInv'
<1>0. view.cls = "SeedMnemonicInvalidView" /\ view.cls \in TypingScreens /\ ~IsFinishing(view)
  BY DEF SeedMnemonicInvalidView, At, TypingScreens, IsFinishing, PassphraseScreens
<1>1. CASE Go(ToWith("SeedMnemonicEntryView", [index |-> 0, calc |-> FALSE]))
  <2> DEFINE d == ToWith("SeedMnemonicEntryView", [index |-> 0, calc |-> FALSE])
             e == Entry(d)
  <2>1. /\ d.cls = "SeedMnemonicEntryView" /\ ~GoesBack(d) /\ ~d.clear /\ ~d.skip
        /\ e.cls = "SeedMnemonicEntryView" /\ e.args = [index |-> 0, calc |-> FALSE]
    BY DEF To, ToWith, Entry, GoesBack
  <2>2. 0 \in 0..(MnemonicLength - 1)
    BY SeedAssumption
  <2> HIDE DEF d, e
  <2>3. ArgsOK(e) /\ IndexOf(e) = 0 /\ ~CalcOf(e)
    <3>1. e.args \in [index : 0..(MnemonicLength - 1), calc : BOOLEAN]
      BY <2>1, <2>2
    <3>2. IndexOf(e) = 0 /\ ~CalcOf(e)
      BY <2>1 DEF IndexOf, CalcOf
    <3> QED BY <2>1, <3>1, <3>2 DEF ArgsOK, ScreensOfASeed, WordScreens
  <2>4. Typed(e, storage) /\ ~NeedsPending(e)
    BY <2>1, <2>3
       DEF Typed, FinalWordScreens, NeedsPending, IsFinishing, PassphraseScreens, WordScreens
  <2>5. MayBeOn(e, view) /\ \A x : MayBeOn(view, x) => MayBeOn(e, x)
    BY <1>0, <2>1 DEF MayBeOn, TypingScreens, FinalWordScreens, IsFinishing, PassphraseScreens
  <2>6. \A f : NoPassphraseUnseen(storage, f)
    BY <1>0, NoPassphrase DEF TypingScreens, FinalWordScreens, PassphraseScreens
  <2>7. Turn(d, controller, storage, {})
    BY <1>1 DEF Go, d
  <2>8. SeedStep(d, storage)
    BY <1>0, <2>1, <2>3, <2>4, <2>5, <2>6 DEF SeedStep, SeedInv, TypedOK, e
  <2> QED BY <2>7, <2>8, SeedTurn
<1>2. CASE GoStoring(To("MainMenuView"), DiscardPendingMnemonic)
  <2> DEFINE d == To("MainMenuView")
  <2>1. d.cls = "MainMenuView" /\ ~GoesBack(d) /\ ~d.skip /\ Entry(d) = Home
    BY DEF To, Entry, Home, GoesBack
  <2>2. Turn(d, controller, DiscardPendingMnemonic, {})
    BY <1>2 DEF GoStoring
  <2>3. Elsewhere("MainMenuView")
    BY DEF Elsewhere, ScreensOfASeed, WordScreens, TypingScreens, FinalWordScreens,
           PassphraseScreens
  <2>4. view.cls # "MainMenuView" /\ view.cls \notin PassphraseScreens
    BY <1>0 DEF PassphraseScreens
  <2> HIDE DEF d
  <2> QED BY <2>1, <2>2, <2>3, <2>4, DiscardStored, LeavesTyping DEF SeedInv
<1> QED BY <1>1, <1>2 DEF SeedMnemonicInvalidView, ChooseWith

LEMMA ElectrumStartKeeps ==
  ASSUME IInv, SeedInv, SeedElectrumMnemonicStartView PROVE SeedInv'
<1> DEFINE d == To("SeedMnemonicEntryView")
<1>1. /\ view.cls \notin TypingScreens \union {"MainMenuView"} /\ ~IsFinishing(view)
  BY DEF SeedElectrumMnemonicStartView, At, TypingScreens, FinalWordScreens, IsFinishing,
         PassphraseScreens
<1>2. d.cls = "SeedMnemonicEntryView" /\ d.args = None /\ ~d.skip /\ ~d.clear
  BY DEF To
<1>3. Turn(d, controller, InitPendingMnemonic(TRUE), {})
  BY Zenon DEF SeedElectrumMnemonicStartView, GoStoring
<1> HIDE DEF d
<1> QED BY Zenon, <1>1, <1>2, <1>3, StartsTyping

LEMMA NumWordsKeeps ==
  ASSUME IInv, SeedInv, ToolsCalcFinalWordNumWordsView PROVE SeedInv'
<1>1. /\ view.cls \notin TypingScreens \union {"MainMenuView"} /\ ~IsFinishing(view)
      /\ view.cls \notin PassphraseScreens \union {"SeedFinalizeView", "SeedDiscardView"}
  BY DEF ToolsCalcFinalWordNumWordsView, At, TypingScreens, FinalWordScreens, IsFinishing,
         PassphraseScreens
<1>2. CASE Go(Back)
  BY <1>1, <1>2, ElsewhereStep DEF Go, Back, To, GoesBack
<1>3. CASE GoStoring(ToWith("SeedMnemonicEntryView", [index |-> 0, calc |-> TRUE]),
                     InitPendingMnemonic(FALSE))
  <2> DEFINE d == ToWith("SeedMnemonicEntryView", [index |-> 0, calc |-> TRUE])
  <2>1. /\ d.cls = "SeedMnemonicEntryView" /\ d.args = [index |-> 0, calc |-> TRUE]
        /\ ~d.skip /\ ~d.clear
    BY DEF To, ToWith
  <2>2. Turn(d, controller, InitPendingMnemonic(FALSE), {})
    BY Zenon, <1>3 DEF GoStoring
  <2> HIDE DEF d
  <2> QED BY Zenon, <1>1, <2>1, <2>2, StartsTyping
<1> QED BY Zenon, <1>2, <1>3 DEF ToolsCalcFinalWordNumWordsView

\* What the Views about the last word find.
LEMMA FinalWordIsReady ==
  ASSUME IInv, SeedInv, view.cls \in FinalWordScreens
  PROVE  /\ view.cls \in TypingScreens /\ ~IsFinishing(view)
         /\ storage.pendingMnemonic \in [1..MnemonicLength -> Words \union {None}]
         /\ storage.pendingMnemonic # << >> /\ Len(storage.pendingMnemonic) = MnemonicLength
         /\ \A i \in 1..(MnemonicLength - 1) : storage.pendingMnemonic[i] \in Words
         /\ ~storage.isElectrum
         /\ view.cls = "ToolsCalcFinalWordDoneView" => storage.pendingMnemonic \in Mnemonics
<1>1. view.cls \in TypingScreens /\ ~IsFinishing(view)
  BY DEF TypingScreens, FinalWordScreens, IsFinishing, PassphraseScreens
<1>2. Typed(view, storage)
  BY <1>1, ViewIsOK
<1> QED BY <1>1, <1>2, PendingMnemonic DEF Typed, SeedInv

\* BACK from one of them leaves what was typed.
LEMMA FinalWordBack ==
  ASSUME IInv, SeedInv, view.cls \in FinalWordScreens, Go(Back) PROVE SeedInv'
<1>1. GoStoring(Back, storage)
  BY DEF Go, GoStoring
<1> QED BY <1>1, FinalWordIsReady, TypingGoesBack DEF SeedInv

\* On to the screen of the last word, with st the storage that holds it.
LEMMA FinalWordOnward ==
  ASSUME IInv, SeedInv, view.cls \in FinalWordScreens, view.cls # "ToolsCalcFinalWordDoneView",
         NEW d, ~GoesBack(d), ~d.clear, ~d.skip, d.cls \in FinalWordScreens,
         d.cls = "ToolsCalcFinalWordShowFinalWordView" => d.args = None \/ d.args \in [bits : Words],
         NEW st \in StorageType, st.pendingSeed = storage.pendingSeed, ~st.isElectrum,
         st.pendingMnemonic # << >>,
         \A i \in 1..(MnemonicLength - 1) : st.pendingMnemonic[i] \in Words,
         d.cls = "ToolsCalcFinalWordDoneView" => st.pendingMnemonic \in Mnemonics,
         GoStoring(d, st)
  PROVE  SeedInv'
<1>1. Entry(d).cls = d.cls /\ Entry(d).args = d.args /\ d.cls \in TypingScreens
  BY DEF Entry, TypingScreens
<1>2. ArgsOK(Entry(d))
  BY <1>1 DEF ArgsOK, FinalWordScreens, ScreensOfASeed, WordScreens
<1>3. Typed(Entry(d), st)
  BY <1>1 DEF Typed, FinalWordScreens
<1>4. st.isElectrum = storage.isElectrum
  BY FinalWordIsReady DEF SeedInv, StorageType
<1>5. Go(d) => st = storage
  BY DEF Go, GoStoring, Turn
<1> QED BY <1>1, <1>2, <1>3, <1>4, <1>5, FinalWordIsReady, TypingStep

\* The word to be used for its bits is stored, or asked for again.
LEMMA LastWordStored ==
  ASSUME IInv, SeedInv, view.cls \in FinalWordScreens, NEW word \in Words \union {None}
  PROVE  LET st == UpdatePendingMnemonic(word, MnemonicLength - 1) IN
         /\ st \in StorageType /\ st.pendingSeed = storage.pendingSeed /\ ~st.isElectrum
         /\ st.pendingMnemonic # << >>
         /\ \A i \in 1..(MnemonicLength - 1) : st.pendingMnemonic[i] \in Words
<1> DEFINE index == MnemonicLength - 1
           st == UpdatePendingMnemonic(word, index)
<1>1. MnemonicLength \in Nat /\ MnemonicLength > 1 /\ index \in 0..(MnemonicLength - 1) /\ index + 1 = MnemonicLength
  BY SeedAssumption
<1>2. /\ st \in StorageType /\ st.pendingSeed = storage.pendingSeed /\ st.isElectrum = storage.isElectrum
      /\ st.pendingMnemonic # << >>
      /\ \A i \in 1..MnemonicLength : i # index + 1 => st.pendingMnemonic[i] = storage.pendingMnemonic[i]
  BY Zenon, <1>1, FinalWordIsReady, UpdateStored DEF SeedInv
<1> HIDE DEF st
<1>3. \A i \in 1..(MnemonicLength - 1) : i \in 1..MnemonicLength /\ i # index + 1
  BY <1>1
<1>4. st.isElectrum = FALSE
  BY <1>2, FinalWordIsReady DEF SeedInv, StorageType
<1>5. \A i \in 1..(MnemonicLength - 1) : st.pendingMnemonic[i] \in Words
  BY Zenon, <1>2, <1>3, FinalWordIsReady
<1> QED BY <1>2, <1>4, <1>5 DEF st

LEMMA FinalizePromptKeeps ==
  ASSUME IInv, SeedInv, ToolsCalcFinalWordFinalizePromptView PROVE SeedInv'
<1> DEFINE last == MnemonicLength - 1
<1>0. /\ view.cls = "ToolsCalcFinalWordFinalizePromptView" /\ view.cls \in FinalWordScreens
      /\ MnemonicLength \in Nat /\ MnemonicLength > 1
  BY SeedAssumption DEF ToolsCalcFinalWordFinalizePromptView, At, FinalWordScreens
<1>1. Len(storage.pendingMnemonic) - 1 = last
  BY <1>0, FinalWordIsReady
<1>2. CASE Go(To("ToolsCalcFinalWordCoinFlipsView"))
  <2> DEFINE d == To("ToolsCalcFinalWordCoinFlipsView")
  <2>1. d.cls = "ToolsCalcFinalWordCoinFlipsView" /\ d.cls \in FinalWordScreens
        /\ ~GoesBack(d) /\ ~d.clear /\ ~d.skip
    BY DEF To, GoesBack, FinalWordScreens
  <2>2. GoStoring(d, storage)
    BY <1>2 DEF Go, GoStoring
  <2> HIDE DEF d
  <2> QED BY <1>0, <2>1, <2>2, FinalWordIsReady, FinalWordOnward DEF SeedInv
<1>3. CASE GoStoring(ToWith("SeedMnemonicEntryView", [index |-> last, calc |-> TRUE]),
                     UpdatePendingMnemonic(None, last))
  <2> DEFINE d == ToWith("SeedMnemonicEntryView", [index |-> last, calc |-> TRUE])
             st == UpdatePendingMnemonic(None, last)
             args == [index |-> last, calc |-> TRUE]
  <2>1. /\ d.cls = "SeedMnemonicEntryView" /\ Entry(d).cls = d.cls /\ Entry(d).args = args
        /\ ~GoesBack(d) /\ ~d.clear /\ ~d.skip
    BY DEF To, ToWith, Entry, GoesBack
  <2>2. /\ args \in [index : 0..(MnemonicLength - 1), calc : BOOLEAN] /\ args # None
        /\ args.index = last /\ args.calc
    <3>1. last \in 0..(MnemonicLength - 1) /\ last \in 0..MnemonicLength
      BY <1>0
    <3> QED BY Zenon, <3>1, NoneAssumption
  <2>3. GoStoring(d, st)
    BY <1>3
  <2>4. /\ st \in StorageType /\ st.pendingSeed = storage.pendingSeed /\ ~st.isElectrum
        /\ st.pendingMnemonic # << >>
        /\ \A i \in 1..last : st.pendingMnemonic[i] \in Words
    BY <1>0, LastWordStored
  <2> HIDE DEF d, st, args
  <2>5. ArgsOK(Entry(d)) /\ CalcOf(Entry(d)) /\ IndexOf(Entry(d)) = last /\ d.cls \in TypingScreens
    BY <2>1, <2>2 DEF ArgsOK, CalcOf, IndexOf, TypingScreens, FinalWordScreens, ScreensOfASeed,
           WordScreens
  <2>6. Typed(Entry(d), st)
    BY <2>1, <2>4, <2>5 DEF Typed, FinalWordScreens
  <2>7. st.isElectrum = storage.isElectrum
    BY <1>0, <2>4, FinalWordIsReady DEF SeedInv, StorageType
  <2>8. Go(d) => st = storage
    BY <2>3 DEF Go, GoStoring, Turn
  <2> QED BY <1>0, <2>1, <2>3, <2>4, <2>5, <2>6, <2>7, <2>8, FinalWordIsReady, TypingStep
<1>4. CASE \E zero \in Words :
             GoStoring(ToWith("ToolsCalcFinalWordShowFinalWordView", [bits |-> zero]),
                       UpdatePendingMnemonic(zero, last))
  <2>1. PICK zero \in Words :
          GoStoring(ToWith("ToolsCalcFinalWordShowFinalWordView", [bits |-> zero]),
                    UpdatePendingMnemonic(zero, last))
    BY <1>4
  <2> DEFINE d == ToWith("ToolsCalcFinalWordShowFinalWordView", [bits |-> zero])
             st == UpdatePendingMnemonic(zero, last)
  <2>2. /\ d.cls = "ToolsCalcFinalWordShowFinalWordView" /\ d.args \in [bits : Words]
        /\ d.cls \in FinalWordScreens /\ ~GoesBack(d) /\ ~d.clear /\ ~d.skip
    BY DEF To, ToWith, GoesBack, FinalWordScreens
  <2>3. GoStoring(d, st)
    BY <2>1
  <2>4. /\ st \in StorageType /\ st.pendingSeed = storage.pendingSeed /\ ~st.isElectrum
        /\ st.pendingMnemonic # << >>
        /\ \A i \in 1..(MnemonicLength - 1) : st.pendingMnemonic[i] \in Words
    BY <1>0, LastWordStored
  <2> HIDE DEF d, st
  <2> QED BY <1>0, <2>2, <2>3, <2>4, FinalWordOnward
<1>5. CASE Go(Back)
  BY <1>0, <1>5, FinalWordBack
<1> QED BY Zenon, <1>1, <1>2, <1>3, <1>4, <1>5 DEF ToolsCalcFinalWordFinalizePromptView, Choose

LEMMA CoinFlipsKeeps ==
  ASSUME IInv, SeedInv, ToolsCalcFinalWordCoinFlipsView PROVE SeedInv'
<1>0. view.cls = "ToolsCalcFinalWordCoinFlipsView" /\ view.cls \in FinalWordScreens
  BY DEF ToolsCalcFinalWordCoinFlipsView, At, FinalWordScreens
<1>1. CASE Go(Back)
  BY <1>0, <1>1, FinalWordBack
<1>2. ASSUME NEW word \in Words, Go(ToWith("ToolsCalcFinalWordShowFinalWordView", [bits |-> word]))
      PROVE  SeedInv'
  <2> DEFINE d == ToWith("ToolsCalcFinalWordShowFinalWordView", [bits |-> word])
  <2>1. /\ d.cls = "ToolsCalcFinalWordShowFinalWordView" /\ d.args \in [bits : Words]
        /\ d.cls \in FinalWordScreens /\ ~GoesBack(d) /\ ~d.clear /\ ~d.skip
    BY DEF To, ToWith, GoesBack, FinalWordScreens
  <2>2. GoStoring(d, storage)
    BY <1>2 DEF Go, GoStoring
  <2> HIDE DEF d
  <2> QED BY <1>0, <2>1, <2>2, FinalWordIsReady, FinalWordOnward DEF SeedInv
<1> QED BY Zenon, <1>1, <1>2 DEF ToolsCalcFinalWordCoinFlipsView, ChooseWith

\* The mnemonic with its checksum is stored whatever the user answers.
LEMMA ShowFinalWordKeeps ==
  ASSUME IInv, SeedInv, ToolsCalcFinalWordShowFinalWordView PROVE SeedInv'
<1>0. view.cls = "ToolsCalcFinalWordShowFinalWordView" /\ view.cls \in FinalWordScreens
  BY DEF ToolsCalcFinalWordShowFinalWordView, At, FinalWordScreens
<1> DEFINE m == storage.pendingMnemonic
           chosen == IF view.args = None THEN m ELSE [m EXCEPT ![Len(m)] = view.args.bits]
           full == WithChecksum(chosen)
           st == [storage EXCEPT !.pendingMnemonic = full]
<1>1. full \in Mnemonics
  <2>1. /\ m \in [1..MnemonicLength -> Words \union {None}] /\ Len(m) = MnemonicLength
        /\ \A i \in 1..(MnemonicLength - 1) : m[i] \in Words
        /\ MnemonicLength \in Nat /\ MnemonicLength > 1
    BY <1>0, FinalWordIsReady, SeedAssumption
  <2>2. view.args = None \/ view.args.bits \in Words
    BY <1>0, ViewIsOK DEF ArgsOK
  <2>3. /\ chosen \in [1..MnemonicLength -> Words \union {None}]
        /\ \A i \in 1..(MnemonicLength - 1) : chosen[i] \in Words
    BY <2>1, <2>2
  <2> HIDE DEF chosen
  <2> QED BY Zenon, <2>3, ChecksumIsValid
<1> HIDE DEF full
<1>2. /\ full \in [1..MnemonicLength -> Words \union {None}] /\ full # << >>
      /\ \A i \in 1..MnemonicLength : full[i] \in Words
  BY <1>1, MnemonicsAreWords
<1>3. /\ st \in StorageType /\ st.pendingSeed = storage.pendingSeed /\ st.pendingMnemonic = full
      /\ st.isElectrum = storage.isElectrum
  BY <1>2 DEF SeedInv, StorageType
<1> HIDE DEF st
<1>4. ~st.isElectrum /\ \A i \in 1..(MnemonicLength - 1) : st.pendingMnemonic[i] \in Words
  BY <1>0, <1>2, <1>3, FinalWordIsReady, SeedAssumption
<1>5. CASE GoStoring(Back, st)
  <2>1. ASSUME NEW x, ArgsOK(x) PROVE Typed(x, st)
    <3>1. x.cls = "SeedMnemonicEntryView" => \A i \in 1..IndexOf(x) : i \in 1..(MnemonicLength - 1)
      BY <2>1, SeedAssumption DEF ArgsOK, IndexOf
    <3> QED BY <1>1, <1>2, <1>3, <1>4, <3>1 DEF Typed, FinalWordScreens
  <2> QED BY <1>0, <1>3, <1>5, <2>1, FinalWordIsReady, TypingGoesBack
<1>6. CASE GoStoring(To("ToolsCalcFinalWordDoneView"), st)
  <2> DEFINE d == To("ToolsCalcFinalWordDoneView")
  <2>1. d.cls = "ToolsCalcFinalWordDoneView" /\ d.cls \in FinalWordScreens
        /\ ~GoesBack(d) /\ ~d.clear /\ ~d.skip
    BY DEF To, GoesBack, FinalWordScreens
  <2>2. GoStoring(d, st)
    BY <1>6
  <2> HIDE DEF d
  <2> QED BY Zenon, <1>0, <1>1, <1>2, <1>3, <1>4, <2>1, <2>2, FinalWordOnward
<1> QED BY <1>5, <1>6 DEF ToolsCalcFinalWordShowFinalWordView, ChooseStoring, st, full

LEMMA FinalWordDoneKeeps ==
  ASSUME IInv, SeedInv, ToolsCalcFinalWordDoneView PROVE SeedInv'
<1>0. view.cls = "ToolsCalcFinalWordDoneView" /\ view.cls \in FinalWordScreens
  BY DEF ToolsCalcFinalWordDoneView, At, FinalWordScreens
<1>1. CASE Go(Back)
  BY <1>0, <1>1, FinalWordBack
<1>2. ASSUME NEW cls \in {"SeedFinalizeView", "SeedDiscardView"},
             GoStoring(To(cls), ConvertPendingMnemonic(storage))
      PROVE  SeedInv'
  <2> DEFINE d == To(cls)
             conv == ConvertPendingMnemonic(storage)
  <2>1. d.cls = cls /\ d.args = None /\ ~GoesBack(d) /\ ~d.clear
    BY DEF To, GoesBack
  <2>2. IsValid(storage)
    BY <1>0, FinalWordIsReady DEF IsValid
  <2>3. conv \in StorageType /\ conv.pendingSeed # None /\ conv.pendingSeed.passphrase = ""
    BY Zenon, <2>2, ConvertStored DEF SeedInv
  <2>4. Turn(d, controller, conv, {})
    BY <1>2 DEF GoStoring
  <2>5. NoPassphraseUnseen(conv, Entry(d))
    BY Zenon, <2>3 DEF NoPassphraseUnseen
  <2> HIDE DEF d, conv
  <2> QED BY Zenon, <1>0, <2>1, <2>3, <2>4, <2>5, BecomesPending
<1> QED BY <1>1, <1>2 DEF ToolsCalcFinalWordDoneView, ChooseStoring

-----------------------------------------------------------------------------
(* The pending seed becomes one in memory, or is discarded. *)

LEMMA KeepSeedKeeps ==
  ASSUME IInv, SeedInv, IsFinishing(view), KeepSeed PROVE SeedInv'
<1> DEFINE seed == storage.pendingSeed
           d == Clearing(ToWith("SeedOptionsView", [seed |-> seed]))
           st == FinalizePendingSeed
<1>1. seed # None
  BY ViewIsOK DEF NeedsPending
<1>2. st \in StorageType /\ st.pendingSeed = None /\ seed \in Seeds
  BY <1>1, FinalizeStored DEF SeedInv
<1>3. /\ d.clear /\ ~d.skip /\ ~GoesBack(d)
      /\ Entry(d).cls = "SeedOptionsView" /\ Entry(d).args = [seed |-> seed]
  BY DEF Clearing, ToWith, To, Entry, GoesBack
<1>4. Turn(d, controller, st, {})
  BY DEF KeepSeed, GoStoring
<1> HIDE DEF d, st, seed
<1>5. /\ ArgsOK(Entry(d)) /\ ~NeedsPending(Entry(d)) /\ Typed(Entry(d), st)
      /\ NoPassphraseUnseen(st, Entry(d))
  BY <1>2, <1>3
  DEF ArgsOK, NeedsPending, IsFinishing, PassphraseScreens, WordScreens, Typed, FinalWordScreens,
      NoPassphraseUnseen
<1>6. SeedStep(d, st)
  BY <1>2, <1>3, <1>5 DEF SeedStep
<1> QED BY <1>4, <1>6, SeedTurn

\* To one of the Views of the pending seed, with st the storage that holds it.
LEMMA OnToPending ==
  ASSUME IInv, SeedInv, view.cls # "MainMenuView",
         NEW cls \in PassphraseScreens \union {"SeedFinalizeView"},
         NEW st \in StorageType, st.pendingSeed # None,
         st.pendingSeed.passphrase # "" => cls \in PassphraseScreens,
         GoStoring(To(cls), st) \/ GoStoring(Skipping(To(cls)), st)
  PROVE  SeedInv'
<1>1. ASSUME NEW d, d \in {To(cls), Skipping(To(cls))}, GoStoring(d, st) PROVE SeedInv'
  <2>1. d.cls = cls /\ d.args = None /\ ~d.clear /\ Entry(d).cls = cls
    <3>1. CASE d = To(cls)
      BY Zenon, <3>1 DEF To, Entry
    <3>2. CASE d = Skipping(To(cls))
      BY Zenon, <3>2 DEF To, Skipping, Entry
    <3> QED BY Zenon, <1>1, <3>1, <3>2
  <2>2. ~GoesBack(d)
    BY Zenon, <2>1 DEF GoesBack, PassphraseScreens
  <2>3. NoPassphraseUnseen(st, Entry(d))
    BY Zenon, <2>1 DEF NoPassphraseUnseen
  <2> QED BY Zenon, <1>1, <2>1, <2>2, <2>3, BecomesPending DEF GoStoring
<1> QED BY Zenon, <1>1

LEMMA FinalizeViewsKeepSeeds ==
  ASSUME IInv, SeedInv,
         \/ SeedFinalizeView \/ SeedAddPassphraseView \/ SeedAddPassphraseExitDialogView
         \/ SeedReviewPassphraseView
  PROVE  SeedInv'
<1>0. /\ IsFinishing(view) /\ view.cls # "MainMenuView"
      /\ view.cls \in PassphraseScreens \union {"SeedFinalizeView"}
  BY Zenon DEF SeedFinalizeView, SeedAddPassphraseView, SeedAddPassphraseExitDialogView,
         SeedReviewPassphraseView, At, IsFinishing, PassphraseScreens
<1>1. storage \in StorageType /\ storage.pendingSeed # None
  BY <1>0, ViewIsOK DEF SeedInv, NeedsPending
<1>2. CASE KeepSeed
  BY <1>0, <1>2, KeepSeedKeeps
<1>3. CASE Go(To("SeedAddPassphraseView"))
  <2>1. GoStoring(To("SeedAddPassphraseView"), storage)
    BY <1>3 DEF Go, GoStoring
  <2> QED BY Zenon, <1>0, <1>1, <2>1, OnToPending DEF PassphraseScreens
<1>4. ASSUME NEW p \in Passphrases \union {""},
             NEW cls \in {"SeedAddPassphraseExitDialogView", "SeedReviewPassphraseView"},
             GoStoring(To(cls), WithPassphrase(p))
      PROVE  SeedInv'
  <2>1. WithPassphrase(p) \in StorageType /\ WithPassphrase(p).pendingSeed # None
    BY Zenon, <1>1, PassphraseStored
  <2>2. cls \in PassphraseScreens
    BY Zenon DEF PassphraseScreens
  <2> QED BY Zenon, <1>0, <1>4, <2>1, <2>2, OnToPending
<1>5. CASE GoStoring(To("SeedFinalizeView"), WithPassphrase(""))
  <2>1. /\ WithPassphrase("") \in StorageType /\ WithPassphrase("").pendingSeed # None
        /\ WithPassphrase("").pendingSeed.passphrase = ""
    BY Zenon, <1>1, PassphraseStored
  <2> QED BY Zenon, <1>0, <1>5, <2>1, OnToPending
<1> QED BY Zenon, <1>2, <1>3, <1>4, <1>5
    DEF SeedFinalizeView, SeedAddPassphraseView, SeedAddPassphraseExitDialogView,
        SeedReviewPassphraseView, Choose

LEMMA DiscardKeeps ==
  ASSUME IInv, SeedInv, SeedDiscardView PROVE SeedInv'
<1>0. /\ view.cls = "SeedDiscardView" /\ view.cls # "MainMenuView" /\ view.cls \notin PassphraseScreens
      /\ view.args = None \/ \E seed \in Seeds : view.args = [seed |-> seed] /\ view.args # None
  BY ViewIsOK, NoneAssumption DEF SeedDiscardView, At, ArgsOK, PassphraseScreens
<1> DEFINE d == Clearing(To("MainMenuView"))
<1>1. d.cls = "MainMenuView" /\ ~GoesBack(d) /\ ~d.skip /\ d.clear
  BY DEF Clearing, To, GoesBack
<1>2. Elsewhere("MainMenuView")
  BY DEF Elsewhere, ScreensOfASeed, WordScreens, TypingScreens, FinalWordScreens,
         PassphraseScreens
<1>3. \A st : GoStoring(d, st) => Turn(d, controller, st, {})
  BY DEF GoStoring
<1> HIDE DEF d
<1>4. CASE view.args = None
  <2>1. CASE Go(Skipping(To("SeedFinalizeView")))
    <3>1. GoStoring(Skipping(To("SeedFinalizeView")), storage)
      BY <2>1 DEF Go, GoStoring
    <3>2. storage.pendingSeed # None /\ ~(storage.pendingSeed.passphrase # "")
      BY Zenon, <1>0, <1>4, ViewIsOK DEF NeedsPending, IsFinishing, SeedInv, NoPassphraseUnseen
    <3> QED BY Zenon, <1>0, <3>1, <3>2, OnToPending DEF SeedInv
  <2>2. CASE GoStoring(d, ClearPendingSeed)
    <3>1. ClearPendingSeed \in StorageType /\ ClearPendingSeed.pendingSeed = None
      BY PendingStored DEF ClearPendingSeed, SeedInv
    <3> QED BY <1>0, <1>1, <1>2, <1>3, <2>2, <3>1, LeavesTyping
  <2> QED BY <1>4, <2>1, <2>2 DEF SeedDiscardView, d
<1>5. CASE view.args # None
  <2>1. PICK seed \in Seeds : view.args = [seed |-> seed]
    BY <1>0, <1>5
  <2>2. view.args.seed \in Seeds
    BY <2>1
  <2>3. CASE Go(Skipping(ToWith("SeedOptionsView", [seed |-> view.args.seed])))
    <3> DEFINE o == Skipping(ToWith("SeedOptionsView", [seed |-> view.args.seed]))
    <3>1. ~GoesBack(o) /\ Entry(o).cls = "SeedOptionsView" /\ Entry(o).args = [seed |-> view.args.seed]
      BY DEF Skipping, ToWith, To, Entry, GoesBack
    <3>2. ~IsFinishing(view)
          /\ view.cls \notin TypingScreens \union PassphraseScreens \union {"SeedFinalizeView", "MainMenuView"}
      BY <1>0, <1>5 DEF IsFinishing, PassphraseScreens, TypingScreens, FinalWordScreens
    <3>3. Turn(o, controller, storage, {})
      BY <2>3 DEF Go
    <3> HIDE DEF o
    <3>4. Leads(Entry(o))
      BY <2>2, <3>1
      DEF Leads, ArgsOK, NeedsPending, IsFinishing, TypingScreens, FinalWordScreens,
          PassphraseScreens, WordScreens
    <3> QED BY <3>1, <3>2, <3>3, <3>4, OfASeedStep
  <2>4. CASE GoStoring(d, DiscardSeed(view.args.seed))
    <3>1. /\ DiscardSeed(view.args.seed) \in StorageType
          /\ DiscardSeed(view.args.seed).pendingSeed = storage.pendingSeed
      BY DiscardSeedStored DEF SeedInv
    <3> QED BY <1>0, <1>1, <1>2, <1>3, <2>4, <3>1, LeavesTyping
  <2> QED BY <1>5, <2>3, <2>4 DEF SeedDiscardView, d
<1> QED BY <1>4, <1>5

\* A seed that was scanned, or generated.
LEMMA ScanSeedKeeps ==
  ASSUME IInv, SeedInv, ScanSeed PROVE SeedInv'
<1>1. view.cls # "MainMenuView"
  BY ScannerIsNotHome DEF ScanSeed
<1>2. PICK m \in Mnemonics :
        GoStoring(To(IF PassphraseSetting = "required" THEN "SeedAddPassphraseView"
                                                      ELSE "SeedFinalizeView"),
                  WithPending(SeedOf(m, FALSE)))
  BY Zenon DEF ScanSeed
<1> DEFINE st == WithPending(SeedOf(m, FALSE))
           cls == IF PassphraseSetting = "required" THEN "SeedAddPassphraseView" ELSE "SeedFinalizeView"
<1>3. st \in StorageType /\ st.pendingSeed # None /\ st.pendingSeed.passphrase = ""
  <2>1. /\ SeedOf(m, FALSE) \in ValidSeeds /\ SeedOf(m, FALSE) # None
        /\ SeedOf(m, FALSE).passphrase = ""
    BY Zenon, NewSeed
  <2> QED BY Zenon, <2>1, PendingStored DEF SeedInv
<1>4. cls \in PassphraseScreens \union {"SeedFinalizeView"}
  BY DEF PassphraseScreens
<1>5. GoStoring(To(cls), st)
  BY Zenon, <1>2
<1> HIDE DEF st, cls
<1> QED BY Zenon, <1>1, <1>3, <1>4, <1>5, OnToPending

LEMMA GenerateSeedKeeps ==
  ASSUME IInv, SeedInv, GenerateSeed PROVE SeedInv'
<1>0. /\ view.cls # "MainMenuView"
      /\ view.cls \notin TypingScreens \union PassphraseScreens \union {"SeedFinalizeView", "SeedDiscardView"}
  BY DEF GenerateSeed, At, TypingScreens, FinalWordScreens, PassphraseScreens
<1>1. CASE Go(Back)
  BY <1>0, <1>1, ElsewhereStep DEF Go, Back, To, GoesBack
<1>2. ASSUME NEW m \in Mnemonics,
             GoStoring(Clearing(ToWith("SeedWordsWarningView", [seed |-> None, bip85 |-> None])),
                       WithPending(SeedOf(m, FALSE)))
      PROVE  SeedInv'
  <2> DEFINE d == Clearing(ToWith("SeedWordsWarningView", [seed |-> None, bip85 |-> None]))
             st == WithPending(SeedOf(m, FALSE))
  <2>1. st \in StorageType /\ st.pendingSeed # None /\ st.pendingSeed.passphrase = ""
    <3>1. /\ SeedOf(m, FALSE) \in ValidSeeds /\ SeedOf(m, FALSE) # None
          /\ SeedOf(m, FALSE).passphrase = ""
      BY Zenon, NewSeed
    <3> QED BY Zenon, <3>1, PendingStored DEF SeedInv
  <2>2. /\ d.clear /\ ~d.skip /\ ~GoesBack(d)
        /\ Entry(d).cls = "SeedWordsWarningView" /\ Entry(d).args = [seed |-> None, bip85 |-> None]
    BY DEF Clearing, ToWith, To, Entry, GoesBack
  <2>3. Turn(d, controller, st, {})
    BY Zenon, <1>2 DEF GoStoring
  <2> HIDE DEF d, st
  <2>4. ArgsOK(Entry(d)) /\ Typed(Entry(d), st) /\ NoPassphraseUnseen(st, Entry(d))
    <3>1. ArgsOK(Entry(d))
      BY <2>2 DEF ArgsOK, ScreensOfASeed
    <3>2. Typed(Entry(d), st)
      BY <2>2 DEF Typed, FinalWordScreens
    <3>3. NoPassphraseUnseen(st, Entry(d))
      BY Zenon, <2>1 DEF NoPassphraseUnseen
    <3> QED BY <3>1, <3>2, <3>3
  <2>5. SeedStep(d, st)
    BY Zenon, <2>1, <2>2, <2>4 DEF SeedStep
  <2> QED BY <2>3, <2>5, SeedTurn
<1> QED BY Zenon, <1>1, <1>2 DEF GenerateSeed

-----------------------------------------------------------------------------
(* The Views that ask for a seed to be loaded, and those every flow shares. *)

LEMMA ExplorerViewsKeepSeeds ==
  ASSUME IInv, SeedInv, ExplorerViews PROVE SeedInv'
<1> USE DEF ScreensOfASeed, WordScreens, TypingScreens, FinalWordScreens, PassphraseScreens, Elsewhere
<1>1. CASE SeedExportXpubSigTypeView
  BY Zenon, <1>1, ElsewhereStep
     DEF SeedExportXpubSigTypeView, At, Go, ChooseWith, To, ToWith, Back, Skipping, Clearing,
         GoesBack
<1>2. CASE SeedExportXpubScriptTypeView
  BY Zenon, <1>2, ElsewhereStep
     DEF SeedExportXpubScriptTypeView, At, Go, BackFromExplorer, GoWith, ChooseWith,
         AfterScriptType, To, ToWith, Back, Skipping, Clearing, GoesBack
<1>3. CASE SeedExportXpubCustomDerivationView
  BY <1>3, ElsewhereStep
     DEF SeedExportXpubCustomDerivationView, At, Go, AfterScriptType, To, ToWith, Back,
         Skipping, Clearing, GoesBack
<1>4. CASE ExportXpub
  BY Zenon, <1>4, ElsewhereStep
     DEF ExportXpub, At, Go, ChooseWith, ChooseSkipping, To, ToWith, Back, Skipping, Clearing,
         GoesBack
<1>5. CASE ToolsAddressExplorerSelectSourceView
  <2>0. view.cls = "ToolsAddressExplorerSelectSourceView" /\ ~IsFinishing(view)
    BY <1>5 DEF ToolsAddressExplorerSelectSourceView, At, IsFinishing
  <2> DEFINE exploring == [controller EXCEPT !.resume = "address_explorer"]
  <2>1. CASE LoadASeed("ScanSeedQRView", exploring)
    BY <2>0, <2>1, LoadASeedKeeps
  <2>2. CASE \/ Go(Back)
             \/ ChooseLeaving("ScanWalletDescriptorView", exploring)
             \/ \E seed \in storage.seeds :
                  GoWith(ToWith("SeedExportXpubScriptTypeView", [seed |-> seed, sigType |-> "ss"]), exploring)
    BY Zenon, <2>0, <2>2, ElsewhereStep DEF Go, ChooseLeaving, GoWith, To, ToWith, Back, GoesBack
  <2> QED BY Zenon, <1>5, <2>1, <2>2 DEF ToolsAddressExplorerSelectSourceView
<1>6. CASE ToolsAddressExplorerAddressTypeView
  BY Zenon, <1>6, ElsewhereStep
     DEF ToolsAddressExplorerAddressTypeView, At, GoWith, To, ToWith, Back, Skipping, Clearing,
         GoesBack
<1>7. CASE ToolsAddressExplorerAddressListView
  BY Zenon, <1>7, ElsewhereStep
     DEF ToolsAddressExplorerAddressListView, At, Raise, RaiseError, Go, ChooseWith,
         ChooseSkipping, To, ToWith, Back, Skipping, Clearing, GoesBack
<1>8. CASE ToolsAddressExplorerAddressView
  BY Zenon, <1>8, ElsewhereStep
     DEF ToolsAddressExplorerAddressView, At, Go, To, ToWith, Back, Skipping, Clearing,
         GoesBack
<1> QED BY <1>1, <1>2, <1>3, <1>4, <1>5, <1>6, <1>7, <1>8 DEF ExplorerViews

LEMMA PsbtViewsKeepSeeds ==
  ASSUME IInv, SeedInv, PsbtViews PROVE SeedInv'
<1> USE DEF ScreensOfASeed, WordScreens, TypingScreens, FinalWordScreens, PassphraseScreens, Elsewhere
<1>1. CASE ScanPsbt
  BY <1>1, ElsewhereStep
     DEF ScanPsbt, Scanned, Scanners, ScannerFor, GoWith, To, ToWith, Back, Skipping, Clearing,
         GoesBack
<1>2. CASE PSBTSelectSeedView
  <2>0. view.cls = "PSBTSelectSeedView" /\ ~IsFinishing(view)
    BY <1>2 DEF PSBTSelectSeedView, At, IsFinishing
  <2>1. CASE LoadASeed("ScanSeedQRView", [controller EXCEPT !.resume = "psbt"])
    BY <2>0, <2>1, LoadASeedKeeps
  <2>2. CASE \/ Raise \/ Go(Back) \/ Go(To("PSBTOverviewView"))
             \/ \E seed \in storage.seeds :
                  ChooseLeaving("PSBTOverviewView", [controller EXCEPT !.psbtSeed = seed])
    BY Zenon, <2>0, <2>2, ElsewhereStep
    DEF Raise, RaiseError, Go, ChooseLeaving, GoWith, To, ToWith, Back, Clearing, GoesBack
  <2> QED BY <1>2, <2>1, <2>2 DEF PSBTSelectSeedView
<1>3. CASE PSBTOverviewView
  BY Zenon, <1>3, ElsewhereStep
     DEF PSBTOverviewView, At, OverviewScreen, GoWith, ChooseLeaving, Raise, RaiseError, Go,
         Verdict, To, ToWith, Back, Skipping, Clearing, GoesBack
<1>4. CASE PSBTRejected
  BY <1>4, ElsewhereStep
     DEF PSBTRejected, At, Go, To, ToWith, Back, Skipping, Clearing, GoesBack
<1>5. CASE PSBTNoChangeWarningView
  BY Zenon, <1>5, ElsewhereStep
     DEF PSBTNoChangeWarningView, At, Go, ChooseSkipping, To, ToWith, Back, Skipping, Clearing,
         GoesBack
<1>6. CASE PSBTMathView
  BY <1>6, ElsewhereStep
     DEF PSBTMathView, At, Go, AddressDetails, ChangeDetails, To, ToWith, Back, Skipping,
         Clearing, GoesBack
<1>7. CASE PSBTAddressDetailsView
  BY Zenon, <1>7, ElsewhereStep
     DEF PSBTAddressDetailsView, At, Raise, RaiseError, Go, Show, ShowOnward, AddressDetails,
         ChangeDetails, AfterChange, To, ToWith, Back, Skipping, Clearing, GoesBack
<1>8. CASE PSBTChangeDetailsView
  BY Zenon, <1>8, ElsewhereStep
     DEF PSBTChangeDetailsView, At, Go, Raise, RaiseError, PSBTChangeDetailsScreen, Show,
         ShowOnward, ChangeDetails, AfterChange, To, ToWith, Back, Skipping, Clearing, GoesBack
<1>9. CASE PSBTOpReturnView
  BY Zenon, <1>9, ElsewhereStep
     DEF PSBTOpReturnView, At, Raise, RaiseError, Go, Show, ShowOnward, To, ToWith, Back,
         Skipping, Clearing, GoesBack
<1>10. CASE PSBTFinalizeView
  BY <1>10, ElsewhereStep
     DEF PSBTFinalizeView, At, Go, Choose, ChooseLeaving, GoWith, To, ToWith, Back, Skipping,
         Clearing, GoesBack
<1>11. CASE PSBTSignedQRDisplayView
  BY <1>11, ElsewhereStep
     DEF PSBTSignedQRDisplayView, At, Go, To, ToWith, Back, Skipping, Clearing, GoesBack
<1>12. CASE PSBTSigningErrorView
  BY <1>12, ElsewhereStep
     DEF PSBTSigningErrorView, At, Go, GoWith, To, ToWith, Back, Skipping, Clearing, GoesBack
<1> QED BY <1>1, <1>2, <1>3, <1>4, <1>5, <1>6, <1>7, <1>8, <1>9, <1>10, <1>11, <1>12
           DEF PsbtViews

LEMMA SharedViewsKeepSeeds ==
  ASSUME IInv, SeedInv, SharedViews PROVE SeedInv'
<1> USE DEF ScreensOfASeed, WordScreens, TypingScreens, FinalWordScreens, PassphraseScreens, Elsewhere
<1>1. CASE MainMenuView
  BY <1>1, ElsewhereStep
     DEF MainMenuView, At, Choose, Go, To, ToWith, Back, Skipping, Clearing, GoesBack
<1>2. CASE PowerOptionsView
  BY <1>2, ElsewhereStep
     DEF PowerOptionsView, At, Go, Choose, To, ToWith, Back, Skipping, Clearing, GoesBack
<1>3. CASE PowerOffView
  BY <1>3, ElsewhereStep
     DEF PowerOffView, At, Go, To, ToWith, Back, Skipping, Clearing, GoesBack
<1>4. CASE RestartView
  <2>1. /\ view' = Home /\ backStack' = << >> /\ storage' = FreshStorage
    BY <1>4 DEF RestartView
  <2>2. FreshStorage \in StorageType /\ \A e : NoPassphraseUnseen(FreshStorage, e)
    BY DEF FreshStorage, StorageType, NoPassphraseUnseen
  <2>3. Len(<< >>) = 0
    OBVIOUS
  <2>4. EntriesOK' /\ StackedOK' /\ TypedOK'
    BY <2>1, <2>3 DEF EntriesOK, StackedOK, TypedOK, Places
  <2>5. NoPassphraseUnseen(storage, view)'
    BY Zenon, <2>1, <2>2 DEF NoPassphraseUnseen
  <2> QED BY <2>1, <2>2, <2>4, <2>5 DEF SeedInv
<1>5. CASE UnhandledExceptionView
  BY <1>5, ElsewhereStep
     DEF UnhandledExceptionView, At, Go, To, ToWith, Back, Skipping, Clearing, GoesBack
<1>6. CASE WarnAndGoHome
  BY <1>6, ElsewhereStep
     DEF WarnAndGoHome, At, Go, To, ToWith, Back, Skipping, Clearing, GoesBack
<1>7. CASE ErrorView
  BY <1>7, ElsewhereStep DEF ErrorView, At, Go, To, ToWith, Back, Skipping, Clearing, GoesBack
<1> QED BY <1>1, <1>2, <1>3, <1>4, <1>5, <1>6, <1>7 DEF SharedViews

LEMMA SeedChoicesKeepSeeds ==
  ASSUME IInv, SeedInv, ScanComesToNothing \/ SeedsMenuView \/ LoadSeedView \/ SeedSelectSeedView
  PROVE  SeedInv'
<1>0. \A seed \in storage.seeds : seed \in Seeds
  BY DEF SeedInv, StorageType, ValidSeeds
<1> USE DEF ScreensOfASeed, WordScreens, TypingScreens, FinalWordScreens, PassphraseScreens, Elsewhere
<1>1. CASE ScanComesToNothing
  BY Zenon, <1>1, ElsewhereStep
     DEF ScanComesToNothing, AtAnyScanner, ScannerFor, Go, ChooseLeaving, GoWith,
     Choose, RaiseError, To, ToWith, Clearing, GoesBack
<1>2. CASE SeedsMenuView
  <2>0. view.cls = "SeedsMenuView" /\ ~IsFinishing(view)
    BY <1>2 DEF SeedsMenuView, At, IsFinishing
  <2>1. CASE \E seed \in storage.seeds : ChooseWith("SeedOptionsView", [seed |-> seed])
    BY Zenon, <1>0, <2>0, <2>1, OfASeedStep
    DEF ChooseWith, Go, To, ToWith, GoesBack, Leads, ArgsOK, NeedsPending, IsFinishing, Entry
  <2>2. CASE Go(Clearing(To("LoadSeedView"))) \/ Go(Back) \/ Choose("LoadSeedView")
    BY <2>0, <2>2, ElsewhereStep DEF Choose, Go, To, Back, Clearing, GoesBack
  <2> QED BY <1>2, <2>1, <2>2 DEF SeedsMenuView
<1>3. CASE LoadSeedView
  <2>0. view.cls = "LoadSeedView" /\ ~IsFinishing(view)
    BY <1>3 DEF LoadSeedView, At, IsFinishing
  <2>1. CASE LoadASeed("ScanSeedQRView", controller)
    BY <2>0, <2>1, LoadASeedKeeps
  <2>2. CASE Go(Back) \/ Choose("ToolsMenuView")
    BY <2>0, <2>2, ElsewhereStep DEF Choose, Go, To, Back, GoesBack
  <2> QED BY <1>3, <2>1, <2>2 DEF LoadSeedView
<1>4. CASE SeedSelectSeedView
  <2>0. view.cls = "SeedSelectSeedView" /\ ~IsFinishing(view)
    BY <1>4 DEF SeedSelectSeedView, At, IsFinishing
  <2>1. CASE LoadASeed("ScanView", [controller EXCEPT !.resume = view.args.flow])
    BY <2>0, <2>1, LoadASeedKeeps
  <2>2. CASE \/ Raise \/ Go(Back)
             \/ \E seed \in storage.seeds :
                  \/ ChooseWith("SeedAddressVerificationView", [seed |-> seed])
                  \/ GoWith(To("SeedSignMessageConfirmMessageView"),
                            [controller EXCEPT !.signData.seed = seed])
    BY Zenon, <2>0, <2>2, ElsewhereStep
    DEF Raise, RaiseError, ChooseWith, Go, GoWith, To, ToWith, Back, Clearing, GoesBack
  <2> QED BY Zenon, <1>4, <2>1, <2>2 DEF SeedSelectSeedView
<1> QED BY <1>1, <1>2, <1>3, <1>4

LEMMA SeedOptionsKeepsSeeds ==
  ASSUME IInv, SeedInv, SeedOptionsView PROVE SeedInv'
<1> DEFINE seed == view.args.seed
<1>0. view.cls = "SeedOptionsView" /\ ~IsFinishing(view) /\ seed \in Seeds /\ None \notin Seeds
  BY ViewIsOK, NoneAssumption
  DEF SeedOptionsView, At, IsFinishing, PassphraseScreens, ArgsOK, ScreensOfASeed
<1> HIDE DEF seed
<1> USE DEF ScreensOfASeed, WordScreens, TypingScreens, FinalWordScreens, PassphraseScreens, Elsewhere
<1>1. CASE \E cls \in {"SeedBackupView", "SeedBIP85SelectNumWordsView", "SeedDiscardView"} :
             ChooseWith(cls, [seed |-> seed])
  <2>1. PICK cls \in {"SeedBackupView", "SeedBIP85SelectNumWordsView", "SeedDiscardView"} :
          Go(ToWith(cls, [seed |-> seed]))
    BY <1>1 DEF ChooseWith
  <2> DEFINE d == ToWith(cls, [seed |-> seed])
  <2>2. Entry(d).cls = cls /\ Entry(d).args = [seed |-> seed] /\ ~GoesBack(d)
    BY DEF ToWith, To, Entry, GoesBack
  <2>3. Turn(d, controller, storage, {})
    BY <2>1 DEF Go
  <2> HIDE DEF d
  <2>4. ArgsOK(Entry(d))
    BY <1>0, <2>2 DEF ArgsOK
  <2>5. ~NeedsPending(Entry(d))
    BY <1>0, <2>2, NoneAssumption DEF NeedsPending, IsFinishing
  <2>6. Leads(Entry(d))
    BY <2>2, <2>4, <2>5 DEF Leads
  <2> QED BY <1>0, <2>2, <2>3, <2>6, OfASeedStep
<1>2. CASE SeedOptionsMenu(seed)
  BY <1>0, <1>1, <1>2, ElsewhereStep
  DEF SeedOptionsMenu, ChooseWith, Go, GoWith, ChooseLeaving, To, ToWith, GoesBack
<1>3. CASE ResumeFlow(seed)
  BY Zenon, <1>0, <1>3, ElsewhereStep
  DEF ResumeFlow, Raise, RaiseError, Go, GoWith, To, ToWith, Skipping, Clearing, GoesBack
<1> QED BY <1>2, <1>3 DEF SeedOptionsView, seed

LEMMA ToolsKeepSeeds ==
  ASSUME IInv, SeedInv, ToolsMenuView \/ CollectEntropy PROVE SeedInv'
<1> USE DEF ScreensOfASeed, WordScreens, TypingScreens, FinalWordScreens, PassphraseScreens, Elsewhere
<1>1. CASE ToolsMenuView
  BY <1>1, ElsewhereStep DEF ToolsMenuView, At, Choose, Go, To, Back, GoesBack
<1>2. CASE CollectEntropy
  BY <1>2, ElsewhereStep DEF CollectEntropy, EntropyScreens, Choose, Go, To, Back, GoesBack
<1> QED BY <1>1, <1>2

-----------------------------------------------------------------------------
(* Seeds: the specification. *)

LEMMA InitSeedInv == Init => SeedInv
<1> SUFFICES ASSUME Init PROVE SeedInv
  OBVIOUS
<1>1. Len(<< >>) = 0
  OBVIOUS
<1>2. EntriesOK /\ StackedOK /\ TypedOK
  BY <1>1 DEF Init, EntriesOK, StackedOK, TypedOK, Places
<1> QED BY <1>2 DEF Init, SeedInv, FreshStorage, StorageType, NoPassphraseUnseen

LEMMA NextSeedInv == IInv /\ SeedInv /\ [Next]_vars => SeedInv'
<1> SUFFICES ASSUME IInv, SeedInv, [Next]_vars PROVE SeedInv'
  OBVIOUS
<1>1. CASE SeedViews
  BY <1>1, ScanSeedKeeps, SeedChoicesKeepSeeds, EntryKeeps, InvalidKeeps, ElectrumStartKeeps,
     FinalizeViewsKeepSeeds, DiscardKeeps, SeedOptionsKeepsSeeds DEF SeedViews
<1>2. CASE NewSeedViews
  BY <1>2, ToolsKeepSeeds, GenerateSeedKeeps, NumWordsKeeps, FinalizePromptKeeps,
     CoinFlipsKeeps,
     ShowFinalWordKeeps, FinalWordDoneKeeps DEF NewSeedViews
<1>3. CASE Views
  BY <1>1, <1>2, <1>3, SharedViewsKeepSeeds, WordsViewsKeepSeeds, SeedQRViewsKeepSeeds,
     VerificationViewsKeepSeeds, ExplorerViewsKeepSeeds, PsbtViewsKeepSeeds, MessageViewsKeepSeeds
  DEF Views
<1>4. CASE UNCHANGED <<view, backStack, storage>>
  BY <1>4 DEF SeedInv, EntriesOK, StackedOK, TypedOK, Places
<1> QED BY <1>3, <1>4 DEF Next, UserWantsOut, vars

-----------------------------------------------------------------------------
(* Which seeds a step adds. *)

LEMMA TurnsAddNoSeed ==
  \A d, temps, stored, displayed :
    Turn(d, temps, stored, displayed) /\ stored.seeds \subseteq storage.seeds => AddsNoSeed
  BY DEF Turn, AddsNoSeed

LEMMA SharedViewsAddNoSeed ==
  ASSUME storage \in StorageType, SharedViews PROVE AddsNoSeed
<1>1. CASE MainMenuView
  BY <1>1, TurnsAddNoSeed DEF MainMenuView, Choose, Go
<1>2. CASE PowerOptionsView
  BY <1>2, TurnsAddNoSeed DEF PowerOptionsView, At, Go, Choose
<1>3. CASE PowerOffView
  BY <1>3, TurnsAddNoSeed DEF PowerOffView, At, Go
<1>4. CASE RestartView
  BY <1>4 DEF RestartView, FreshStorage, AddsNoSeed
<1>5. CASE UnhandledExceptionView
  BY <1>5, TurnsAddNoSeed DEF UnhandledExceptionView, At, Go
<1>6. CASE WarnAndGoHome
  BY <1>6, TurnsAddNoSeed DEF WarnAndGoHome, At, Go
<1>7. CASE ErrorView
  BY <1>7, TurnsAddNoSeed DEF ErrorView, At, Go
<1> QED BY <1>1, <1>2, <1>3, <1>4, <1>5, <1>6, <1>7 DEF SharedViews

LEMMA WordsViewsAddNoSeed ==
  ASSUME storage \in StorageType, WordsViews PROVE AddsNoSeed
<1>1. CASE SeedBackupView
  BY <1>1, TurnsAddNoSeed DEF SeedBackupView, At, Go, ChooseWith
<1>2. CASE SeedWordsWarningView
  BY <1>2, TurnsAddNoSeed DEF SeedWordsWarningView, At, Go, ChooseSkipping
<1>3. CASE SeedWordsView
  BY <1>3, TurnsAddNoSeed DEF SeedWordsView, At, Go, ChooseWith
<1>4. CASE BIP85Views
  BY <1>4, TurnsAddNoSeed DEF BIP85Views, At, Go, ChooseWith, ChooseSkipping
<1>5. CASE SeedWordsBackupTestPromptView
  BY <1>5, TurnsAddNoSeed DEF SeedWordsBackupTestPromptView, At, Go
<1>6. CASE SeedWordsBackupTestView
  BY <1>6, TurnsAddNoSeed DEF SeedWordsBackupTestView, At, ChooseWith, Go
<1>7. CASE SeedWordsBackupTestMistakeView
  BY <1>7, TurnsAddNoSeed DEF SeedWordsBackupTestMistakeView, At, ChooseWith, Go
<1>8. CASE SeedWordsBackupTestSuccessView
  BY <1>8, TurnsAddNoSeed DEF SeedWordsBackupTestSuccessView, At, Go
<1> QED BY <1>1, <1>2, <1>3, <1>4, <1>5, <1>6, <1>7, <1>8 DEF WordsViews

LEMMA SeedQRViewsAddNoSeed ==
  ASSUME storage \in StorageType, SeedQRViews PROVE AddsNoSeed
<1>1. CASE SeedTranscribeSeedQRFormatView
  BY <1>1, TurnsAddNoSeed DEF SeedTranscribeSeedQRFormatView, At, Go, ChooseWith
<1>2. CASE SeedTranscribeSeedQRWarningView
  BY <1>2, TurnsAddNoSeed DEF SeedTranscribeSeedQRWarningView, At, Go, ChooseSkipping
<1>3. CASE SeedTranscribeSeedQRWholeQRView
  BY <1>3, TurnsAddNoSeed DEF SeedTranscribeSeedQRWholeQRView, At, Go, ChooseWith
<1>4. CASE SeedTranscribeSeedQRZoomedInView
  BY <1>4, TurnsAddNoSeed DEF SeedTranscribeSeedQRZoomedInView, At, Go
<1>5. CASE SeedTranscribeSeedQRConfirmQRPromptView
  BY <1>5, TurnsAddNoSeed DEF SeedTranscribeSeedQRConfirmQRPromptView, At, Go, ChooseWith
<1>6. CASE SeedTranscribeSeedQRConfirmScanView
  BY <1>6, TurnsAddNoSeed DEF SeedTranscribeSeedQRConfirmScanView, At, Go
<1>7. CASE SeedTranscribeSeedQRRejected
  BY <1>7, TurnsAddNoSeed DEF SeedTranscribeSeedQRRejected, At, Go
<1>8. CASE SeedTranscribeSeedQRConfirmSuccessView
  BY <1>8, TurnsAddNoSeed DEF SeedTranscribeSeedQRConfirmSuccessView, At, Go
<1> QED BY <1>1, <1>2, <1>3, <1>4, <1>5, <1>6, <1>7, <1>8 DEF SeedQRViews

LEMMA VerificationViewsAddNoSeed ==
  ASSUME storage \in StorageType, VerificationViews PROVE AddsNoSeed
<1>1. CASE ScanAddress
  BY <1>1, TurnsAddNoSeed DEF ScanAddress, Go
<1>2. CASE AddressVerificationStartView
  BY <1>2, TurnsAddNoSeed DEF AddressVerificationStartView, At, GoWith
<1>3. CASE AddressVerificationSigTypeView
  BY <1>3, TurnsAddNoSeed DEF AddressVerificationSigTypeView, At, GoWith, Raise, RaiseError, Go
<1>4. CASE SeedAddressVerificationView
  BY <1>4, TurnsAddNoSeed DEF SeedAddressVerificationView, At, Raise, RaiseError, Go, Choose
<1>5. CASE SeedAddressVerificationSuccessView
  BY <1>5, TurnsAddNoSeed DEF SeedAddressVerificationSuccessView, At, Go
<1>6. CASE ScanDescriptor
  BY <1>6, TurnsAddNoSeed DEF ScanDescriptor, GoWith
<1>7. CASE LoadMultisigWalletDescriptorView
  BY <1>7, TurnsAddNoSeed DEF LoadMultisigWalletDescriptorView, At, Choose, Go
<1>8. CASE MultisigWalletDescriptorView
  BY <1>8, TurnsAddNoSeed DEF MultisigWalletDescriptorView, At, GoWith, ReturnToFlow, Go
<1> QED BY <1>1, <1>2, <1>3, <1>4, <1>5, <1>6, <1>7, <1>8 DEF VerificationViews

LEMMA ExplorerViewsAddNoSeed ==
  ASSUME storage \in StorageType, ExplorerViews PROVE AddsNoSeed
<1>0. InitPendingMnemonic(FALSE).seeds = storage.seeds
  BY Zenon, InitStored
<1>1. CASE SeedExportXpubSigTypeView
  BY Zenon, <1>1, TurnsAddNoSeed DEF SeedExportXpubSigTypeView, At, Go, ChooseWith
<1>2. CASE SeedExportXpubScriptTypeView
  BY <1>2, TurnsAddNoSeed DEF SeedExportXpubScriptTypeView, At, Go, BackFromExplorer, GoWith,
    ChooseWith
<1>3. CASE SeedExportXpubCustomDerivationView
  BY <1>3, TurnsAddNoSeed DEF SeedExportXpubCustomDerivationView, At, Go
<1>4. CASE ExportXpub
  BY <1>4, TurnsAddNoSeed DEF ExportXpub, At, Go, ChooseWith, ChooseSkipping
<1>5. CASE ToolsAddressExplorerSelectSourceView
  BY Zenon, <1>0, <1>5, TurnsAddNoSeed
     DEF ToolsAddressExplorerSelectSourceView, At, Go, GoWith, ChooseLeaving,
    LoadASeed
<1>6. CASE ToolsAddressExplorerAddressTypeView
  BY Zenon, <1>6, TurnsAddNoSeed DEF ToolsAddressExplorerAddressTypeView, At, GoWith
<1>7. CASE ToolsAddressExplorerAddressListView
  BY <1>7, TurnsAddNoSeed DEF ToolsAddressExplorerAddressListView, At, Raise, RaiseError, Go,
    ChooseWith, ChooseSkipping
<1>8. CASE ToolsAddressExplorerAddressView
  BY <1>8, TurnsAddNoSeed DEF ToolsAddressExplorerAddressView, At, Go
<1> QED BY <1>1, <1>2, <1>3, <1>4, <1>5, <1>6, <1>7, <1>8 DEF ExplorerViews

LEMMA PsbtViewsAddNoSeed ==
  ASSUME storage \in StorageType, PsbtViews PROVE AddsNoSeed
<1>0. InitPendingMnemonic(FALSE).seeds = storage.seeds
  BY Zenon, InitStored
<1>1. CASE ScanPsbt
  BY <1>1, TurnsAddNoSeed DEF ScanPsbt, GoWith
<1>2. CASE PSBTSelectSeedView
  BY Zenon, <1>0, <1>2, TurnsAddNoSeed
     DEF PSBTSelectSeedView, At, Raise, RaiseError, Go, ChooseLeaving,
    GoWith, LoadASeed
<1>3. CASE PSBTOverviewView
  BY <1>3, TurnsAddNoSeed
     DEF PSBTOverviewView, At, OverviewScreen, GoWith, ChooseLeaving, Raise,
    RaiseError, Go
<1>4. CASE PSBTRejected
  BY <1>4, TurnsAddNoSeed DEF PSBTRejected, At, Go
<1>5. CASE PSBTNoChangeWarningView
  BY <1>5, TurnsAddNoSeed DEF PSBTNoChangeWarningView, At, Go, ChooseSkipping
<1>6. CASE PSBTMathView
  BY <1>6, TurnsAddNoSeed DEF PSBTMathView, At, Go
<1>7. CASE PSBTAddressDetailsView
  BY <1>7, TurnsAddNoSeed
     DEF PSBTAddressDetailsView, At, Raise, RaiseError, Go, Show, ShowOnward
<1>8. CASE PSBTChangeDetailsView
  BY <1>8, TurnsAddNoSeed DEF PSBTChangeDetailsView, At, Go, Raise, RaiseError,
    PSBTChangeDetailsScreen, Show, ShowOnward
<1>9. CASE PSBTOpReturnView
  BY <1>9, TurnsAddNoSeed DEF PSBTOpReturnView, At, Raise, RaiseError, Go, Show, ShowOnward
<1>10. CASE PSBTFinalizeView
  BY <1>10, TurnsAddNoSeed DEF PSBTFinalizeView, At, Go, Choose, ChooseLeaving, GoWith
<1>11. CASE PSBTSignedQRDisplayView
  BY <1>11, TurnsAddNoSeed DEF PSBTSignedQRDisplayView, At, Go
<1>12. CASE PSBTSigningErrorView
  BY <1>12, TurnsAddNoSeed DEF PSBTSigningErrorView, At, Go, GoWith
<1> QED BY <1>1, <1>2, <1>3, <1>4, <1>5, <1>6, <1>7, <1>8, <1>9, <1>10, <1>11, <1>12 DEF
    PsbtViews

LEMMA MessageViewsAddNoSeed ==
  ASSUME storage \in StorageType, MessageViews PROVE AddsNoSeed
<1>1. CASE ScanMessage
  BY <1>1, TurnsAddNoSeed DEF ScanMessage, Go
<1>2. CASE SeedSignMessageStartView
  BY <1>2, TurnsAddNoSeed DEF SeedSignMessageStartView, At, GoWith
<1>3. CASE SeedSignMessageConfirmMessageView
  BY <1>3, TurnsAddNoSeed DEF SeedSignMessageConfirmMessageView, At, Raise, RaiseError, Go,
    ConfirmMessageScreen
<1>4. CASE SeedSignMessageConfirmAddressView
  BY <1>4, TurnsAddNoSeed DEF SeedSignMessageConfirmAddressView, At, Raise, RaiseError, Go
<1>5. CASE SeedSignMessageSignedMessageQRView
  BY <1>5, TurnsAddNoSeed DEF SeedSignMessageSignedMessageQRView, At, GoWith
<1> QED BY <1>1, <1>2, <1>3, <1>4, <1>5 DEF MessageViews

LEMMA SeedViewsAddPending ==
  ASSUME storage \in StorageType, SeedViews
  PROVE  AddsNoSeed \/ (AddsPending /\ view.cls \in {"SeedFinalizeView", "SeedReviewPassphraseView"})
<1>0. /\ \A e \in BOOLEAN : InitPendingMnemonic(e).seeds = storage.seeds
      /\ DiscardPendingMnemonic.seeds = storage.seeds
      /\ \A seed : WithPending(seed).seeds = storage.seeds /\ DiscardSeed(seed).seeds \subseteq storage.seeds
      /\ \A p : WithPassphrase(p).seeds = storage.seeds
      /\ FinalizePendingSeed.seeds = storage.seeds \union {storage.pendingSeed}
      /\ \A word, index : UpdatePendingMnemonic(word, index).seeds = storage.seeds
      /\ \A st : ConvertPendingMnemonic(st).seeds = st.seeds
  BY DEF InitPendingMnemonic, DiscardPendingMnemonic, WithPending, DiscardSeed, WithPassphrase,
         FinalizePendingSeed, UpdatePendingMnemonic, ConvertPendingMnemonic, StorageType
<1>1. CASE ScanComesToNothing
  BY <1>1, TurnsAddNoSeed DEF ScanComesToNothing, Go, ChooseLeaving, GoWith, Choose, RaiseError
<1>2. CASE ScanSeed
  BY Zenon, <1>0, <1>2, TurnsAddNoSeed DEF ScanSeed, GoStoring
<1>3. CASE SeedsMenuView
  BY Zenon, <1>3, TurnsAddNoSeed DEF SeedsMenuView, Go, ChooseWith, Choose
<1>4. CASE LoadSeedView
  BY Zenon, <1>0, <1>4, TurnsAddNoSeed DEF LoadSeedView, Go, LoadASeed, ChooseLeaving, GoWith, Choose
<1>5. CASE SeedSelectSeedView
  BY Zenon, <1>0, <1>5, TurnsAddNoSeed
     DEF SeedSelectSeedView, Go, ChooseWith, Raise, RaiseError, GoWith,
    LoadASeed, ChooseLeaving
<1>6. CASE SeedMnemonicEntryView
  BY <1>0, <1>6, TurnsAddNoSeed DEF SeedMnemonicEntryView, GoStoring, NextAfterWord, Raise,
    RaiseError, Go
<1>7. CASE SeedMnemonicInvalidView
  BY <1>0, <1>7, TurnsAddNoSeed DEF SeedMnemonicInvalidView, ChooseWith, Go, GoStoring
<1>8. CASE SeedElectrumMnemonicStartView
  BY Zenon, <1>0, <1>8, TurnsAddNoSeed DEF SeedElectrumMnemonicStartView, GoStoring
<1>9. CASE KeepSeed /\ (SeedFinalizeView \/ SeedReviewPassphraseView)
  BY <1>0, <1>9
  DEF KeepSeed, GoStoring, Turn, AddsPending, SeedFinalizeView, SeedReviewPassphraseView, At
<1>10. CASE SeedFinalizeView \/ SeedReviewPassphraseView
  BY <1>9, <1>10, TurnsAddNoSeed DEF SeedFinalizeView, SeedReviewPassphraseView, Choose, Go
<1>11. CASE SeedAddPassphraseView
  BY Zenon, <1>0, <1>11, TurnsAddNoSeed DEF SeedAddPassphraseView, GoStoring
<1>12. CASE SeedAddPassphraseExitDialogView
  BY Zenon, <1>0, <1>12, TurnsAddNoSeed DEF SeedAddPassphraseExitDialogView, Choose, Go, GoStoring
<1>13. CASE SeedDiscardView
  BY <1>0, <1>13, TurnsAddNoSeed DEF SeedDiscardView, Go, GoStoring, ClearPendingSeed
<1>14. CASE SeedOptionsView
  BY <1>14, TurnsAddNoSeed DEF SeedOptionsView, SeedOptionsMenu, Go, ChooseLeaving, GoWith,
    ChooseWith, ResumeFlow, Raise, RaiseError
<1> QED BY <1>1, <1>2, <1>3, <1>4, <1>5, <1>6, <1>7, <1>8, <1>10, <1>11, <1>12, <1>13, <1>14
           DEF SeedViews

LEMMA NewSeedViewsAddNoSeed ==
  ASSUME storage \in StorageType, NewSeedViews PROVE AddsNoSeed
<1>0. /\ InitPendingMnemonic(FALSE).seeds = storage.seeds
      /\ \A seed : WithPending(seed).seeds = storage.seeds
      /\ \A word, index : UpdatePendingMnemonic(word, index).seeds = storage.seeds
      /\ ConvertPendingMnemonic(storage).seeds = storage.seeds
      /\ \A m : [storage EXCEPT !.pendingMnemonic = m].seeds = storage.seeds
  BY DEF InitPendingMnemonic, WithPending, UpdatePendingMnemonic, ConvertPendingMnemonic,
         StorageType
<1>1. CASE ToolsMenuView
  BY <1>1, TurnsAddNoSeed DEF ToolsMenuView, Go, Choose
<1>2. CASE CollectEntropy
  BY <1>2, TurnsAddNoSeed DEF CollectEntropy, Go, Choose
<1>3. CASE GenerateSeed
  BY Zenon, <1>0, <1>3, TurnsAddNoSeed DEF GenerateSeed, Go, GoStoring
<1>4. CASE ToolsCalcFinalWordNumWordsView
  BY Zenon, <1>0, <1>4, TurnsAddNoSeed DEF ToolsCalcFinalWordNumWordsView, Go, GoStoring
<1>5. CASE ToolsCalcFinalWordFinalizePromptView
  <2>1. \A d, st : GoStoring(d, st) /\ st.seeds = storage.seeds => AddsNoSeed
    BY TurnsAddNoSeed DEF GoStoring
  <2>2. \A d : Go(d) => AddsNoSeed
    BY TurnsAddNoSeed DEF Go
  <2> DEFINE last == Len(storage.pendingMnemonic) - 1
  <2>3. ASSUME NEW d, NEW word, GoStoring(d, UpdatePendingMnemonic(word, last)) PROVE AddsNoSeed
    BY <1>0, <2>1, <2>3
  <2>4. CASE \E zero \in Words :
               GoStoring(ToWith("ToolsCalcFinalWordShowFinalWordView", [bits |-> zero]),
                         UpdatePendingMnemonic(zero, last))
    BY <2>3, <2>4
  <2>5. CASE \/ Go(Back) \/ Choose("ToolsCalcFinalWordCoinFlipsView")
             \/ GoStoring(ToWith("SeedMnemonicEntryView", [index |-> last, calc |-> TRUE]),
                          UpdatePendingMnemonic(None, last))
    BY <2>2, <2>3, <2>5 DEF Choose
  <2> QED BY Zenon, <1>5, <2>4, <2>5 DEF ToolsCalcFinalWordFinalizePromptView
<1>6. CASE ToolsCalcFinalWordCoinFlipsView
  BY Zenon, <1>6, TurnsAddNoSeed DEF ToolsCalcFinalWordCoinFlipsView, Go, ChooseWith
<1>7. CASE ToolsCalcFinalWordShowFinalWordView
  BY Zenon, <1>0, <1>7, TurnsAddNoSeed
     DEF ToolsCalcFinalWordShowFinalWordView, GoStoring, ChooseStoring
<1>8. CASE ToolsCalcFinalWordDoneView
  BY <1>0, <1>8, TurnsAddNoSeed DEF ToolsCalcFinalWordDoneView, Go, ChooseStoring, GoStoring
<1> QED BY <1>1, <1>2, <1>3, <1>4, <1>5, <1>6, <1>7, <1>8 DEF NewSeedViews

-----------------------------------------------------------------------------
(* What the flows promise. *)

LEMMA SeedsSpec == Spec => [](IInv /\ SeedInv)
<1>1. Init => IInv /\ SeedInv
  BY InitIInv, InitSeedInv
<1>2. IInv /\ SeedInv /\ [Next]_vars => (IInv /\ SeedInv)'
  BY NextIInv, NextSeedInv
<1> QED BY <1>1, <1>2, PTL DEF Spec

\* Every View that finalizes, names, shows or completes a seed finds the pending seed,
\* or the mnemonic being typed, however the user got there: BACK from a View that
\* discards the one or turns it into the other never leads to a View that needs it.
THEOREM WorkIsThere == Spec => []WorkInProgressIsThere
<1>1. ASSUME IInv, SeedInv PROVE WorkInProgressIsThere
  <2>1. (NeedsPending(view) => storage.pendingSeed # None) /\ (~IsFinishing(view) => Typed(view, storage))
    BY <1>1, ViewIsOK
  <2> QED BY <2>1 DEF WorkInProgressIsThere, NeedsPending, IsFinishing, PassphraseScreens,
                 WordScreens,
        Typed, FinalWordScreens
<1> QED BY SeedsSpec, <1>1, PTL

\* SeedStorage holds no seed whose words do not pass the checksum of its kind, be
\* they scanned, generated, typed, or completed by a calculated last word.
THEOREM ValidSeedsOnly == Spec => []SeedsAreValid
<1>1. SeedInv => SeedsAreValid
  BY DEF SeedInv, SeedsAreValid, StorageType, ValidSeeds
<1> QED BY SeedsSpec, <1>1, PTL

\* A step that adds a seed with a passphrase to those in memory is one from the
\* screen that shows the passphrase: what is discarded in the exit dialog, or left
\* by way of the discard screen, is not in the seed that is kept.
THEOREM PassphraseTheorem == Spec => PassphrasesAreReviewed
<1> DEFINE Reviewed == \A seed \in storage'.seeds \ storage.seeds :
                         seed.passphrase # "" => view.cls = "SeedReviewPassphraseView"
<1>1. ASSUME IInv, SeedInv, [Next]_vars PROVE [Reviewed]_vars
  <2>1. storage \in StorageType
    BY <1>1 DEF SeedInv
  <2>2. CASE AddsNoSeed
    BY Zenon, <2>2 DEF AddsNoSeed
  <2>3. CASE AddsPending /\ view.cls \in {"SeedFinalizeView", "SeedReviewPassphraseView"}
    <3>1. storage.pendingSeed # None
      BY <1>1, <2>3, ViewIsOK DEF NeedsPending, IsFinishing, PassphraseScreens
    <3>2. view.cls = "SeedFinalizeView" => ~(storage.pendingSeed.passphrase # "")
      BY Zenon, <1>1, <3>1 DEF SeedInv, NoPassphraseUnseen, PassphraseScreens
    <3> QED BY Zenon, <2>3, <3>2 DEF AddsPending
  <2>4. CASE UserWantsOut \/ UNCHANGED vars
    BY Zenon, <2>4 DEF UserWantsOut, vars
  <2>5. CASE Views
    BY Zenon, <2>1, <2>2, <2>3, <2>5, SharedViewsAddNoSeed, SeedViewsAddPending, NewSeedViewsAddNoSeed,
       WordsViewsAddNoSeed, SeedQRViewsAddNoSeed, VerificationViewsAddNoSeed, ExplorerViewsAddNoSeed,
       PsbtViewsAddNoSeed, MessageViewsAddNoSeed DEF Views
  <2> QED BY Zenon, <1>1, <2>4, <2>5 DEF Next
<1> QED BY SeedsSpec, <1>1, PTL DEF Spec, PassphrasesAreReviewed

-----------------------------------------------------------------------------
(* What has been on the screen, entry by entry of the stack. *)

\* Where a turn that does not end at Home leaves the stack, entry by entry.
LEMMA EntriesAfter ==
  ASSUME IInv, NEW d, NEW temps, NEW stored, NEW displayed, d.skip => view.cls # "MainMenuView",
         Turn(d, temps, stored, displayed)
  PROVE  \/ Len(backStack') = 0 /\ shown' = {}
         \/ /\ shown' = shown \union displayed
            /\ \A i \in 1..Len(backStack') :
                 \/ \E j \in 1..Len(backStack) : backStack'[i] = backStack[j]
                 \/ ~GoesBack(d) /\ backStack'[i] = Entry(d)
<1>1. CASE backStack' = << >> /\ shown' = {}
  <2>1. Len(<< >>) = 0
    OBVIOUS
  <2> QED BY <1>1, <2>1
<1>2. ASSUME NEW m, Landed(d, m), shown' = shown \union displayed
      PROVE  \A i \in 1..Len(backStack') :
               \/ \E j \in 1..Len(backStack) : backStack'[i] = backStack[j]
               \/ ~GoesBack(d) /\ backStack'[i] = Entry(d)
  <2>1. SUFFICES ASSUME NEW i \in 1..(m + 1)
                 PROVE  \/ \E j \in 1..Len(backStack) : backStack'[i] = backStack[j]
                        \/ ~GoesBack(d) /\ backStack'[i] = Entry(d)
    BY <1>2 DEF Landed
  <2>2. Len(backStack) \in Nat /\ m \in 0..Len(backStack)
    BY <1>2, ViewIsOnTop DEF Landed
  <2>3. CASE i \in 1..m
    BY <1>2, <2>2, <2>3 DEF Landed
  <2>4. CASE i = m + 1
    BY <1>2, <2>2, <2>4 DEF Landed
  <2> QED BY <2>2, <2>3, <2>4
<1> QED BY <1>1, <1>2, Landing

-----------------------------------------------------------------------------
(* The backup test. *)

\* A confirmation is never taken back but at Home.
LEMMA ConfirmsMore ==
  ASSUME NEW e, NEW s, Confirms(e, s), NEW t, s \subseteq t PROVE Confirms(e, t)
  BY DEF Confirms

LEMMA BackupTurn ==
  ASSUME IInv, BackupInv, view.cls # "MainMenuView", NEW d, NEW temps, NEW stored, NEW displayed,
         GoesBack(d) \/ Confirms(Entry(d), shown \union displayed),
         Turn(d, temps, stored, displayed)
  PROVE  BackupInv'
<1>1. CASE Len(backStack') = 0
  BY <1>1 DEF BackupInv
<1>2. CASE /\ shown' = shown \union displayed
           /\ \A i \in 1..Len(backStack') :
                \/ \E j \in 1..Len(backStack) : backStack'[i] = backStack[j]
                \/ ~GoesBack(d) /\ backStack'[i] = Entry(d)
  <2>1. \A j \in 1..Len(backStack) : Confirms(backStack[j], shown \union displayed)
    BY ConfirmsMore DEF BackupInv
  <2> QED BY Zenon, <1>2, <2>1 DEF BackupInv
<1> QED BY <1>1, <1>2, EntriesAfter

LEMMA NoBackupTurn ==
  ASSUME IInv, BackupInv
  PROVE  \A d, temps, stored, displayed :
           /\ d.skip => view.cls # "MainMenuView"
           /\ GoesBack(d) \/ NoBackup(d.cls)
           /\ Turn(d, temps, stored, displayed)
           => BackupInv'
<1> SUFFICES ASSUME NEW d, NEW temps, NEW stored, NEW displayed,
                    d.skip => view.cls # "MainMenuView", GoesBack(d) \/ NoBackup(d.cls),
                    Turn(d, temps, stored, displayed)
             PROVE  BackupInv'
  OBVIOUS
<1>1. CASE Len(backStack') = 0
  BY <1>1 DEF BackupInv
<1>2. CASE /\ shown' = shown \union displayed
           /\ \A i \in 1..Len(backStack') :
                \/ \E j \in 1..Len(backStack) : backStack'[i] = backStack[j]
                \/ ~GoesBack(d) /\ backStack'[i] = Entry(d)
  <2>1. \A j \in 1..Len(backStack) : Confirms(backStack[j], shown \union displayed)
    BY ConfirmsMore DEF BackupInv
  <2>2. NoBackup(d.cls) => Confirms(Entry(d), shown \union displayed)
    BY DEF NoBackup, BackupScreens, Confirms, Entry
  <2> QED BY Zenon, <1>2, <2>1, <2>2 DEF BackupInv
<1> QED BY <1>1, <1>2, EntriesAfter

LEMMA SharedViewsKeepBackup ==
  ASSUME IInv, BackupInv, SharedViews PROVE BackupInv'
<1> USE DEF NoBackup, BackupScreens
<1>1. CASE MainMenuView
  BY <1>1, NoBackupTurn
     DEF MainMenuView, Choose, Go, To, ToWith, Back, Skipping, Clearing, GoesBack
<1>2. CASE PowerOptionsView
  BY <1>2, NoBackupTurn
     DEF PowerOptionsView, At, Go, Choose, To, ToWith, Back, Skipping, Clearing, GoesBack
<1>3. CASE PowerOffView
  BY <1>3, NoBackupTurn DEF PowerOffView, At, Go, To, ToWith, Back, Skipping, Clearing, GoesBack
<1>4. CASE RestartView
  <2>1. Len(<< >>) = 0
    OBVIOUS
  <2> QED BY <1>4, <2>1 DEF RestartView, BackupInv
<1>5. CASE UnhandledExceptionView
  BY <1>5, NoBackupTurn
     DEF UnhandledExceptionView, At, Go, To, ToWith, Back, Skipping, Clearing, GoesBack
<1>6. CASE WarnAndGoHome
  BY <1>6, NoBackupTurn
     DEF WarnAndGoHome, At, Go, To, ToWith, Back, Skipping, Clearing, GoesBack
<1>7. CASE ErrorView
  BY <1>7, NoBackupTurn DEF ErrorView, At, Go, To, ToWith, Back, Skipping, Clearing, GoesBack
<1> QED BY <1>1, <1>2, <1>3, <1>4, <1>5, <1>6, <1>7 DEF SharedViews

LEMMA SeedViewsKeepBackup ==
  ASSUME IInv, BackupInv, SeedViews PROVE BackupInv'
<1> USE DEF NoBackup, BackupScreens
<1>1. CASE ScanComesToNothing
  BY Zenon, <1>1, NoBackupTurn
     DEF ScanComesToNothing, Go, ChooseLeaving, GoWith, Choose, RaiseError, AtAnyScanner,
         ScannerFor, To, ToWith, Back, Skipping, Clearing, GoesBack
<1>2. CASE ScanSeed
  BY Zenon, <1>2, NoBackupTurn
     DEF ScanSeed, GoStoring, Scanned, Scanners, ScannerFor, To, ToWith, Back, Skipping,
         Clearing, GoesBack
<1>3. CASE SeedsMenuView
  BY Zenon, <1>3, NoBackupTurn
     DEF SeedsMenuView, At, Go, ChooseWith, Choose, To, ToWith, Back, Skipping, Clearing,
         GoesBack
<1>4. CASE LoadSeedView
  BY Zenon, <1>4, NoBackupTurn
     DEF LoadSeedView, At, Go, LoadASeed, ChooseLeaving, GoWith, Choose, To, ToWith, Back,
         Skipping, Clearing, GoesBack
<1>5. CASE SeedSelectSeedView
  BY Zenon, <1>5, NoBackupTurn
     DEF SeedSelectSeedView, At, Go, ChooseWith, Raise, RaiseError, GoWith, LoadASeed,
         ChooseLeaving, To, ToWith, Back, Skipping, Clearing, GoesBack
<1>6. CASE SeedMnemonicEntryView
  BY Zenon, <1>6, NoBackupTurn
     DEF SeedMnemonicEntryView, At, GoStoring, NextAfterWord, Raise, RaiseError, Go, To,
         ToWith, Back, Skipping, Clearing, GoesBack
<1>7. CASE SeedMnemonicInvalidView
  BY <1>7, NoBackupTurn
     DEF SeedMnemonicInvalidView, At, ChooseWith, Go, GoStoring, To, ToWith, Back, Skipping,
         Clearing, GoesBack
<1>8. CASE SeedElectrumMnemonicStartView
  BY Zenon, <1>8, NoBackupTurn
     DEF SeedElectrumMnemonicStartView, At, GoStoring, To, ToWith, Back, Skipping, Clearing,
         GoesBack
<1>9. CASE SeedFinalizeView
  BY Zenon, <1>9, NoBackupTurn
     DEF SeedFinalizeView, At, KeepSeed, GoStoring, Choose, Go, To, ToWith, Back, Skipping,
         Clearing, GoesBack
<1>10. CASE SeedAddPassphraseView
  BY Zenon, <1>10, NoBackupTurn
     DEF SeedAddPassphraseView, At, GoStoring, To, ToWith, Back, Skipping, Clearing, GoesBack
<1>11. CASE SeedAddPassphraseExitDialogView
  BY Zenon, <1>11, NoBackupTurn
     DEF SeedAddPassphraseExitDialogView, At, Choose, Go, GoStoring, To, ToWith, Back,
         Skipping, Clearing, GoesBack
<1>12. CASE SeedReviewPassphraseView
  BY Zenon, <1>12, NoBackupTurn
     DEF SeedReviewPassphraseView, At, KeepSeed, GoStoring, Choose, Go, To, ToWith, Back,
         Skipping, Clearing, GoesBack
<1>13. CASE SeedDiscardView
  BY <1>13, NoBackupTurn
     DEF SeedDiscardView, At, Go, GoStoring, To, ToWith, Back, Skipping, Clearing, GoesBack
<1>14. CASE SeedOptionsView
  BY Zenon, <1>14, NoBackupTurn
     DEF SeedOptionsView, At, SeedOptionsMenu, Go, ChooseLeaving, GoWith, ChooseWith,
         ResumeFlow, Raise, RaiseError, To, ToWith, Back, Skipping, Clearing, GoesBack
<1> QED BY <1>1, <1>2, <1>3, <1>4, <1>5, <1>6, <1>7, <1>8, <1>9, <1>10, <1>11, <1>12, <1>13,
           <1>14
           DEF SeedViews

LEMMA NewSeedViewsKeepBackup ==
  ASSUME IInv, BackupInv, NewSeedViews PROVE BackupInv'
<1> USE DEF NoBackup, BackupScreens
<1>1. CASE ToolsMenuView
  BY <1>1, NoBackupTurn
     DEF ToolsMenuView, At, Go, Choose, To, ToWith, Back, Skipping, Clearing, GoesBack
<1>2. CASE CollectEntropy
  BY <1>2, NoBackupTurn
     DEF CollectEntropy, EntropyScreens, Go, Choose, To, ToWith, Back, Skipping, Clearing,
         GoesBack
<1>3. CASE GenerateSeed
  <2>0. view.cls # "MainMenuView"
    BY <1>3 DEF GenerateSeed, At
  <2>1. CASE Go(Back)
    BY <2>0, <2>1, NoBackupTurn DEF Go, Back, To, GoesBack
  <2>2. ASSUME NEW st,
               GoStoring(Clearing(ToWith("SeedWordsWarningView", [seed |-> None, bip85 |-> None])), st)
        PROVE  BackupInv'
    <3> DEFINE d == Clearing(ToWith("SeedWordsWarningView", [seed |-> None, bip85 |-> None]))
    <3>1. Entry(d).cls = "SeedWordsWarningView" /\ Entry(d).args.bip85 = None
      BY DEF Entry, Clearing, ToWith, To
    <3>2. Confirms(Entry(d), shown \union {})
      BY <3>1 DEF Confirms
    <3> QED BY <2>0, <2>2, <3>2, BackupTurn DEF GoStoring
  <2> QED BY Zenon, <1>3, <2>1, <2>2 DEF GenerateSeed
<1>4. CASE ToolsCalcFinalWordNumWordsView
  BY Zenon, <1>4, NoBackupTurn
     DEF ToolsCalcFinalWordNumWordsView, At, Go, GoStoring, To, ToWith, Back, Skipping,
         Clearing, GoesBack
<1>5. CASE ToolsCalcFinalWordFinalizePromptView
  BY Zenon, <1>5, NoBackupTurn
     DEF ToolsCalcFinalWordFinalizePromptView, At, Go, Choose, GoStoring, To, ToWith, Back,
         Skipping, Clearing, GoesBack
<1>6. CASE ToolsCalcFinalWordCoinFlipsView
  BY Zenon, <1>6, NoBackupTurn
     DEF ToolsCalcFinalWordCoinFlipsView, At, Go, ChooseWith, To, ToWith, Back, Skipping,
         Clearing, GoesBack
<1>7. CASE ToolsCalcFinalWordShowFinalWordView
  BY <1>7, NoBackupTurn
     DEF ToolsCalcFinalWordShowFinalWordView, At, GoStoring, ChooseStoring, To, ToWith, Back,
         Skipping, Clearing, GoesBack
<1>8. CASE ToolsCalcFinalWordDoneView
  BY <1>8, NoBackupTurn
     DEF ToolsCalcFinalWordDoneView, At, Go, ChooseStoring, GoStoring, To, ToWith, Back,
         Skipping, Clearing, GoesBack
<1> QED BY <1>1, <1>2, <1>3, <1>4, <1>5, <1>6, <1>7, <1>8 DEF NewSeedViews

LEMMA SeedQRViewsKeepBackup ==
  ASSUME IInv, BackupInv, SeedQRViews PROVE BackupInv'
<1> USE DEF NoBackup, BackupScreens
<1>1. CASE SeedTranscribeSeedQRFormatView
  BY Zenon, <1>1, NoBackupTurn
     DEF SeedTranscribeSeedQRFormatView, At, Go, ChooseWith, To, ToWith, Back, Skipping,
         Clearing, GoesBack
<1>2. CASE SeedTranscribeSeedQRWarningView
  BY Zenon, <1>2, NoBackupTurn
     DEF SeedTranscribeSeedQRWarningView, At, Go, ChooseSkipping, To, ToWith, Back, Skipping,
         Clearing, GoesBack
<1>3. CASE SeedTranscribeSeedQRWholeQRView
  BY <1>3, NoBackupTurn
     DEF SeedTranscribeSeedQRWholeQRView, At, Go, ChooseWith, To, ToWith, Back, Skipping,
         Clearing, GoesBack
<1>4. CASE SeedTranscribeSeedQRZoomedInView
  BY <1>4, NoBackupTurn
     DEF SeedTranscribeSeedQRZoomedInView, At, Go, To, ToWith, Back, Skipping, Clearing,
         GoesBack
<1>5. CASE SeedTranscribeSeedQRConfirmQRPromptView
  BY Zenon, <1>5, NoBackupTurn
     DEF SeedTranscribeSeedQRConfirmQRPromptView, At, Go, ChooseWith, To, ToWith, Back,
         Skipping, Clearing, GoesBack
<1>6. CASE SeedTranscribeSeedQRConfirmScanView
  BY <1>6, NoBackupTurn
     DEF SeedTranscribeSeedQRConfirmScanView, At, Go, To, ToWith, Back, Skipping, Clearing,
         GoesBack
<1>7. CASE SeedTranscribeSeedQRRejected
  BY <1>7, NoBackupTurn
     DEF SeedTranscribeSeedQRRejected, At, Go, To, ToWith, Back, Skipping, Clearing, GoesBack
<1>8. CASE SeedTranscribeSeedQRConfirmSuccessView
  BY <1>8, NoBackupTurn
     DEF SeedTranscribeSeedQRConfirmSuccessView, At, Go, To, ToWith, Back, Skipping, Clearing,
         GoesBack
<1> QED BY <1>1, <1>2, <1>3, <1>4, <1>5, <1>6, <1>7, <1>8 DEF SeedQRViews

LEMMA VerificationViewsKeepBackup ==
  ASSUME IInv, BackupInv, VerificationViews PROVE BackupInv'
<1> USE DEF NoBackup, BackupScreens
<1>1. CASE ScanAddress
  BY Zenon, <1>1, NoBackupTurn
     DEF ScanAddress, Go, Scanned, Scanners, ScannerFor, To, ToWith, Back, Skipping, Clearing,
         GoesBack
<1>2. CASE AddressVerificationStartView
  BY Zenon, <1>2, NoBackupTurn
     DEF AddressVerificationStartView, At, GoWith, VerifyWithDescriptor, VerifyWithSeed, To,
         ToWith, Back, Skipping, Clearing, GoesBack
<1>3. CASE AddressVerificationSigTypeView
  BY Zenon, <1>3, NoBackupTurn DEF AddressVerificationSigTypeView, At, GoWith, Raise, RaiseError, Go,
         VerifyWithDescriptor, VerifyWithSeed, To, ToWith, Back, Skipping, Clearing, GoesBack
<1>4. CASE SeedAddressVerificationView
  BY Zenon, <1>4, NoBackupTurn
     DEF SeedAddressVerificationView, At, Raise, RaiseError, Go, Choose, To, ToWith, Back,
         Skipping, Clearing, GoesBack
<1>5. CASE SeedAddressVerificationSuccessView
  BY <1>5, NoBackupTurn
     DEF SeedAddressVerificationSuccessView, At, Go, To, ToWith, Back, Skipping, Clearing,
         GoesBack
<1>6. CASE ScanDescriptor
  BY <1>6, NoBackupTurn
     DEF ScanDescriptor, GoWith, Scanned, Scanners, ScannerFor, To, ToWith, Back, Skipping,
         Clearing, GoesBack
<1>7. CASE LoadMultisigWalletDescriptorView
  BY <1>7, NoBackupTurn
     DEF LoadMultisigWalletDescriptorView, At, Choose, Go, To, ToWith, Back, Skipping,
         Clearing, GoesBack
<1>8. CASE MultisigWalletDescriptorView
  BY <1>8, NoBackupTurn
     DEF MultisigWalletDescriptorView, At, GoWith, ReturnToFlow, Go, To, ToWith, Back,
         Skipping, Clearing, GoesBack
<1> QED BY <1>1, <1>2, <1>3, <1>4, <1>5, <1>6, <1>7, <1>8 DEF VerificationViews

LEMMA ExplorerViewsKeepBackup ==
  ASSUME IInv, BackupInv, ExplorerViews PROVE BackupInv'
<1> USE DEF NoBackup, BackupScreens
<1>1. CASE SeedExportXpubSigTypeView
  BY Zenon, <1>1, NoBackupTurn
     DEF SeedExportXpubSigTypeView, At, Go, ChooseWith, To, ToWith, Back, Skipping, Clearing,
         GoesBack
<1>2. CASE SeedExportXpubScriptTypeView
  BY Zenon, <1>2, NoBackupTurn
     DEF SeedExportXpubScriptTypeView, At, Go, BackFromExplorer, GoWith, ChooseWith,
         AfterScriptType, To, ToWith, Back, Skipping, Clearing, GoesBack
<1>3. CASE SeedExportXpubCustomDerivationView
  BY <1>3, NoBackupTurn
     DEF SeedExportXpubCustomDerivationView, At, Go, AfterScriptType, To, ToWith, Back,
         Skipping, Clearing, GoesBack
<1>4. CASE ExportXpub
  BY Zenon, <1>4, NoBackupTurn
     DEF ExportXpub, At, Go, ChooseWith, ChooseSkipping, To, ToWith, Back, Skipping, Clearing,
         GoesBack
<1>5. CASE ToolsAddressExplorerSelectSourceView
  BY Zenon, <1>5, NoBackupTurn
     DEF ToolsAddressExplorerSelectSourceView, At, Go, GoWith, ChooseLeaving, LoadASeed, To,
         ToWith, Back, Skipping, Clearing, GoesBack
<1>6. CASE ToolsAddressExplorerAddressTypeView
  BY Zenon, <1>6, NoBackupTurn
     DEF ToolsAddressExplorerAddressTypeView, At, GoWith, To, ToWith, Back, Skipping, Clearing,
         GoesBack
<1>7. CASE ToolsAddressExplorerAddressListView
  BY Zenon, <1>7, NoBackupTurn
     DEF ToolsAddressExplorerAddressListView, At, Raise, RaiseError, Go, ChooseWith,
         ChooseSkipping, To, ToWith, Back, Skipping, Clearing, GoesBack
<1>8. CASE ToolsAddressExplorerAddressView
  BY Zenon, <1>8, NoBackupTurn
     DEF ToolsAddressExplorerAddressView, At, Go, To, ToWith, Back, Skipping, Clearing,
         GoesBack
<1> QED BY <1>1, <1>2, <1>3, <1>4, <1>5, <1>6, <1>7, <1>8 DEF ExplorerViews

LEMMA PsbtViewsKeepBackup ==
  ASSUME IInv, BackupInv, PsbtViews PROVE BackupInv'
<1> USE DEF NoBackup, BackupScreens
<1>1. CASE ScanPsbt
  BY <1>1, NoBackupTurn
     DEF ScanPsbt, GoWith, Scanned, Scanners, ScannerFor, To, ToWith, Back, Skipping, Clearing,
         GoesBack
<1>2. CASE PSBTSelectSeedView
  BY Zenon, <1>2, NoBackupTurn
     DEF PSBTSelectSeedView, At, Raise, RaiseError, Go, ChooseLeaving, GoWith, LoadASeed, To,
         ToWith, Back, Skipping, Clearing, GoesBack
<1>3. CASE PSBTOverviewView
  BY Zenon, <1>3, NoBackupTurn
     DEF PSBTOverviewView, At, OverviewScreen, GoWith, ChooseLeaving, Raise, RaiseError, Go,
         Verdict, To, ToWith, Back, Skipping, Clearing, GoesBack
<1>4. CASE PSBTRejected
  BY <1>4, NoBackupTurn DEF PSBTRejected, At, Go, To, ToWith, Back, Skipping, Clearing, GoesBack
<1>5. CASE PSBTNoChangeWarningView
  BY Zenon, <1>5, NoBackupTurn
     DEF PSBTNoChangeWarningView, At, Go, ChooseSkipping, To, ToWith, Back, Skipping, Clearing,
         GoesBack
<1>6. CASE PSBTMathView
  BY <1>6, NoBackupTurn
     DEF PSBTMathView, At, Go, AddressDetails, ChangeDetails, To, ToWith, Back, Skipping,
         Clearing, GoesBack
<1>7. CASE PSBTAddressDetailsView
  BY Zenon, <1>7, NoBackupTurn
     DEF PSBTAddressDetailsView, At, Raise, RaiseError, Go, Show, ShowOnward, AddressDetails,
         ChangeDetails, AfterChange, To, ToWith, Back, Skipping, Clearing, GoesBack
<1>8. CASE PSBTChangeDetailsView
  BY Zenon, <1>8, NoBackupTurn
     DEF PSBTChangeDetailsView, At, Go, Raise, RaiseError, PSBTChangeDetailsScreen, Show,
         ShowOnward, ChangeDetails, AfterChange, To, ToWith, Back, Skipping, Clearing, GoesBack
<1>9. CASE PSBTOpReturnView
  BY Zenon, <1>9, NoBackupTurn
     DEF PSBTOpReturnView, At, Raise, RaiseError, Go, Show, ShowOnward, To, ToWith, Back,
         Skipping, Clearing, GoesBack
<1>10. CASE PSBTFinalizeView
  BY <1>10, NoBackupTurn
     DEF PSBTFinalizeView, At, Go, Choose, ChooseLeaving, GoWith, To, ToWith, Back, Skipping,
         Clearing, GoesBack
<1>11. CASE PSBTSignedQRDisplayView
  BY <1>11, NoBackupTurn
     DEF PSBTSignedQRDisplayView, At, Go, To, ToWith, Back, Skipping, Clearing, GoesBack
<1>12. CASE PSBTSigningErrorView
  BY <1>12, NoBackupTurn
     DEF PSBTSigningErrorView, At, Go, GoWith, To, ToWith, Back, Skipping, Clearing, GoesBack
<1> QED BY <1>1, <1>2, <1>3, <1>4, <1>5, <1>6, <1>7, <1>8, <1>9, <1>10, <1>11, <1>12
           DEF PsbtViews

LEMMA MessageViewsKeepBackup ==
  ASSUME IInv, BackupInv, MessageViews PROVE BackupInv'
<1> USE DEF NoBackup, BackupScreens
<1>1. CASE ScanMessage
  BY <1>1, NoBackupTurn
     DEF ScanMessage, Go, Scanned, Scanners, ScannerFor, To, ToWith, Back, Skipping, Clearing,
         GoesBack
<1>2. CASE SeedSignMessageStartView
  BY <1>2, NoBackupTurn
     DEF SeedSignMessageStartView, At, GoWith, To, ToWith, Back, Skipping, Clearing, GoesBack
<1>3. CASE SeedSignMessageConfirmMessageView
  BY Zenon, <1>3, NoBackupTurn
     DEF SeedSignMessageConfirmMessageView, At, Raise, RaiseError, Go, ConfirmMessageScreen,
         To, ToWith, Back, Skipping, Clearing, GoesBack
<1>4. CASE SeedSignMessageConfirmAddressView
  BY Zenon, <1>4, NoBackupTurn
     DEF SeedSignMessageConfirmAddressView, At, Raise, RaiseError, Go, To, ToWith, Back,
         Skipping, Clearing, GoesBack
<1>5. CASE SeedSignMessageSignedMessageQRView
  BY <1>5, NoBackupTurn
     DEF SeedSignMessageSignedMessageQRView, At, GoWith, To, ToWith, Back, Skipping, Clearing,
         GoesBack
<1> QED BY <1>1, <1>2, <1>3, <1>4, <1>5 DEF MessageViews

LEMMA ViewConfirms ==
  ASSUME IInv, BackupInv PROVE Confirms(view, shown)
<1>1. CASE view = Home
  BY <1>1 DEF Home, Entry, To, Confirms, BackupScreens
<1>2. CASE view # Home
  BY <1>2, ViewIsOnTop DEF BackupInv
<1> QED BY <1>1, <1>2

\* A mnemonic has so many words: when each was confirmed once, all were.
LEMMA AllConfirmed ==
  ASSUME NEW c \in Seq(WordIndices), Len(c) = MnemonicLength,
         \A i, j \in 1..Len(c) : i # j => c[i] # c[j]
  PROVE  \A w \in WordIndices : \E i \in 1..Len(c) : c[i] = w
<1>1. MnemonicLength \in Nat
  BY SeedAssumption
<1>2. c \in [WordIndices -> WordIndices] /\ DOMAIN c = WordIndices
  BY <1>1 DEF WordIndices
<1>3. c \in Injection(WordIndices, WordIndices)
  BY <1>2 DEF WordIndices, Injection, IsInjective
<1>4. IsFiniteSet(WordIndices)
  BY <1>1, FS_Interval DEF WordIndices
<1>5. c \in Surjection(WordIndices, WordIndices)
  BY <1>3, <1>4, FS_Injection
<1> QED BY <1>5 DEF Surjection, WordIndices

\* Views that only pass on what is backed up.
LEMMA PassesOn ==
  ASSUME IInv, BackupInv, view.cls # "MainMenuView", NEW d, NEW temps, NEW stored, NEW displayed,
         d.cls \in {"SeedWordsWarningView", "SeedWordsView", "SeedWordsBackupTestPromptView"},
         d.args.bip85 \in {None, "child"},
         Turn(d, temps, stored, displayed)
  PROVE  BackupInv'
<1>1. Confirms(Entry(d), shown \union displayed)
  BY DEF Confirms, Entry
<1> QED BY <1>1, BackupTurn

\* A test that starts or goes on, after a word or a mistake.
LEMMA TestKeeps ==
  ASSUME IInv, BackupInv,
         view.cls \in {"SeedWordsBackupTestPromptView", "SeedWordsBackupTestView",
                       "SeedWordsBackupTestMistakeView"},
         NEW d, d.cls \in {"SeedWordsBackupTestView", "SeedWordsBackupTestMistakeView"},
         d.args = [seed |-> view.args.seed, bip85 |-> view.args.bip85,
                   confirmed |-> d.args.confirmed, cur |-> d.args.cur],
         d.args.confirmed \in Seq(WordIndices),
         \A i, j \in 1..Len(d.args.confirmed) : i # j => d.args.confirmed[i] # d.args.confirmed[j],
         \/ d.args.cur = None
         \/ /\ d.args.cur \in WordIndices
            /\ \A i \in 1..Len(d.args.confirmed) : d.args.confirmed[i] # d.args.cur,
         NEW temps, NEW stored, NEW displayed,
         \A i \in 1..Len(d.args.confirmed) :
           <<"confirmed", Source, d.args.confirmed[i]>> \in shown \union displayed,
         Turn(d, temps, stored, displayed)
  PROVE  BackupInv'
<1>1. view.args.bip85 \in {None, "child"}
  BY ViewConfirms DEF Confirms, BackupScreens
<1>2. /\ Entry(d).cls = d.cls /\ Entry(d).args = d.args
      /\ d.args.seed = view.args.seed /\ d.args.bip85 = view.args.bip85
  BY DEF Entry
<1>3. Confirms(Entry(d), shown \union displayed)
  BY <1>1, <1>2 DEF Confirms, Confirmation, Source
<1> QED BY <1>3, BackupTurn

LEMMA TestViewKeepsBackup ==
  ASSUME IInv, BackupInv, SeedWordsBackupTestView PROVE BackupInv'
<1> DEFINE c == view.args.confirmed
<1>0. /\ view.cls = "SeedWordsBackupTestView" /\ MnemonicLength \in Nat
      /\ view.args = [seed |-> view.args.seed, bip85 |-> view.args.bip85,
                      confirmed |-> view.args.confirmed, cur |-> view.args.cur]
      /\ c \in Seq(WordIndices)
      /\ \A i, j \in 1..Len(c) : i # j => c[i] # c[j]
      /\ \A i \in 1..Len(c) : <<"confirmed", Source, c[i]>> \in shown
      /\ view.args.bip85 \in {None, "child"}
  BY ViewConfirms, SeedAssumption
  DEF SeedWordsBackupTestView, At, Confirms, Confirmation, Source, BackupScreens
<1>1. ASSUME NEW i \in Asked PROVE i \in WordIndices /\ \A j \in 1..Len(c) : c[j] # i
  <2>1. CASE view.args.cur = None
    BY <1>0, <1>1, <2>1 DEF Asked, Range
  <2>2. CASE view.args.cur # None
    BY <1>0, <1>1, <2>2, ViewConfirms DEF Asked, Confirms
  <2> QED BY <2>1, <2>2
<1>2. PICK i \in Asked :
        \/ Turn(IF Len(Append(c, i)) = MnemonicLength
                THEN ToWith("SeedWordsBackupTestSuccessView", [seed |-> view.args.seed])
                ELSE TestOf(Append(c, i), None),
                controller, storage, {<<"confirmed", Source, i>>})
        \/ Go(ToWith("SeedWordsBackupTestMistakeView", [view.args EXCEPT !.cur = i]))
  BY Zenon DEF SeedWordsBackupTestView, ChooseWith
<1> DEFINE n == Append(c, i)
           seen == {<<"confirmed", Source, i>>}
<1>3. /\ n \in Seq(WordIndices)
      /\ \A j, k \in 1..Len(n) : j # k => n[j] # n[k]
      /\ \A j \in 1..Len(n) : <<"confirmed", Source, n[j]>> \in shown \union seen
  <2>1. i \in WordIndices /\ \A j \in 1..Len(c) : c[j] # i
    BY <1>1
  <2>2. /\ n \in Seq(WordIndices) /\ Len(n) = Len(c) + 1 /\ n[Len(c) + 1] = i /\ Len(c) \in Nat
        /\ \A j \in 1..Len(c) : n[j] = c[j]
    BY <1>0, <2>1
  <2> HIDE DEF n
  <2>3. \A j \in 1..Len(n) : j = Len(c) + 1 \/ j \in 1..Len(c)
    BY <2>2
  <2> QED BY Zenon, <1>0, <2>1, <2>2, <2>3
<1> HIDE DEF c, n
<1>4. CASE Turn(ToWith("SeedWordsBackupTestSuccessView", [seed |-> view.args.seed]),
                controller, storage, seen) /\ Len(n) = MnemonicLength
  <2> DEFINE d == ToWith("SeedWordsBackupTestSuccessView", [seed |-> view.args.seed])
  <2>1. Entry(d).cls = "SeedWordsBackupTestSuccessView" /\ Entry(d).args.seed = view.args.seed
    BY DEF Entry, ToWith, To
  <2>2. \A w \in WordIndices : <<"confirmed", Source, w>> \in shown \union seen
    BY <1>3, <1>4, AllConfirmed
  <2> HIDE DEF seen
  <2>3. Confirms(Entry(d), shown \union seen)
    BY <1>0, <2>1, <2>2 DEF Confirms, Source, BackupScreens
  <2> QED BY <1>0, <1>4, <2>3, BackupTurn
<1>5. CASE Turn(TestOf(n, None), controller, storage, seen)
  <2> DEFINE d == TestOf(n, None)
  <2>1. /\ d.cls = "SeedWordsBackupTestView"
        /\ d.args = [seed |-> view.args.seed, bip85 |-> view.args.bip85, confirmed |-> n, cur |-> None]
    BY DEF TestOf, ToWith, To
  <2>2. Turn(d, controller, storage, seen)
    BY <1>5
  <2> HIDE DEF d, seen
  <2>3. d.args.confirmed = n /\ d.args.cur = None
    BY <2>1
  <2> QED BY <1>0, <1>3, <2>1, <2>2, <2>3, TestKeeps
<1>6. CASE Go(ToWith("SeedWordsBackupTestMistakeView", [view.args EXCEPT !.cur = i]))
  <2> DEFINE d == ToWith("SeedWordsBackupTestMistakeView", [view.args EXCEPT !.cur = i])
  <2>1. /\ d.cls = "SeedWordsBackupTestMistakeView"
        /\ d.args = [view.args EXCEPT !.cur = i]
    BY DEF ToWith, To
  <2>2. d.args = [seed |-> view.args.seed, bip85 |-> view.args.bip85, confirmed |-> c, cur |-> i]
    BY <1>0, <2>1 DEF c
  <2>3. Turn(d, controller, storage, {})
    BY <1>6 DEF Go
  <2> HIDE DEF d
  <2>4. /\ c \in Seq(WordIndices) /\ \A j, k \in 1..Len(c) : j # k => c[j] # c[k]
        /\ \A j \in 1..Len(c) : <<"confirmed", Source, c[j]>> \in shown \union {}
        /\ i \in WordIndices /\ \A j \in 1..Len(c) : c[j] # i
    BY <1>0, <1>1
  <2>5. d.args.confirmed = c /\ d.args.cur = i
    BY <2>2
  <2> QED BY <1>0, <2>1, <2>2, <2>3, <2>4, <2>5, TestKeeps
<1> QED BY <1>2, <1>4, <1>5, <1>6 DEF n

LEMMA WordsViewsKeepBackup ==
  ASSUME IInv, BackupInv, WordsViews PROVE BackupInv'
<1>0. Confirms(view, shown)
  BY ViewConfirms
<1> USE DEF NoBackup, BackupScreens
<1>1. CASE SeedBackupView
  <2>0. view.cls # "MainMenuView"
    BY <1>1 DEF SeedBackupView, At
  <2>1. CASE ChooseWith("SeedWordsWarningView", [seed |-> view.args.seed, bip85 |-> None])
    <3> DEFINE d == ToWith("SeedWordsWarningView", [seed |-> view.args.seed, bip85 |-> None])
    <3>1. d.cls = "SeedWordsWarningView" /\ d.args.bip85 = None
      BY DEF ToWith, To
    <3>2. Turn(d, controller, storage, {})
      BY <2>1 DEF ChooseWith, Go
    <3> HIDE DEF d
    <3> QED BY <2>0, <3>1, <3>2, PassesOn
  <2>2. CASE Go(Back) \/ ChooseWith("SeedTranscribeSeedQRFormatView", view.args)
    BY <2>0, <2>2, NoBackupTurn DEF Go, ChooseWith, ToWith, To, Back, GoesBack
  <2> QED BY <1>1, <2>1, <2>2 DEF SeedBackupView
<1>2. CASE SeedWordsWarningView
  <2>0. view.cls = "SeedWordsWarningView" /\ view.args.bip85 \in {None, "child"}
    BY <1>0, <1>2 DEF SeedWordsWarningView, At, Confirms
  <2>1. CASE ChooseSkipping("SeedWordsView", Page(0))
    <3> DEFINE d == Skipping(ToWith("SeedWordsView", Page(0)))
    <3>1. d.cls = "SeedWordsView" /\ d.args.bip85 = view.args.bip85
      BY DEF Skipping, ToWith, To, Page
    <3>2. Turn(d, controller, storage, {})
      BY <2>1 DEF ChooseSkipping, Go
    <3> HIDE DEF d
    <3> QED BY <2>0, <3>1, <3>2, PassesOn
  <2>2. CASE Go(Back)
    BY <2>0, <2>2, NoBackupTurn DEF Go, To, Back, GoesBack
  <2> QED BY <1>2, <2>1, <2>2 DEF SeedWordsWarningView
<1>3. CASE SeedWordsView
  <2>0. view.cls = "SeedWordsView" /\ view.args.bip85 \in {None, "child"}
    BY <1>0, <1>3 DEF SeedWordsView, At, Confirms
  <2>1. ASSUME NEW cls \in {"SeedWordsView", "SeedWordsBackupTestPromptView"}, NEW args,
               args.bip85 = view.args.bip85, ChooseWith(cls, args)
        PROVE  BackupInv'
    <3> DEFINE d == ToWith(cls, args)
    <3>1. d.cls = cls /\ d.args.bip85 = view.args.bip85
      BY <2>1 DEF ToWith, To
    <3>2. Turn(d, controller, storage, {})
      BY <2>1 DEF ChooseWith, Go
    <3> HIDE DEF d
    <3> QED BY <2>0, <3>1, <3>2, PassesOn
  <2>2. CASE Go(Back)
    BY <2>0, <2>2, NoBackupTurn DEF Go, To, Back, GoesBack
  <2>3. Source.bip85 = view.args.bip85 /\ \A n : Page(n).bip85 = view.args.bip85
    BY DEF Source, Page
  <2> QED BY <1>3, <2>1, <2>2, <2>3 DEF SeedWordsView
<1>4. CASE BIP85Views
  <2>0. /\ view.cls \in {"SeedBIP85SelectNumWordsView", "SeedBIP85SelectChildIndexView",
                         "SeedBIP85InvalidChildIndexView"}
    BY <1>4 DEF BIP85Views, At
  <2>1. CASE ChooseWith("SeedWordsWarningView", [seed |-> view.args.seed, bip85 |-> "child"])
    <3> DEFINE d == ToWith("SeedWordsWarningView", [seed |-> view.args.seed, bip85 |-> "child"])
    <3>1. d.cls = "SeedWordsWarningView" /\ d.args.bip85 = "child"
      BY DEF ToWith, To
    <3>2. Turn(d, controller, storage, {})
      BY <2>1 DEF ChooseWith, Go
    <3> HIDE DEF d
    <3> QED BY <2>0, <3>1, <3>2, PassesOn
  <2>2. CASE \/ Go(Back) \/ ChooseWith("SeedBIP85SelectChildIndexView", view.args)
             \/ ChooseSkipping("SeedBIP85InvalidChildIndexView", view.args)
             \/ Go(Skipping(ToWith("SeedBIP85SelectChildIndexView", view.args)))
    BY Zenon, <2>0, <2>2, NoBackupTurn
    DEF Go, ChooseWith, ChooseSkipping, ToWith, To, Back, Skipping, GoesBack
  <2> QED BY <1>4, <2>1, <2>2 DEF BIP85Views
<1>5. CASE SeedWordsBackupTestPromptView
  <2>0. view.cls = "SeedWordsBackupTestPromptView"
    BY <1>5 DEF SeedWordsBackupTestPromptView, At
  <2>1. CASE Go(TestOf(<< >>, None))
    <3> DEFINE none == << >>
               cur == None
               d == TestOf(none, cur)
    <3>1. /\ d.cls = "SeedWordsBackupTestView" /\ cur = None
          /\ d.args = [seed |-> view.args.seed, bip85 |-> view.args.bip85, confirmed |-> none, cur |-> cur]
      BY DEF TestOf, ToWith, To
    <3>2. none \in Seq(WordIndices) /\ Len(none) = 0
      OBVIOUS
    <3>3. Turn(d, controller, storage, {})
      BY <2>1 DEF Go
    <3> HIDE DEF d, none, cur
    <3>4. d.args.confirmed = none /\ d.args.cur = None
      BY <3>1
    <3>5. /\ d.args.confirmed \in Seq(WordIndices)
          /\ \A i \in 1..Len(d.args.confirmed) : FALSE
      BY <3>2, <3>4
    <3>6. d.args = [seed |-> view.args.seed, bip85 |-> view.args.bip85,
                    confirmed |-> d.args.confirmed, cur |-> d.args.cur]
      BY <3>1, <3>4
    <3> QED BY <2>0, <3>1, <3>3, <3>4, <3>5, <3>6, TestKeeps
  <2>2. CASE Go(BackupDone(view.args.seed))
    BY <2>0, <2>2, NoBackupTurn DEF Go, BackupDone, ToWith, To, GoesBack
  <2> QED BY <1>5, <2>1, <2>2 DEF SeedWordsBackupTestPromptView
<1>6. CASE SeedWordsBackupTestView
  BY <1>6, TestViewKeepsBackup
<1>7. CASE SeedWordsBackupTestMistakeView
  <2>0. view.cls = "SeedWordsBackupTestMistakeView" /\ view.args.bip85 \in {None, "child"}
    BY <1>0, <1>7 DEF SeedWordsBackupTestMistakeView, At, Confirms
  <2>1. CASE ChooseWith("SeedWordsView", Page(0))
    <3> DEFINE d == ToWith("SeedWordsView", Page(0))
    <3>1. d.cls = "SeedWordsView" /\ d.args.bip85 = view.args.bip85
      BY DEF ToWith, To, Page
    <3>2. Turn(d, controller, storage, {})
      BY <2>1 DEF ChooseWith, Go
    <3> HIDE DEF d
    <3> QED BY <2>0, <3>1, <3>2, PassesOn
  <2>2. CASE Go(TestOf(view.args.confirmed, view.args.cur))
    <3> DEFINE c == view.args.confirmed
               cur == view.args.cur
               d == TestOf(c, cur)
    <3>1. /\ d.cls = "SeedWordsBackupTestView"
          /\ d.args = [seed |-> view.args.seed, bip85 |-> view.args.bip85, confirmed |-> c, cur |-> cur]
      BY DEF TestOf, ToWith, To
    <3>2. /\ c \in Seq(WordIndices) /\ \A i, j \in 1..Len(c) : i # j => c[i] # c[j]
          /\ \A i \in 1..Len(c) : <<"confirmed", Source, c[i]>> \in shown \union {}
          /\ cur = None \/ (cur \in WordIndices /\ \A i \in 1..Len(c) : c[i] # cur)
      BY <1>0, <2>0 DEF Confirms, Confirmation, Source
    <3>3. Turn(d, controller, storage, {})
      BY <2>2 DEF Go
    <3> HIDE DEF d, c, cur
    <3>4. d.args.confirmed = c /\ d.args.cur = cur
      BY <3>1
    <3> QED BY <2>0, <3>1, <3>2, <3>3, <3>4, TestKeeps
  <2> QED BY <1>7, <2>1, <2>2 DEF SeedWordsBackupTestMistakeView
<1>8. CASE SeedWordsBackupTestSuccessView
  BY Zenon, <1>8, NoBackupTurn
  DEF SeedWordsBackupTestSuccessView, At, Go, BackupDone, ToWith, To, Clearing, GoesBack
<1> QED BY <1>1, <1>2, <1>3, <1>4, <1>5, <1>6, <1>7, <1>8 DEF WordsViews

\* "Success" after a backup test means that every word of that seed, or of its
\* child, has been picked right, whatever mistakes were made and however long the
\* mnemonic is: a word asked for again after a mistake is not counted twice.
THEOREM BackupTheorem == Spec => []BackupIsVerified
<1>1. Init => IInv /\ BackupInv
  <2>1. Len(<< >>) = 0
    OBVIOUS
  <2> QED BY <2>1, InitIInv DEF Init, BackupInv
<1>2. ASSUME IInv, BackupInv, [Next]_vars PROVE BackupInv'
  <2>1. CASE UNCHANGED <<backStack, shown>>
    BY <1>2, <2>1 DEF BackupInv
  <2>2. CASE Views
    BY <1>2, <2>2, SharedViewsKeepBackup, SeedViewsKeepBackup, NewSeedViewsKeepBackup,
       WordsViewsKeepBackup, SeedQRViewsKeepBackup, VerificationViewsKeepBackup,
       ExplorerViewsKeepBackup, PsbtViewsKeepBackup, MessageViewsKeepBackup DEF Views
  <2> QED BY <1>2, <2>1, <2>2 DEF Next, UserWantsOut, vars
<1>3. ASSUME IInv, BackupInv PROVE BackupIsVerified
  BY <1>3, ViewConfirms DEF BackupIsVerified, Confirms
<1> QED BY <1>1, <1>2, <1>3, NextIInv, PTL DEF Spec

-----------------------------------------------------------------------------
(* The address explorer. *)

\* Outside of the explorer its screens are not in the history.
LEMMA OutsideOfTheExplorer ==
  ASSUME IInv, ExplorerInv
  PROVE  /\ view.cls \notin Listings \union {TypeScreen} =>
              \A i \in 1..Len(backStack) : backStack[i].cls \notin Listings \union {TypeScreen}
         /\ view.cls = TypeScreen =>
              \A i \in 1..Len(backStack) :
                i < Len(backStack) => backStack[i].cls \notin Listings \union {TypeScreen}
<1>1. TypeScreen \notin Listings
  BY DEF TypeScreen, Listings
<1>2. CASE view = Home
  <2>1. Len(backStack) = 0 /\ view.cls # TypeScreen
    BY <1>2, ViewIsOnTop DEF Home, Entry, To, TypeScreen
  <2> QED BY <2>1
<1>3. CASE view # Home
  <2>1. /\ Len(backStack) \in Nat /\ Len(backStack) > 0 /\ backStack[Len(backStack)] = view
    BY <1>3, ViewIsOnTop
  <2> QED BY <1>1, <2>1 DEF ExplorerInv
<1> QED BY <1>2, <1>3

LEMMA EmptiedExplorer ==
  ASSUME backStack' = << >> PROVE ExplorerInv'
<1>1. Len(<< >>) = 0
  OBVIOUS
<1> QED BY <1>1 DEF ExplorerInv

LEMMA OutsideTurn ==
  ASSUME IInv, ExplorerInv, Outside
  PROVE  \A d, temps, stored, displayed :
           /\ d.skip => view.cls # "MainMenuView"
           /\ GoesBack(d) \/ NoListing(d.cls)
           /\ Turn(d, temps, stored, displayed)
           => ExplorerInv'
<1> SUFFICES ASSUME NEW d, NEW temps, NEW stored, NEW displayed,
                    d.skip => view.cls # "MainMenuView", GoesBack(d) \/ NoListing(d.cls),
                    Turn(d, temps, stored, displayed)
             PROVE  ExplorerInv'
  OBVIOUS
<1>0. view.cls \notin Listings \union {TypeScreen} /\ d.cls \notin Listings
  BY DEF Outside, NoListing, GoesBack, Listings, TypeScreen
<1>1. CASE backStack' = << >>
  BY <1>1, EmptiedExplorer
<1>2. ASSUME NEW m, Landed(d, m) PROVE ExplorerInv'
  <2>1. /\ Len(backStack) \in Nat /\ m \in 0..Len(backStack) /\ Len(backStack') = m + 1
        /\ \A i \in 1..Len(backStack) : backStack[i].cls \notin Listings \union {TypeScreen}
    BY <1>0, <1>2, ViewIsOnTop, OutsideOfTheExplorer DEF Landed
  <2>2. \A i \in 1..m : backStack'[i].cls \notin Listings \union {TypeScreen}
    BY <1>2, <2>1 DEF Landed
  <2>3. view'.cls \notin Listings /\ backStack'[m + 1].cls \notin Listings
    <3>1. CASE GoesBack(d)
      <4>1. PICK k \in 1..Len(backStack) : view' = backStack[k]
        BY <1>2, <2>1, <3>1 DEF Landed
      <4> QED BY <1>2, <2>1, <4>1 DEF Landed
    <3>2. CASE ~GoesBack(d)
      BY <1>0, <1>2, <3>2 DEF Landed, Entry
    <3> QED BY <3>1, <3>2
  <2>4. \A i \in 1..Len(backStack') : i \in 1..m \/ i = m + 1
    BY <2>1
  <2> QED BY <2>1, <2>2, <2>3, <2>4 DEF ExplorerInv
<1> QED BY <1>1, <1>2, Landing

LEMMA SharedViewsOutsideTheExplorer ==
  ASSUME IInv, ExplorerInv, SharedViews PROVE ExplorerInv'
<1> USE DEF NoListing
<1>1. CASE MainMenuView
  <2>1. Outside
    BY <1>1 DEF MainMenuView, At, Outside
  <2>2. PICK cls \in {"ScanView", "SeedsMenuView", "ToolsMenuView", "PowerOptionsView"} :
          Go(To(cls))
    BY <1>1 DEF MainMenuView, Choose
  <2> QED BY <2>1, <2>2, OutsideTurn DEF Go, To
<1>2. CASE PowerOptionsView
  BY <1>2, OutsideTurn
     DEF Outside, PowerOptionsView, At, Go, Choose, To, ToWith, Back, Skipping, Clearing,
         GoesBack
<1>3. CASE PowerOffView
  BY <1>3, OutsideTurn
     DEF Outside, PowerOffView, At, Go, To, ToWith, Back, Skipping, Clearing, GoesBack
<1>4. CASE RestartView
  BY <1>4, EmptiedExplorer DEF RestartView
<1>5. CASE UnhandledExceptionView
  BY <1>5, OutsideTurn
     DEF Outside, UnhandledExceptionView, At, Go, To, ToWith, Back, Skipping, Clearing,
         GoesBack
<1>6. CASE WarnAndGoHome
  BY <1>6, OutsideTurn
     DEF Outside, WarnAndGoHome, At, Go, To, ToWith, Back, Skipping, Clearing, GoesBack
<1>7. CASE ErrorView
  BY <1>7, OutsideTurn
     DEF Outside, ErrorView, At, Go, To, ToWith, Back, Skipping, Clearing, GoesBack
<1> QED BY <1>1, <1>2, <1>3, <1>4, <1>5, <1>6, <1>7 DEF SharedViews

LEMMA SeedViewsOutsideTheExplorer ==
  ASSUME IInv, ExplorerInv, SeedViews PROVE ExplorerInv'
<1> USE DEF NoListing
<1>1. CASE ScanComesToNothing
  BY Zenon, <1>1, OutsideTurn
     DEF Outside, ScanComesToNothing, Go, ChooseLeaving, GoWith, Choose, RaiseError,
         AtAnyScanner, ScannerFor, To, ToWith, Back, Skipping, Clearing, GoesBack
<1>2. CASE ScanSeed
  BY Zenon, <1>2, OutsideTurn
     DEF Outside, ScanSeed, GoStoring, Scanned, Scanners, ScannerFor, To, ToWith, Back,
         Skipping, Clearing, GoesBack
<1>3. CASE SeedsMenuView
  BY Zenon, <1>3, OutsideTurn
     DEF Outside, SeedsMenuView, At, Go, ChooseWith, Choose, To, ToWith, Back, Skipping,
         Clearing, GoesBack
<1>4. CASE LoadSeedView
  BY Zenon, <1>4, OutsideTurn
     DEF Outside, LoadSeedView, At, Go, LoadASeed, ChooseLeaving, GoWith, Choose, To, ToWith,
         Back, Skipping, Clearing, GoesBack
<1>5. CASE SeedSelectSeedView
  BY Zenon, <1>5, OutsideTurn
     DEF Outside, SeedSelectSeedView, At, Go, ChooseWith, Raise, RaiseError, GoWith, LoadASeed,
         ChooseLeaving, To, ToWith, Back, Skipping, Clearing, GoesBack
<1>6. CASE SeedMnemonicEntryView
  BY Zenon, <1>6, OutsideTurn
     DEF Outside, SeedMnemonicEntryView, At, GoStoring, NextAfterWord, Raise, RaiseError, Go,
         To, ToWith, Back, Skipping, Clearing, GoesBack
<1>7. CASE SeedMnemonicInvalidView
  BY <1>7, OutsideTurn
     DEF Outside, SeedMnemonicInvalidView, At, ChooseWith, Go, GoStoring, To, ToWith, Back,
         Skipping, Clearing, GoesBack
<1>8. CASE SeedElectrumMnemonicStartView
  BY Zenon, <1>8, OutsideTurn
     DEF Outside, SeedElectrumMnemonicStartView, At, GoStoring, To, ToWith, Back, Skipping,
         Clearing, GoesBack
<1>9. CASE SeedFinalizeView
  BY Zenon, <1>9, OutsideTurn
     DEF Outside, SeedFinalizeView, At, KeepSeed, GoStoring, Choose, Go, To, ToWith, Back,
         Skipping, Clearing, GoesBack
<1>10. CASE SeedAddPassphraseView
  BY Zenon, <1>10, OutsideTurn
     DEF Outside, SeedAddPassphraseView, At, GoStoring, To, ToWith, Back, Skipping, Clearing,
         GoesBack
<1>11. CASE SeedAddPassphraseExitDialogView
  BY Zenon, <1>11, OutsideTurn
     DEF Outside, SeedAddPassphraseExitDialogView, At, Choose, Go, GoStoring, To, ToWith, Back,
         Skipping, Clearing, GoesBack
<1>12. CASE SeedReviewPassphraseView
  BY Zenon, <1>12, OutsideTurn
     DEF Outside, SeedReviewPassphraseView, At, KeepSeed, GoStoring, Choose, Go, To, ToWith,
         Back, Skipping, Clearing, GoesBack
<1>13. CASE SeedDiscardView
  BY <1>13, OutsideTurn
     DEF Outside, SeedDiscardView, At, Go, GoStoring, To, ToWith, Back, Skipping, Clearing,
         GoesBack
<1>14. CASE SeedOptionsView
  BY Zenon, <1>14, OutsideTurn
     DEF Outside, SeedOptionsView, At, SeedOptionsMenu, Go, ChooseLeaving, GoWith, ChooseWith,
         ResumeFlow, Raise, RaiseError, To, ToWith, Back, Skipping, Clearing, GoesBack
<1> QED BY <1>1, <1>2, <1>3, <1>4, <1>5, <1>6, <1>7, <1>8, <1>9, <1>10, <1>11, <1>12, <1>13,
           <1>14
           DEF SeedViews

LEMMA NewSeedViewsOutsideTheExplorer ==
  ASSUME IInv, ExplorerInv, NewSeedViews PROVE ExplorerInv'
<1> USE DEF NoListing
<1>1. CASE ToolsMenuView
  BY <1>1, OutsideTurn
     DEF Outside, ToolsMenuView, At, Go, Choose, To, ToWith, Back, Skipping, Clearing, GoesBack
<1>2. CASE CollectEntropy
  BY <1>2, OutsideTurn
     DEF Outside, CollectEntropy, EntropyScreens, Go, Choose, To, ToWith, Back, Skipping,
         Clearing, GoesBack
<1>3. CASE GenerateSeed
  BY Zenon, <1>3, OutsideTurn
     DEF Outside, GenerateSeed, At, Go, GoStoring, To, ToWith, Back, Skipping, Clearing,
         GoesBack
<1>4. CASE ToolsCalcFinalWordNumWordsView
  BY Zenon, <1>4, OutsideTurn
     DEF Outside, ToolsCalcFinalWordNumWordsView, At, Go, GoStoring, To, ToWith, Back,
         Skipping, Clearing, GoesBack
<1>5. CASE ToolsCalcFinalWordFinalizePromptView
  BY Zenon, <1>5, OutsideTurn
     DEF Outside, ToolsCalcFinalWordFinalizePromptView, At, Go, Choose, GoStoring, To, ToWith,
         Back, Skipping, Clearing, GoesBack
<1>6. CASE ToolsCalcFinalWordCoinFlipsView
  BY Zenon, <1>6, OutsideTurn
     DEF Outside, ToolsCalcFinalWordCoinFlipsView, At, Go, ChooseWith, To, ToWith, Back,
         Skipping, Clearing, GoesBack
<1>7. CASE ToolsCalcFinalWordShowFinalWordView
  BY <1>7, OutsideTurn
     DEF Outside, ToolsCalcFinalWordShowFinalWordView, At, GoStoring, ChooseStoring, To,
         ToWith, Back, Skipping, Clearing, GoesBack
<1>8. CASE ToolsCalcFinalWordDoneView
  BY <1>8, OutsideTurn
     DEF Outside, ToolsCalcFinalWordDoneView, At, Go, ChooseStoring, GoStoring, To, ToWith,
         Back, Skipping, Clearing, GoesBack
<1> QED BY <1>1, <1>2, <1>3, <1>4, <1>5, <1>6, <1>7, <1>8 DEF NewSeedViews

LEMMA WordsViewsOutsideTheExplorer ==
  ASSUME IInv, ExplorerInv, WordsViews PROVE ExplorerInv'
<1> USE DEF NoListing
<1>1. CASE SeedBackupView
  BY <1>1, OutsideTurn
     DEF Outside, SeedBackupView, At, Go, ChooseWith, To, ToWith, Back, Skipping, Clearing,
         GoesBack
<1>2. CASE SeedWordsWarningView
  BY Zenon, <1>2, OutsideTurn
     DEF Outside, SeedWordsWarningView, At, Go, ChooseSkipping, To, ToWith, Back, Skipping,
         Clearing, GoesBack
<1>3. CASE SeedWordsView
  BY <1>3, OutsideTurn
     DEF Outside, SeedWordsView, At, Go, ChooseWith, To, ToWith, Back, Skipping, Clearing,
         GoesBack
<1>4. CASE BIP85Views
  BY Zenon, <1>4, OutsideTurn
     DEF Outside, BIP85Views, At, Go, ChooseWith, ChooseSkipping, To, ToWith, Back, Skipping,
         Clearing, GoesBack
<1>5. CASE SeedWordsBackupTestPromptView
  BY <1>5, OutsideTurn
     DEF Outside, SeedWordsBackupTestPromptView, At, Go, BackupDone, TestOf, To, ToWith, Back,
         Skipping, Clearing, GoesBack
<1>6. CASE SeedWordsBackupTestView
  <2>1. Outside /\ view.cls # "MainMenuView"
    BY <1>6 DEF Outside, At, SeedWordsBackupTestView
  <2> QED BY <1>6, <2>1, OutsideTurn
             DEF SeedWordsBackupTestView, ChooseWith, Go, TestOf, To, ToWith, Back, Skipping,
                 Clearing, GoesBack
<1>7. CASE SeedWordsBackupTestMistakeView
  BY <1>7, OutsideTurn
     DEF Outside, SeedWordsBackupTestMistakeView, At, ChooseWith, Go, TestOf, To, ToWith, Back,
         Skipping, Clearing, GoesBack
<1>8. CASE SeedWordsBackupTestSuccessView
  BY Zenon, <1>8, OutsideTurn
     DEF Outside, SeedWordsBackupTestSuccessView, At, Go, BackupDone, To, ToWith, Back,
         Skipping, Clearing, GoesBack
<1> QED BY <1>1, <1>2, <1>3, <1>4, <1>5, <1>6, <1>7, <1>8 DEF WordsViews

LEMMA SeedQRViewsOutsideTheExplorer ==
  ASSUME IInv, ExplorerInv, SeedQRViews PROVE ExplorerInv'
<1> USE DEF NoListing
<1>1. CASE SeedTranscribeSeedQRFormatView
  BY Zenon, <1>1, OutsideTurn
     DEF Outside, SeedTranscribeSeedQRFormatView, At, Go, ChooseWith, To, ToWith, Back,
         Skipping, Clearing, GoesBack
<1>2. CASE SeedTranscribeSeedQRWarningView
  BY Zenon, <1>2, OutsideTurn
     DEF Outside, SeedTranscribeSeedQRWarningView, At, Go, ChooseSkipping, To, ToWith, Back,
         Skipping, Clearing, GoesBack
<1>3. CASE SeedTranscribeSeedQRWholeQRView
  BY <1>3, OutsideTurn
     DEF Outside, SeedTranscribeSeedQRWholeQRView, At, Go, ChooseWith, To, ToWith, Back,
         Skipping, Clearing, GoesBack
<1>4. CASE SeedTranscribeSeedQRZoomedInView
  BY <1>4, OutsideTurn
     DEF Outside, SeedTranscribeSeedQRZoomedInView, At, Go, To, ToWith, Back, Skipping,
         Clearing, GoesBack
<1>5. CASE SeedTranscribeSeedQRConfirmQRPromptView
  BY Zenon, <1>5, OutsideTurn
     DEF Outside, SeedTranscribeSeedQRConfirmQRPromptView, At, Go, ChooseWith, To, ToWith,
         Back, Skipping, Clearing, GoesBack
<1>6. CASE SeedTranscribeSeedQRConfirmScanView
  BY <1>6, OutsideTurn
     DEF Outside, SeedTranscribeSeedQRConfirmScanView, At, Go, To, ToWith, Back, Skipping,
         Clearing, GoesBack
<1>7. CASE SeedTranscribeSeedQRRejected
  BY <1>7, OutsideTurn
     DEF Outside, SeedTranscribeSeedQRRejected, At, Go, To, ToWith, Back, Skipping, Clearing,
         GoesBack
<1>8. CASE SeedTranscribeSeedQRConfirmSuccessView
  BY <1>8, OutsideTurn
     DEF Outside, SeedTranscribeSeedQRConfirmSuccessView, At, Go, To, ToWith, Back, Skipping,
         Clearing, GoesBack
<1> QED BY <1>1, <1>2, <1>3, <1>4, <1>5, <1>6, <1>7, <1>8 DEF SeedQRViews

LEMMA VerificationViewsOutsideTheExplorer ==
  ASSUME IInv, ExplorerInv, VerificationViews PROVE ExplorerInv'
<1> USE DEF NoListing
<1>1. CASE ScanAddress
  BY Zenon, <1>1, OutsideTurn
     DEF Outside, ScanAddress, Go, Scanned, Scanners, ScannerFor, To, ToWith, Back, Skipping,
         Clearing, GoesBack
<1>2. CASE AddressVerificationStartView
  BY Zenon, <1>2, OutsideTurn
     DEF Outside, AddressVerificationStartView, At, GoWith, VerifyWithDescriptor,
         VerifyWithSeed, To, ToWith, Back, Skipping, Clearing, GoesBack
<1>3. CASE AddressVerificationSigTypeView
  BY Zenon, <1>3, OutsideTurn
     DEF Outside, AddressVerificationSigTypeView, At, GoWith, Raise, RaiseError, Go,
         VerifyWithDescriptor, VerifyWithSeed, To, ToWith, Back, Skipping, Clearing, GoesBack
<1>4. CASE SeedAddressVerificationView
  BY Zenon, <1>4, OutsideTurn
     DEF Outside, SeedAddressVerificationView, At, Raise, RaiseError, Go, Choose, To, ToWith,
         Back, Skipping, Clearing, GoesBack
<1>5. CASE SeedAddressVerificationSuccessView
  BY <1>5, OutsideTurn
     DEF Outside, SeedAddressVerificationSuccessView, At, Go, To, ToWith, Back, Skipping,
         Clearing, GoesBack
<1>6. CASE ScanDescriptor
  BY <1>6, OutsideTurn
     DEF Outside, ScanDescriptor, GoWith, Scanned, Scanners, ScannerFor, To, ToWith, Back,
         Skipping, Clearing, GoesBack
<1>7. CASE LoadMultisigWalletDescriptorView
  BY <1>7, OutsideTurn
     DEF Outside, LoadMultisigWalletDescriptorView, At, Choose, Go, To, ToWith, Back, Skipping,
         Clearing, GoesBack
<1>8. CASE MultisigWalletDescriptorView
  BY <1>8, OutsideTurn
     DEF Outside, MultisigWalletDescriptorView, At, GoWith, ReturnToFlow, Go, To, ToWith, Back,
         Skipping, Clearing, GoesBack
<1> QED BY <1>1, <1>2, <1>3, <1>4, <1>5, <1>6, <1>7, <1>8 DEF VerificationViews

LEMMA PsbtViewsOutsideTheExplorer ==
  ASSUME IInv, ExplorerInv, PsbtViews PROVE ExplorerInv'
<1> USE DEF NoListing
<1>1. CASE ScanPsbt
  BY <1>1, OutsideTurn
     DEF Outside, ScanPsbt, GoWith, Scanned, Scanners, ScannerFor, To, ToWith, Back, Skipping,
         Clearing, GoesBack
<1>2. CASE PSBTSelectSeedView
  BY Zenon, <1>2, OutsideTurn
     DEF Outside, PSBTSelectSeedView, At, Raise, RaiseError, Go, ChooseLeaving, GoWith,
         LoadASeed, To, ToWith, Back, Skipping, Clearing, GoesBack
<1>3. CASE PSBTOverviewView
  BY Zenon, <1>3, OutsideTurn
     DEF Outside, PSBTOverviewView, At, OverviewScreen, GoWith, ChooseLeaving, Raise,
         RaiseError, Go, Verdict, To, ToWith, Back, Skipping, Clearing, GoesBack
<1>4. CASE PSBTRejected
  BY <1>4, OutsideTurn
     DEF Outside, PSBTRejected, At, Go, To, ToWith, Back, Skipping, Clearing, GoesBack
<1>5. CASE PSBTNoChangeWarningView
  BY Zenon, <1>5, OutsideTurn
     DEF Outside, PSBTNoChangeWarningView, At, Go, ChooseSkipping, To, ToWith, Back, Skipping,
         Clearing, GoesBack
<1>6. CASE PSBTMathView
  BY <1>6, OutsideTurn
     DEF Outside, PSBTMathView, At, Go, AddressDetails, ChangeDetails, To, ToWith, Back,
         Skipping, Clearing, GoesBack
<1>7. CASE PSBTAddressDetailsView
  <2>1. Outside /\ view.cls # "MainMenuView"
    BY <1>7 DEF Outside, At, PSBTAddressDetailsView
  <2> QED BY Zenon, <1>7, <2>1, OutsideTurn
             DEF PSBTAddressDetailsView, Raise, RaiseError, Go, Show, ShowOnward,
                 AddressDetails, ChangeDetails, AfterChange, To, ToWith, Back, Skipping,
                 Clearing, GoesBack
<1>8. CASE PSBTChangeDetailsView
  <2>1. Outside /\ view.cls # "MainMenuView"
    BY <1>8 DEF Outside, At, PSBTChangeDetailsView
  <2> QED BY Zenon, <1>8, <2>1, OutsideTurn
             DEF PSBTChangeDetailsView, Go, Raise, RaiseError, PSBTChangeDetailsScreen, Show,
                 ShowOnward, ChangeDetails, AfterChange, To, ToWith, Back, Skipping, Clearing,
                 GoesBack
<1>9. CASE PSBTOpReturnView
  <2>1. Outside /\ view.cls # "MainMenuView"
    BY <1>9 DEF Outside, At, PSBTOpReturnView
  <2> QED BY Zenon, <1>9, <2>1, OutsideTurn
             DEF PSBTOpReturnView, Raise, RaiseError, Go, Show, ShowOnward, To, ToWith, Back,
                 Skipping, Clearing, GoesBack
<1>10. CASE PSBTFinalizeView
  BY <1>10, OutsideTurn
     DEF Outside, PSBTFinalizeView, At, Go, Choose, ChooseLeaving, GoWith, To, ToWith, Back,
         Skipping, Clearing, GoesBack
<1>11. CASE PSBTSignedQRDisplayView
  BY <1>11, OutsideTurn
     DEF Outside, PSBTSignedQRDisplayView, At, Go, To, ToWith, Back, Skipping, Clearing,
         GoesBack
<1>12. CASE PSBTSigningErrorView
  BY <1>12, OutsideTurn
     DEF Outside, PSBTSigningErrorView, At, Go, GoWith, To, ToWith, Back, Skipping, Clearing,
         GoesBack
<1> QED BY <1>1, <1>2, <1>3, <1>4, <1>5, <1>6, <1>7, <1>8, <1>9, <1>10, <1>11, <1>12
           DEF PsbtViews

LEMMA MessageViewsOutsideTheExplorer ==
  ASSUME IInv, ExplorerInv, MessageViews PROVE ExplorerInv'
<1> USE DEF NoListing
<1>1. CASE ScanMessage
  BY <1>1, OutsideTurn
     DEF Outside, ScanMessage, Go, Scanned, Scanners, ScannerFor, To, ToWith, Back, Skipping,
         Clearing, GoesBack
<1>2. CASE SeedSignMessageStartView
  BY <1>2, OutsideTurn
     DEF Outside, SeedSignMessageStartView, At, GoWith, To, ToWith, Back, Skipping, Clearing,
         GoesBack
<1>3. CASE SeedSignMessageConfirmMessageView
  <2>1. Outside /\ view.cls # "MainMenuView"
    BY <1>3 DEF Outside, At, SeedSignMessageConfirmMessageView
  <2> QED BY Zenon, <1>3, <2>1, OutsideTurn
             DEF SeedSignMessageConfirmMessageView, Raise, RaiseError, Go,
                 ConfirmMessageScreen, To, ToWith, Back, Skipping, Clearing, GoesBack
<1>4. CASE SeedSignMessageConfirmAddressView
  <2>1. Outside /\ view.cls # "MainMenuView"
    BY <1>4 DEF Outside, At, SeedSignMessageConfirmAddressView
  <2> DEFINE address == {<<"address", controller.signData.message, controller.signData.seed>>}
  <2>2. \/ Turn(Back, controller, storage, address)
        \/ Turn(To("SeedSignMessageSignedMessageQRView"), controller, storage, address)
        \/ Raise
    BY <1>4 DEF SeedSignMessageConfirmAddressView
  <2> HIDE DEF address
  <2> QED BY Zenon, <2>1, <2>2, OutsideTurn
    DEF Raise, RaiseError, Go, To, ToWith, Back, Clearing, GoesBack
<1>5. CASE SeedSignMessageSignedMessageQRView
  BY <1>5, OutsideTurn
     DEF Outside, SeedSignMessageSignedMessageQRView, At, GoWith, To, ToWith, Back, Skipping,
         Clearing, GoesBack
<1> QED BY <1>1, <1>2, <1>3, <1>4, <1>5 DEF MessageViews

\* From the AddressType screen: its data are in place when the listing comes.
LEMMA TypeScreenExplores ==
  ASSUME IInv, ExplorerInv, ToolsAddressExplorerAddressTypeView PROVE ExplorerInv'
<1>0. /\ view.cls = TypeScreen /\ view.cls # "MainMenuView" /\ view # Home
      /\ Len(backStack) \in Nat /\ Len(backStack) > 0 /\ backStack[Len(backStack)] = view
      /\ \A i \in 1..Len(backStack) :
           i < Len(backStack) => backStack[i].cls \notin Listings \union {TypeScreen}
  BY ViewIsOnTop, OutsideOfTheExplorer
  DEF ToolsAddressExplorerAddressTypeView, At, TypeScreen, Home, Entry, To
<1>1. ASSUME NEW temps, GoWith(Back, temps) PROVE ExplorerInv'
  <2> DEFINE d == Back
  <2>1. Turn(d, temps, storage, {}) /\ GoesBack(d) /\ ~d.skip /\ ~d.clear
    BY <1>1 DEF GoWith, Back, To, GoesBack
  <2> HIDE DEF d
  <2>2. CASE backStack' = << >>
    BY <2>2, EmptiedExplorer
  <2>3. ASSUME NEW m, Landed(d, m) PROVE ExplorerInv'
    <3>1. /\ m \in 0..Len(backStack) /\ Len(backStack') = m + 1
          /\ m + 1 \in 1..(Len(backStack) - 1) /\ view' = backStack[m + 1]
          /\ backStack'[m + 1] = backStack[m + 1]
          /\ \A i \in 1..m : backStack'[i] = backStack[i]
      BY <1>0, <2>1, <2>3 DEF Landed
    <3>2. \A i \in 1..(m + 1) : backStack'[i].cls \notin Listings \union {TypeScreen}
      BY <1>0, <3>1
    <3> QED BY <1>0, <3>1, <3>2 DEF ExplorerInv
  <2> QED BY <1>0, <2>1, <2>2, <2>3, Landing
<1>2. ASSUME NEW change \in BOOLEAN,
             GoWith(ToWith("ToolsAddressExplorerAddressListView", [change |-> change, start |-> 0]),
                    [controller EXCEPT !.explorer = Explored])
      PROVE  ExplorerInv'
  <2> DEFINE d == ToWith("ToolsAddressExplorerAddressListView", [change |-> change, start |-> 0])
             temps == [controller EXCEPT !.explorer = Explored]
  <2>1. /\ Turn(d, temps, storage, {}) /\ ~GoesBack(d) /\ ~d.skip /\ ~d.clear
        /\ Entry(d).cls = d.cls /\ d.cls \in Listings /\ d.cls # TypeScreen
    BY <1>2 DEF GoWith, ToWith, To, GoesBack, Entry, Listings, TypeScreen
  <2>2. Sourced(temps, view.args)
    BY DEF Sourced, Explored
  <2> HIDE DEF d, temps
  <2>3. CASE backStack' = << >>
    BY <2>3, EmptiedExplorer
  <2>4. ASSUME NEW m, Landed(d, m), controller' = temps PROVE ExplorerInv'
    <3>1. /\ view' = Entry(d) /\ m = Len(backStack) /\ Len(backStack') = m + 1
          /\ backStack'[m + 1] = view'
          /\ \A i \in 1..m : backStack'[i] = backStack[i]
      BY <1>0, <2>1, <2>4 DEF Landed, Kept
    <3>2. \A i \in 1..Len(backStack') : i = m + 1 \/ i = m \/ (i \in 1..m /\ i < m)
      BY <1>0, <3>1
    <3>3. \A i \in 1..m : i < m => backStack'[i].cls \notin Listings \union {TypeScreen}
      BY <1>0, <3>1
    <3>4. m > 0 /\ backStack'[m] = view
      BY <1>0, <3>1
    <3>5. backStack'[m + 1].cls \in Listings /\ backStack'[m + 1].cls # TypeScreen
      BY <2>1, <3>1
    <3>6. TypeScreen \notin Listings
      BY DEF TypeScreen, Listings
    <3> QED BY <1>0, <2>2, <2>4, <3>1, <3>2, <3>3, <3>4, <3>5, <3>6 DEF ExplorerInv
  <2> QED BY <1>0, <2>1, <2>3, <2>4, Landing
<1> QED BY Zenon, <1>1, <1>2 DEF ToolsAddressExplorerAddressTypeView

\* From a listing: to another one, or back, and the data stay.
LEMMA ListingTurn ==
  ASSUME IInv, ExplorerInv, view.cls \in Listings
  PROVE  \A d, stored, displayed :
           /\ GoesBack(d) => ~d.clear
           /\ GoesBack(d) \/ d.clear \/ d.cls \in Listings
           /\ d.cls \notin {TypeScreen}
           /\ d.cls \in Listings => ~d.clear
           /\ Turn(d, controller, stored, displayed)
           => ExplorerInv'
<1> SUFFICES ASSUME NEW d, NEW stored, NEW displayed,
                    GoesBack(d) => ~d.clear,
                    GoesBack(d) \/ d.clear \/ d.cls \in Listings,
                    d.cls # TypeScreen, d.cls \in Listings => ~d.clear,
                    Turn(d, controller, stored, displayed)
             PROVE  ExplorerInv'
  OBVIOUS
<1>0. /\ view.cls # "MainMenuView" /\ view # Home /\ TypeScreen \notin Listings
      /\ Len(backStack) \in Nat /\ Len(backStack) > 0 /\ backStack[Len(backStack)] = view
  BY ViewIsOnTop DEF Listings, TypeScreen, Home, Entry, To
<1>1. CASE backStack' = << >>
  BY <1>1, EmptiedExplorer
<1>2. ASSUME NEW m, Landed(d, m), controller' = controller PROVE ExplorerInv'
  <2>0. /\ m \in 0..Len(backStack) /\ Len(backStack') = m + 1 /\ view' = backStack'[m + 1]
        /\ \A i \in 1..m : backStack'[i] = backStack[i]
    BY <1>2 DEF Landed
  <2>1. ASSUME m + 1 \in 1..Len(backStack), backStack'[m + 1] = backStack[m + 1]
        PROVE  ExplorerInv'
    <3>1. controller' = controller /\ view' = backStack[m + 1]
      BY <1>2, <2>0, <2>1
    <3>2. \A i \in 1..(m + 1) : backStack'[i] = backStack[i]
      BY <2>0, <2>1
    <3> QED BY <1>0, <2>0, <2>1, <3>1, <3>2 DEF ExplorerInv
  <2>2. CASE d.clear
    <3>1. m = 0 /\ view' = Entry(d) /\ ~GoesBack(d) /\ d.cls \notin Listings
      BY <1>2, <2>2 DEF Landed
    <3>2. backStack'[1].cls \notin Listings /\ view'.cls \notin Listings /\ Len(backStack') = 1
      BY <2>0, <3>1 DEF Entry
    <3> QED BY <3>2 DEF ExplorerInv
  <2>3. CASE GoesBack(d)
    <3>1. m + 1 \in 1..Len(backStack) /\ backStack'[m + 1] = backStack[m + 1]
      BY <1>0, <1>2, <2>0, <2>3 DEF Landed
    <3> QED BY <2>1, <3>1
  <2>4. CASE ~d.clear /\ ~GoesBack(d)
    <3>1. /\ view' = Entry(d) /\ view'.cls \in Listings /\ view'.cls # TypeScreen
          /\ m = Kept(d) \/ (m + 1 = Kept(d) /\ view' = backStack[m + 1])
      BY <1>2, <2>4 DEF Landed, Entry
    <3>2. Kept(d) \in {Len(backStack) - 1, Len(backStack)}
      BY DEF Kept
    <3>3. CASE m + 1 = Kept(d) /\ view' = backStack[m + 1]
      BY <1>0, <2>0, <2>1, <3>2, <3>3
    <3>4. CASE m = Kept(d)
      <4>1. PICK t \in 1..Len(backStack) : t < Len(backStack) /\ backStack[t].cls = TypeScreen
        BY <1>0 DEF ExplorerInv
      <4>2. t \in 1..m /\ t < m + 1
        BY <1>0, <3>2, <3>4, <4>1
      <4>3. \A i \in 1..Len(backStack') : i \in 1..m \/ i = m + 1
        BY <1>0, <2>0
      <4>4. \A i, j \in 1..(m + 1) :
              i < j /\ backStack'[i].cls = TypeScreen => backStack'[j].cls \in Listings
        <5>1. \A i, j \in 1..m :
                i < j /\ backStack'[i].cls = TypeScreen => backStack'[j].cls \in Listings
          BY <1>0, <2>0 DEF ExplorerInv
        <5>2. backStack'[m + 1].cls \in Listings
          BY <2>0, <3>1
        <5> QED BY <1>0, <2>0, <5>1, <5>2
      <4>5. \A j \in 1..(m + 1) : backStack'[j].cls \in Listings =>
              \E i \in 1..(m + 1) : i < j /\ backStack'[i].cls = TypeScreen
        <5>1. CASE \E j \in 1..m : backStack'[j].cls \in Listings
          BY <1>0, <2>0, <4>1, <4>2, <4>3 DEF ExplorerInv
        <5>2. CASE \A j \in 1..m : backStack'[j].cls \notin Listings
          BY <1>0, <2>0, <4>1, <4>2, <4>3, <5>2
        <5> QED BY <5>1, <5>2
      <4>6. \A i \in 1..(m + 1) :
              backStack'[i].cls = TypeScreen => Sourced(controller', backStack'[i].args)
        <5>1. \A i \in 1..m : backStack'[i].cls = TypeScreen => Sourced(controller, backStack'[i].args)
          BY <1>0, <2>0 DEF ExplorerInv
        <5>2. backStack'[m + 1].cls # TypeScreen
          BY <2>0, <3>1
        <5> QED BY <1>0, <1>2, <2>0, <4>3, <5>1, <5>2
      <4> QED BY <2>0, <4>4, <4>5, <4>6 DEF ExplorerInv
    <3> QED BY <3>1, <3>3, <3>4
  <2> QED BY <2>2, <2>3, <2>4
<1> QED BY <1>0, <1>1, <1>2, Landing

LEMMA ExplorerViewsExplore ==
  ASSUME IInv, ExplorerInv, ExplorerViews PROVE ExplorerInv'
<1> USE DEF NoListing
<1>1. CASE SeedExportXpubSigTypeView
  BY Zenon, <1>1, OutsideTurn
     DEF Outside, SeedExportXpubSigTypeView, At, Go, ChooseWith, To, ToWith, Back, Skipping,
         Clearing, GoesBack
<1>2. CASE SeedExportXpubScriptTypeView
  BY Zenon, <1>2, OutsideTurn
     DEF Outside, SeedExportXpubScriptTypeView, At, Go, BackFromExplorer, GoWith, ChooseWith,
         AfterScriptType, To, ToWith, Back, Skipping, Clearing, GoesBack
<1>3. CASE SeedExportXpubCustomDerivationView
  BY <1>3, OutsideTurn
     DEF Outside, SeedExportXpubCustomDerivationView, At, Go, AfterScriptType, To, ToWith,
         Back, Skipping, Clearing, GoesBack
<1>4. CASE ExportXpub
  BY Zenon, <1>4, OutsideTurn
     DEF Outside, ExportXpub, At, Go, ChooseWith, ChooseSkipping, To, ToWith, Back, Skipping,
         Clearing, GoesBack
<1>5. CASE ToolsAddressExplorerSelectSourceView
  BY Zenon, <1>5, OutsideTurn
     DEF Outside, ToolsAddressExplorerSelectSourceView, At, Go, GoWith, ChooseLeaving,
         LoadASeed, To, ToWith, Back, Skipping, Clearing, GoesBack
<1>6. CASE ToolsAddressExplorerAddressTypeView
  BY <1>6, TypeScreenExplores
<1>7. CASE ToolsAddressExplorerAddressListView
  BY Zenon, <1>7, ListingTurn
     DEF ToolsAddressExplorerAddressListView, At, Raise, RaiseError, Go, ChooseWith,
         ChooseSkipping, To, ToWith, Back, Skipping, Clearing, GoesBack, Listings, TypeScreen
<1>8. CASE ToolsAddressExplorerAddressView
  BY Zenon, <1>8, ListingTurn
     DEF ToolsAddressExplorerAddressView, At, Go, To, ToWith, Skipping, GoesBack, Listings,
         TypeScreen
<1> QED BY <1>1, <1>2, <1>3, <1>4, <1>5, <1>6, <1>7, <1>8 DEF ExplorerViews

\* The addresses that are listed are of the seed and script type, or of the
\* descriptor, of the AddressType screen that BACK leads to, however the user went
\* back and forth between this exploration and others before it.
THEOREM ExplorerTheorem == Spec => []ExplorerShowsItsSource
<1>1. Init => IInv /\ ExplorerInv
  <2>1. Len(<< >>) = 0
    OBVIOUS
  <2> QED BY <2>1, InitIInv DEF Init, ExplorerInv
<1>2. ASSUME IInv, ExplorerInv, [Next]_vars PROVE ExplorerInv'
  <2>1. CASE UNCHANGED <<view, backStack, controller>>
    BY <1>2, <2>1 DEF ExplorerInv
  <2>2. CASE Views
    BY <1>2, <2>2, SharedViewsOutsideTheExplorer, SeedViewsOutsideTheExplorer,
       NewSeedViewsOutsideTheExplorer, WordsViewsOutsideTheExplorer,
       SeedQRViewsOutsideTheExplorer, VerificationViewsOutsideTheExplorer,
       ExplorerViewsExplore, PsbtViewsOutsideTheExplorer, MessageViewsOutsideTheExplorer DEF Views
  <2> QED BY <1>2, <2>1, <2>2 DEF Next, UserWantsOut, vars
<1>3. ASSUME IInv, ExplorerInv PROVE ExplorerShowsItsSource
  <2> SUFFICES ASSUME view.cls = "ToolsAddressExplorerAddressListView"
               PROVE  \E i \in 1..Len(backStack) :
                        /\ backStack[i].cls = TypeScreen
                        /\ \A j \in (i + 1)..Len(backStack) : backStack[j].cls # backStack[i].cls
                        /\ Sourced(controller, backStack[i].args)
    BY DEF ExplorerShowsItsSource, TypeScreen, Sourced
  <2>1. /\ view.cls \in Listings /\ view # Home /\ TypeScreen \notin Listings
        /\ Len(backStack) \in Nat /\ Len(backStack) > 0 /\ backStack[Len(backStack)] = view
    BY <1>3, ViewIsOnTop DEF Listings, TypeScreen, Home, Entry, To
  <2>2. PICK i \in 1..Len(backStack) : backStack[i].cls = TypeScreen
    BY <1>3, <2>1 DEF ExplorerInv
  <2> QED BY <1>3, <2>1, <2>2 DEF ExplorerInv
<1> QED BY <1>1, <1>2, <1>3, NextIInv, PTL DEF Spec

-----------------------------------------------------------------------------
(* Seeds that are at hand. *)

\* What is true of the stack is true of the View that runs.
LEMMA ViewIsKnown ==
  ASSUME IInv, KnownSeeds
  PROVE  /\ OfASeed(view) => view.args.seed \in storage.seeds
         /\ view.cls = "MainMenuView" => view = Home /\ Len(backStack) = 0
         /\ view # Home => view.cls # "MainMenuView"
<1>1. CASE view = Home
  BY <1>1, ViewIsOnTop DEF Home, Entry, To, OfASeed, ScreensOfASeed, WordScreens
<1>2. CASE view # Home
  <2>1. Len(backStack) \in Places /\ backStack[Len(backStack)] = view
    BY <1>2, ViewIsOnTop DEF Places
  <2> QED BY <1>2, <2>1 DEF KnownSeeds
<1> QED BY <1>1, <1>2

LEMMA KnownTurn ==
  ASSUME IInv, KnownSeeds, NEW d, NEW temps, NEW stored, NEW displayed,
         KnownStep(d, temps, stored), Turn(d, temps, stored, displayed)
  PROVE  KnownSeeds'
<1>1. /\ Len(backStack) \in Nat
      /\ d.skip => view.cls # "MainMenuView"
      /\ view # Home => Len(backStack) > 0 /\ backStack[Len(backStack)] = view
      /\ view.cls = "MainMenuView" => Len(backStack) = 0
  BY ViewIsOnTop, ViewIsKnown DEF KnownStep
<1>2. CASE backStack' = << >> /\ controller' = Wiped(temps)
  <2>1. Len(<< >>) = 0 /\ Wiped(temps).psbtSeed = None
    BY DEF Wiped, FreshController
  <2> QED BY <1>2, <2>1 DEF KnownSeeds, Places
<1>3. ASSUME NEW m, Landed(d, m), view' # Home, controller' = temps, storage' = stored
      PROVE  KnownSeeds'
  <2>1. /\ m \in 0..Len(backStack) /\ Len(backStack') = m + 1 /\ backStack'[m + 1] = view'
        /\ \A i \in 1..m : backStack'[i] = backStack[i] /\ i \in Places
        /\ view' = Target(d)
    BY <1>1, <1>3 DEF Landed, Places, Turn
  <2>2. storage.seeds \subseteq stored.seeds /\ temps.psbtSeed \in storage.seeds \union {None}
    BY <1>3, <2>1 DEF KnownStep
  <2>3. /\ view'.cls # "MainMenuView"
        /\ OfASeed(view') => view'.args.seed \in stored.seeds
        /\ \A i \in 1..m : backStack[i].cls = "ScanView" => ~UnderSeeds(view')
    <3>1. CASE GoesBack(d)
      <4>1. PICK k \in (m + 1)..(Len(backStack) - 1) : view' = backStack[k]
        BY <1>3, <3>1 DEF Landed
      <4>2. k \in Places /\ \A i \in 1..m : i < k
        BY <1>1, <2>1, <4>1 DEF Places
      <4> QED BY <2>1, <2>2, <4>1, <4>2 DEF KnownSeeds
    <3>2. CASE ~GoesBack(d)
      <4>1. view' = Entry(d) /\ (d.clear => m = 0)
        BY <1>3, <3>2 DEF Landed
      <4>2. view'.cls # "MainMenuView" /\ (OfASeed(view') => view'.args.seed \in stored.seeds)
        BY <1>3, <3>2, <4>1 DEF KnownStep, Entry, Home, To
      <4>3. ASSUME NEW i \in 1..m, backStack[i].cls = "ScanView", UnderSeeds(view') PROVE FALSE
        <5>1. UnderSeeds(view) /\ view # Home
          <6>1. ~d.clear /\ view.cls # "MainMenuView"
            BY <1>1, <2>1, <4>1, <4>3
          <6> QED BY <3>2, <4>1, <4>3, <6>1 DEF KnownStep, Home, Entry, To
        <5>2. i = Len(backStack) \/ (i < Len(backStack) /\ Len(backStack) \in Places)
          BY <1>1, <2>1 DEF Places
        <5>3. view.cls # "ScanView"
          BY <5>1 DEF UnderSeeds, OfASeed, ScreensOfASeed, WordScreens
        <5> QED BY <1>1, <2>1, <4>3, <5>1, <5>2, <5>3 DEF KnownSeeds
      <4> QED BY <4>1, <4>2, <4>3
    <3> QED BY <3>1, <3>2
  <2>4. \A i \in Places' : (i \in 1..m /\ backStack'[i] = backStack[i]) \/ (i = m + 1 /\ backStack'[i] = view')
    BY <2>1 DEF Places
  <2>5. \A i, j \in Places' :
          i < j /\ backStack'[i].cls = "ScanView" => ~UnderSeeds(backStack'[j])
    <3> SUFFICES ASSUME NEW i \in Places', NEW j \in Places', i < j, backStack'[i].cls = "ScanView"
                 PROVE  ~UnderSeeds(backStack'[j])
      OBVIOUS
    <3>1. i \in 1..m /\ i \in Places /\ backStack'[i] = backStack[i]
      BY <2>1, <2>4 DEF Places
    <3>2. CASE j = m + 1
      BY <2>1, <2>3, <3>1, <3>2
    <3>3. CASE j # m + 1
      <4>1. j \in Places /\ backStack'[j] = backStack[j]
        BY <2>1, <2>4, <3>3
      <4> QED BY Zenon, <3>1, <4>1 DEF KnownSeeds
    <3> QED BY <3>2, <3>3
  <2>6. \A i \in Places' :
          /\ backStack'[i].cls # "MainMenuView"
          /\ OfASeed(backStack'[i]) => backStack'[i].args.seed \in stored.seeds
    BY <2>1, <2>2, <2>3, <2>4 DEF KnownSeeds
  <2>7. controller'.psbtSeed \in storage'.seeds \union {None}
    BY <1>3, <2>2
  <2>8. \A i \in Places' : backStack'[i].cls # "MainMenuView"
    BY <2>6
  <2>9. \A i \in Places' : OfASeed(backStack'[i]) => backStack'[i].args.seed \in storage'.seeds
    BY <1>3, <2>6
  <2> QED BY <2>5, <2>7, <2>8, <2>9 DEF KnownSeeds
<1> QED BY <1>1, <1>2, <1>3, Landing DEF KnownStep

-----------------------------------------------------------------------------
(* The review of a transaction. *)

\* Outside of the review its screens are not in the history; its overview is right above
\* what came before it, and below all the rest.
LEMMA OutsideOfReview ==
  ASSUME IInv, ReviewInv
  PROVE  /\ view.cls \notin OfReview => \A i \in Places : backStack[i].cls \notin OfReview
         /\ view.cls = "PSBTOverviewView" =>
              \A i \in Places : i < Len(backStack) => backStack[i].cls \notin OfReview
         /\ \A i, k \in Places :
              backStack[i].cls \in Beyond /\ backStack[k].cls = "PSBTOverviewView" => k < i
<1>1. "PSBTOverviewView" \notin Beyond /\ "PSBTOverviewView" \in OfReview /\ Beyond \subseteq OfReview
  BY DEF Beyond, OfReview, ReviewZone, ReviewScreens, DescriptorScreens
<1>2. CASE view = Home
  <2>1. Len(backStack) = 0 /\ view.cls # "PSBTOverviewView"
    BY <1>2, ViewIsOnTop DEF Home, Entry, To
  <2> QED BY <2>1 DEF Places
<1>3. CASE view # Home
  <2>1. /\ Len(backStack) \in Nat /\ Len(backStack) > 0 /\ backStack[Len(backStack)] = view
    BY <1>3, ViewIsOnTop
  <2>2. \A i, j \in Places : i < j /\ backStack[i].cls \in OfReview => backStack[j].cls \in Beyond
    BY DEF ReviewInv, ReviewStacked
  <2>3. ASSUME NEW i \in Places, NEW k \in Places, backStack[i].cls \in Beyond,
               backStack[k].cls = "PSBTOverviewView"
        PROVE  k < i
    BY <1>1, <2>1, <2>2, <2>3 DEF Places
  <2>4. \A i \in Places : i = Len(backStack) \/ i < Len(backStack)
    BY <2>1 DEF Places
  <2>5. Len(backStack) \in Places
    BY <2>1 DEF Places
  <2> QED BY <1>1, <2>1, <2>2, <2>3, <2>4, <2>5
<1> QED BY <1>2, <1>3

\* More on the screen does no harm.
LEMMA ReachedStays ==
  ASSUME NEW e, NEW parser, NEW items, NEW more
  PROVE  /\ Reached(e, parser, items) => Reached(e, parser, items \union more)
         /\ VerifiedBefore(e, parser, items) => VerifiedBefore(e, parser, items \union more)
BY Zenon DEF Reached, VerifiedBefore

\* Home.
LEMMA HomeKeeps ==
  ASSUME view' = Home, backStack' = << >>, NEW temps, controller' = Wiped(temps)
  PROVE  ReviewInv'
<1>1. Len(<< >>) = 0
  OBVIOUS
<1>2. controller'.parser = None /\ controller'.psbt = None /\ view'.cls # "PSBTSignedQRDisplayView"
  BY DEF Wiped, FreshController, Home, Entry, To
<1>3. Places' = {}
  BY <1>1 DEF Places
<1> QED BY <1>1, <1>2, <1>3
        DEF ReviewInv, ReviewStacked, ReviewArgs, ReviewReached, ScanIsApart, ParserOK,
            OverviewOK, DescriptorOK

\* BACK, from all screens but the two whose leaving means more; the descriptor's
\* screen forgets the descriptor.
LEMMA BackKeeps ==
  ASSUME IInv, ReviewInv, NEW d, NEW temps, NEW displayed, NEW m,
         GoesBack(d), ~d.clear, Landed(d, m), view' # Home,
         IF view.cls = "MultisigWalletDescriptorView"
         THEN ~d.skip /\ temps = [controller EXCEPT !.descriptor = None]
         ELSE Undisturbed(temps),
         controller' = temps, shown' = shown \union displayed,
         view.cls \notin {"PSBTOverviewView", "PSBTSignedQRDisplayView"},
         d.skip => backStack[Len(backStack) - 1].cls \notin {"PSBTOverviewView", "MultisigWalletDescriptorView"}
  PROVE  ReviewInv'
<1>1. /\ Len(backStack) \in Nat
      /\ view # Home => Len(backStack) > 0 /\ backStack[Len(backStack)] = view
      /\ view = Home => Len(backStack) = 0
  BY ViewIsOnTop
<1> DEFINE n == m + 1
<1>2. /\ n \in Nat /\ n >= 1 /\ n < Len(backStack) /\ Len(backStack') = n
      /\ view' = backStack[n] /\ \A i \in 1..n : backStack'[i] = backStack[i]
      /\ \A j \in n..(Kept(d) - 1) : backStack[j] = backStack[n]
  <2>1. /\ m \in 0..Len(backStack) /\ Len(backStack') = m + 1 /\ view' = backStack'[m + 1]
        /\ \A i \in 1..m : backStack'[i] = backStack[i]
        /\ \E k \in (m + 1)..(Len(backStack) - 1) : view' = backStack[k] /\ k = m + 1
        /\ \A j \in (m + 1)..(Kept(d) - 1) : backStack[j] = view'
    BY DEF Landed
  <2> QED BY <1>1, <2>1
<1>3. /\ Places' = 1..n /\ \A i \in Places' : i \in Places /\ i <= n /\ backStack'[i] = backStack[i]
      /\ n \in Places /\ Places \subseteq Nat
  BY <1>1, <1>2 DEF Places
<1>4. Len(backStack) > 0 /\ backStack[Len(backStack)] = view
  BY <1>1, <1>2
<1>5. \A j \in Places : j > n =>
        \/ backStack[j] = backStack[n]
        \/ /\ backStack[j].cls # "PSBTOverviewView"
           /\ backStack[j].cls = "MultisigWalletDescriptorView" =>
                j = Len(backStack) /\ view.cls = "MultisigWalletDescriptorView"
  BY <1>1, <1>2, <1>4 DEF Kept, Places
<1> HIDE DEF n
<1>6. UnderReview => UnderReview'
  <2> SUFFICES ASSUME NEW k \in Places, backStack[k].cls = "PSBTOverviewView" PROVE UnderReview'
    BY DEF UnderReview
  <2>1. CASE k <= n
    BY <1>2, <1>3, <2>1 DEF UnderReview, Places
  <2>2. CASE k > n
    <3>1. backStack'[n].cls = "PSBTOverviewView" /\ n \in Places'
      BY <1>2, <1>3, <1>5, <2>2
    <3> QED BY <3>1 DEF UnderReview
  <2> QED BY <1>2, <1>3, <2>1, <2>2
<1>7. /\ Idle' <=> Idle
      /\ controller'.parser = controller.parser /\ controller'.psbt = controller.psbt
      /\ controller'.psbtSeed = controller.psbtSeed
      /\ IF view.cls = "MultisigWalletDescriptorView" THEN controller'.descriptor = None
         ELSE controller'.descriptor = controller.descriptor
      /\ controller'.resume = "psbt" => controller.resume = "psbt"
  <2>1. CASE view.cls = "MultisigWalletDescriptorView"
    <3>1. controller' = [controller EXCEPT !.descriptor = None]
      BY <2>1
    <3>2. /\ controller'.parser = controller.parser /\ controller'.psbt = controller.psbt
          /\ controller'.psbtSeed = controller.psbtSeed /\ controller'.resume = controller.resume
          /\ controller'.descriptor = None
      BY <3>1
    <3> QED BY <2>1, <3>2 DEF Idle
  <2>2. CASE view.cls # "MultisigWalletDescriptorView"
    BY <2>2 DEF Idle, Undisturbed
  <2> QED BY <2>1, <2>2
<1>8. ReviewStacked'
  BY <1>3 DEF ReviewInv, ReviewStacked
<1>9. ReviewArgs'
  <2> SUFFICES ASSUME NEW i \in Places'
               PROVE  /\ backStack'[i].cls = "ErrorView" => i > 1 /\ backStack'[i - 1].cls \in DOMAIN ScannerFor
                      /\ backStack'[i].cls = "SeedSelectSeedView" =>
                           backStack'[i].args.flow \in {"singlesig_addr", "sign_message"}
                      /\ backStack'[i].cls \in {"PSBTAddressDetailsView", "PSBTChangeDetailsView"} =>
                           backStack'[i].args.num \in Nat
    BY DEF ReviewArgs
  <2>1. /\ i \in Places /\ backStack'[i] = backStack[i]
        /\ i > 1 => i - 1 \in Places' /\ backStack'[i - 1] = backStack[i - 1]
    BY <1>2, <1>3
  <2> QED BY <2>1 DEF ReviewInv, ReviewArgs
<1>10. ReviewReached'
  BY Zenon, <1>3, <1>6, <1>7, ReachedStays DEF ReviewInv, ReviewReached
<1>11. ScanIsApart'
  BY <1>3, <1>6, <1>7 DEF ReviewInv, ScanIsApart
<1>12. ParserOK'
  <2>1. view'.cls # "PSBTSignedQRDisplayView"
    BY <1>1, <1>2, <1>3, <1>4 DEF ReviewInv, ReviewStacked, Places
  <2> QED BY <1>7, <2>1 DEF ReviewInv, ParserOK
<1>13. OverviewOK'
  <2> SUFFICES ASSUME NEW i \in Places', backStack'[i].cls = "PSBTOverviewView"
               PROVE  /\ controller'.psbtSeed # None
                      /\ i = Len(backStack') => controller'.psbt \in Transactions
                      /\ i < Len(backStack') =>
                           controller'.parser # None /\ controller'.parser.seed = controller'.psbtSeed
    BY DEF OverviewOK
  <2>1. i \in Places /\ i < Len(backStack) /\ backStack[i].cls = "PSBTOverviewView"
    BY <1>1, <1>2, <1>3
  <2> QED BY <1>7, <2>1 DEF ReviewInv, OverviewOK, ParserOK
<1>14. DescriptorOK'
  <2> SUFFICES ASSUME NEW i \in Places'
               PROVE  /\ backStack'[i].cls = "MultisigWalletDescriptorView" => controller'.descriptor # None
                      /\ /\ ~Idle' /\ controller'.descriptor # None
                         /\ controller'.parser.psbt.multisig /\ backStack'[i].cls \in ReviewZone
                         =>
                           \/ VerifiedBefore(backStack'[i], controller'.parser, shown')
                           \/ \E j \in Places' : j > i /\ backStack'[j].cls = "MultisigWalletDescriptorView"
    BY Zenon DEF DescriptorOK
  <2>1. i \in Places /\ i <= n /\ backStack'[i] = backStack[i]
    BY <1>3
  <2>3. CASE view.cls = "MultisigWalletDescriptorView"
    <3>1. i < Len(backStack) /\ Len(backStack) \in Places
      BY <1>1, <1>2, <1>4, <2>1 DEF Places
    <3>2. backStack[i].cls # "MultisigWalletDescriptorView"
      BY <1>4, <2>1, <2>3, <3>1 DEF ReviewInv, ReviewStacked, DescriptorScreens
    <3> QED BY <1>7, <2>1, <2>3, <3>2
  <2>4. CASE view.cls # "MultisigWalletDescriptorView"
    <3>0. ASSUME NEW j \in Places, j > i, backStack[j].cls = "MultisigWalletDescriptorView",
                 backStack[i].cls \in ReviewZone
        PROVE  \E k \in Places' : k > i /\ backStack'[k].cls = "MultisigWalletDescriptorView"
      <4>1. CASE j <= n
        BY <1>2, <1>3, <3>0, <4>1 DEF Places
      <4>2. CASE j > n
        <5>1. backStack[n].cls = "MultisigWalletDescriptorView" /\ n \in Places' /\ backStack'[n] = backStack[n]
          BY <1>2, <1>3, <1>5, <2>4, <3>0, <4>2
        <5>2. "MultisigWalletDescriptorView" \notin ReviewZone
          BY DEF ReviewZone, ReviewScreens
        <5>3. n > i
          BY <1>2, <1>3, <2>1, <3>0, <5>1, <5>2
        <5> QED BY <5>1, <5>3
      <4> QED BY <1>2, <1>3, <4>1, <4>2
    <3> QED BY Zenon, <1>7, <2>1, <2>4, <3>0, ReachedStays DEF ReviewInv, DescriptorOK
  <2> QED BY <2>3, <2>4
<1> QED BY <1>8, <1>9, <1>10, <1>11, <1>12, <1>13, <1>14 DEF ReviewInv

LEMMA ForwardKeeps ==
  ASSUME IInv, ReviewInv, NEW d, NEW temps, NEW displayed, NEW m,
         ~GoesBack(d), ~d.clear, Landed(d, m), view' # Home,
         controller' = temps, shown' = shown \union displayed,
         view.cls \notin {"PSBTOverviewView", "PSBTSignedQRDisplayView"},
         view.cls = "MultisigWalletDescriptorView" => ~d.skip,
         temps.parser = controller.parser, temps.psbtSeed = controller.psbtSeed,
         IF d.cls = "PSBTSignedQRDisplayView"
         THEN temps.psbt = Trimmed(controller.parser.psbt, controller.parser.seed)
         ELSE temps.psbt = controller.psbt,
         IF d.cls = "MultisigWalletDescriptorView" THEN temps.descriptor # None
         ELSE temps.descriptor = controller.descriptor,
         MayFollow(d), ReviewFollows(d, temps, shown \union displayed),
         ResumeFollows(d, temps, shown \union displayed)
  PROVE  ReviewInv'
<1>1. /\ Len(backStack) \in Nat
      /\ view # Home => Len(backStack) > 0 /\ backStack[Len(backStack)] = view
      /\ view = Home => Len(backStack) = 0 /\ view.cls = "MainMenuView"
  BY ViewIsOnTop DEF Home, Entry, To
<1>2. /\ m \in 0..Len(backStack) /\ Len(backStack') = m + 1 /\ view' = Entry(d) /\ backStack'[m + 1] = view'
      /\ \A i \in 1..m : backStack'[i] = backStack[i]
      /\ m = Kept(d) \/ (m + 1 = Kept(d) /\ view' = backStack[m + 1])
  BY DEF Landed
<1>3. /\ Places' = 1..(m + 1) /\ Places \subseteq Nat
      /\ \A i \in Places' :
           \/ i \in Places /\ i <= m /\ backStack'[i] = backStack[i]
           \/ i = m + 1 /\ backStack'[i] = view'
      /\ \A i \in Places : i <= m => i \in Places' /\ backStack'[i] = backStack[i]
      /\ m + 1 \in Places'
  BY <1>1, <1>2 DEF Places
<1>4. view'.cls = d.cls /\ view'.args = d.args /\ d.cls # "PSBTOverviewView"
  BY <1>2 DEF Entry, MayFollow
\* What is lost of the stack.
<1>5. \A k \in Places : k > m =>
        \/ backStack[k] = view /\ k = Len(backStack) /\ (d.skip \/ view' = view)
        \/ backStack[k] = view' /\ k = m + 1
  <2> SUFFICES ASSUME NEW k \in Places, k > m
               PROVE  \/ backStack[k] = view /\ k = Len(backStack) /\ (d.skip \/ view' = view)
                      \/ backStack[k] = view' /\ k = m + 1
    OBVIOUS
  <2>1. k \in Nat /\ k <= Len(backStack) /\ Len(backStack) > 0 /\ backStack[Len(backStack)] = view
    BY <1>1 DEF Places
  <2>2. CASE d.skip
    BY <1>1, <1>2, <2>1, <2>2 DEF Kept
  <2>3. CASE ~d.skip
    BY <1>1, <1>2, <2>1, <2>3 DEF Kept
  <2> QED BY <2>2, <2>3
<1>6. /\ Idle' <=> Idle
      /\ controller'.parser = controller.parser /\ controller'.psbtSeed = controller.psbtSeed
  BY DEF Idle
<1>7. UnderReview => UnderReview'
  <2> SUFFICES ASSUME NEW k \in Places, backStack[k].cls = "PSBTOverviewView" PROVE UnderReview'
    BY DEF UnderReview
  <2>1. k <= m
    BY <1>1, <1>2, <1>3, <1>4, <1>5
  <2> QED BY <1>3, <2>1 DEF UnderReview
<1>8. ReviewStacked'
  <2> SUFFICES ASSUME NEW i \in Places', NEW j \in Places', i < j
               PROVE  /\ backStack'[i].cls \in OfReview => backStack'[j].cls \in Beyond
                      /\ backStack'[i].cls # "PSBTSignedQRDisplayView"
                      /\ backStack'[i].cls = "MultisigWalletDescriptorView" =>
                           backStack'[j].cls \notin DescriptorScreens
    BY DEF ReviewStacked
  <2>1. i \in Places /\ i <= m /\ backStack'[i] = backStack[i]
    BY <1>2, <1>3
  <2>2. CASE j \in Places /\ backStack'[j] = backStack[j]
    BY <2>1, <2>2 DEF ReviewInv, ReviewStacked
  <2>3. CASE j = m + 1 /\ backStack'[j] = view'
    <3>1. \/ i = Len(backStack) /\ backStack[i] = view
          \/ i < Len(backStack) /\ Len(backStack) \in Places /\ backStack[Len(backStack)] = view
      BY <1>1, <2>1 DEF Places
    <3>2. Beyond \subseteq OfReview
      BY DEF OfReview
    <3>3. backStack[i].cls \in OfReview => view.cls \in OfReview
      BY <2>1, <3>1, <3>2 DEF ReviewInv, ReviewStacked
    <3>4. backStack[i].cls # "PSBTSignedQRDisplayView"
      BY <2>1, <3>1 DEF ReviewInv, ReviewStacked
    <3> QED BY <1>4, <2>1, <2>3, <3>3, <3>4 DEF MayFollow
  <2> QED BY <1>3, <2>2, <2>3
<1>9. ReviewArgs'
  <2> SUFFICES ASSUME NEW i \in Places'
               PROVE  /\ backStack'[i].cls = "ErrorView" => i > 1 /\ backStack'[i - 1].cls \in DOMAIN ScannerFor
                      /\ backStack'[i].cls = "SeedSelectSeedView" =>
                           backStack'[i].args.flow \in {"singlesig_addr", "sign_message"}
                      /\ backStack'[i].cls \in {"PSBTAddressDetailsView", "PSBTChangeDetailsView"} =>
                           backStack'[i].args.num \in Nat
    BY DEF ReviewArgs
  <2>1. CASE i \in Places /\ i <= m /\ backStack'[i] = backStack[i]
    <3>1. i > 1 => i - 1 \in Places /\ i - 1 <= m /\ backStack'[i - 1] = backStack[i - 1]
      BY <1>1, <1>2, <1>3, <2>1 DEF Places
    <3> QED BY <2>1, <3>1 DEF ReviewInv, ReviewArgs
  <2>2. CASE i = m + 1 /\ backStack'[i] = view'
    <3>1. ASSUME d.cls = "ErrorView" PROVE i > 1 /\ backStack'[i - 1].cls \in DOMAIN ScannerFor
      <4>1. ~d.skip /\ view.cls \in DOMAIN ScannerFor /\ view # Home /\ view.cls # "ErrorView"
        BY <3>1 DEF MayFollow, ScannerFor, Home, Entry, To
      <4>2. m = Len(backStack) /\ m > 0
        BY <1>1, <1>2, <1>4, <3>1, <4>1 DEF Kept
      <4> QED BY <1>1, <1>2, <2>2, <4>1, <4>2
    <3> QED BY <1>4, <2>2, <3>1 DEF MayFollow
  <2> QED BY <1>3, <2>1, <2>2
<1>10. ReviewReached'
  <2> SUFFICES ASSUME NEW i \in Places'
               PROVE  /\ backStack'[i].cls \in ReviewZone =>
                           \/ UnderReview' /\ Reached(backStack'[i], controller'.parser, shown')
                           \/ backStack'[i].cls = "PSBTChangeDetailsView" /\ Idle'
                      /\ backStack'[i].cls \in DescriptorScreens /\ controller'.resume = "psbt" =>
                           \/ UnderReview' /\ Reached(backStack'[i], controller'.parser, shown')
                           \/ Idle'
    BY DEF ReviewReached
  <2>1. CASE i \in Places /\ backStack'[i] = backStack[i]
    <3>1. backStack[i].cls \in ReviewZone =>
            \/ UnderReview /\ Reached(backStack[i], controller.parser, shown')
            \/ backStack[i].cls = "PSBTChangeDetailsView" /\ Idle
      BY Zenon, <2>1, ReachedStays DEF ReviewInv, ReviewReached
    <3>2. backStack[i].cls \in DescriptorScreens /\ controller'.resume = "psbt" =>
            \/ UnderReview /\ Reached(backStack[i], controller.parser, shown')
            \/ Idle
      BY <2>1, ReachedStays DEF ReviewInv, ReviewReached, ResumeFollows
    <3> QED BY <1>6, <1>7, <2>1, <3>1, <3>2
  <2>2. CASE backStack'[i] = view'
    BY <1>2, <1>4, <1>6, <1>7, <2>2 DEF ReviewFollows
  <2> QED BY <1>3, <2>1, <2>2
<1>11. ScanIsApart'
  <2> SUFFICES ASSUME NEW i \in Places', backStack'[i].cls = "ScanView", ~Idle,
                      \/ controller'.resume = "psbt"
                      \/ \E j \in Places' : j > i /\ backStack'[j].cls = "PSBTSelectSeedView"
               PROVE  UnderReview
    BY <1>6, <1>7 DEF ScanIsApart
  <2>1. CASE i \in Places /\ i <= m /\ backStack'[i] = backStack[i]
    <3>1. CASE controller'.resume = "psbt"
      BY <2>1, <3>1 DEF ReviewInv, ScanIsApart, ResumeFollows
    <3>2. CASE \E j \in Places' : j > i /\ backStack'[j].cls = "PSBTSelectSeedView"
      BY <1>3, <1>4, <2>1, <3>2 DEF ReviewInv, ScanIsApart, MayFollow
    <3> QED BY <2>1, <3>1, <3>2
  <2>2. CASE i = m + 1 /\ backStack'[i] = view'
    <3>1. controller'.resume # "psbt"
      BY <1>4, <2>2 DEF ResumeFollows
    <3>2. \A j \in Places' : ~(j > i)
      BY <1>2, <1>3, <2>2
    <3> QED BY <3>1, <3>2
  <2> QED BY <1>3, <2>1, <2>2
<1>12. ParserOK'
  BY <1>4, <1>6 DEF ReviewInv, ParserOK
<1>13. OverviewOK'
  <2> SUFFICES ASSUME NEW i \in Places', backStack'[i].cls = "PSBTOverviewView"
               PROVE  /\ controller.psbtSeed # None /\ controller.parser # None
                      /\ controller.parser.seed = controller.psbtSeed
                      /\ i < Len(backStack')
    BY <1>6 DEF OverviewOK
  <2>1. i \in Places /\ i \in Nat /\ i <= m /\ backStack[i].cls = "PSBTOverviewView"
    BY <1>3, <1>4
  <2>2. i < Len(backStack)
    BY <1>1, <2>1 DEF Places
  <2>3. i < Len(backStack')
    BY <1>1, <1>2, <2>1
  <2> QED BY <2>1, <2>2, <2>3 DEF ReviewInv, OverviewOK
<1>14. DescriptorOK'
  <2> SUFFICES ASSUME NEW i \in Places'
               PROVE  /\ backStack'[i].cls = "MultisigWalletDescriptorView" => temps.descriptor # None
                      /\ /\ ~Idle /\ temps.descriptor # None
                         /\ controller.parser.psbt.multisig /\ backStack'[i].cls \in ReviewZone
                         =>
                           \/ VerifiedBefore(backStack'[i], controller.parser, shown')
                           \/ \E j \in Places' : j > i /\ backStack'[j].cls = "MultisigWalletDescriptorView"
    BY Zenon, <1>6 DEF DescriptorOK
  <2>1. CASE i \in Places /\ i <= m /\ backStack'[i] = backStack[i]
    <3>1. backStack[i].cls = "MultisigWalletDescriptorView" => temps.descriptor # None
      BY <2>1 DEF ReviewInv, DescriptorOK
    <3>2. ASSUME NEW j \in Places, j > i, backStack[j].cls = "MultisigWalletDescriptorView"
          PROVE  \E k \in Places' : k > i /\ backStack'[k].cls = "MultisigWalletDescriptorView"
      <4>1. CASE j <= m
        BY <1>3, <3>2, <4>1
      <4>2. CASE j > m
        <5>1. view' = backStack[j] /\ m + 1 > i
          BY <1>2, <1>3, <1>5, <2>1, <3>2, <4>2
        <5> QED BY <1>2, <1>3, <3>2, <5>1
      <4> QED BY <1>2, <1>3, <3>2, <4>1, <4>2
    <3>3. d.cls = "MultisigWalletDescriptorView" =>
            \E k \in Places' : k > i /\ backStack'[k].cls = "MultisigWalletDescriptorView"
      BY <1>2, <1>3, <1>4, <2>1
    <3>4. CASE d.cls # "MultisigWalletDescriptorView"
      BY Zenon, <2>1, <3>1, <3>2, <3>4, ReachedStays DEF ReviewInv, DescriptorOK
    <3> QED BY <2>1, <3>1, <3>3, <3>4
  <2>2. CASE backStack'[i] = view'
    BY <1>2, <1>4, <2>2 DEF ReviewFollows
  <2> QED BY <1>3, <2>1, <2>2
<1> QED BY <1>8, <1>9, <1>10, <1>11, <1>12, <1>13, <1>14 DEF ReviewInv

\* To a history without screens of the review: from outside of it, by clearing the
\* history, or back from the overview.
LEMMA CleanKeeps ==
  ASSUME IInv, ReviewInv, NEW m \in 0..Len(backStack),
         Len(backStack') = m + 1, view' = backStack'[m + 1], view' # Home,
         \A i \in 1..m : backStack'[i] = backStack[i] /\ backStack[i].cls \notin OfReview,
         view'.cls \notin ReviewZone \union DescriptorScreens \union {"PSBTOverviewView", "ErrorView"},
         view'.cls = "SeedSelectSeedView" => view'.args.flow \in {"singlesig_addr", "sign_message"},
         ParserOK', ScanIsApart'
  PROVE  ReviewInv'
<1>1. /\ Len(backStack) \in Nat /\ m \in Nat
      /\ Places' = 1..(m + 1)
      /\ \A i \in Places' :
           \/ i \in Places /\ i <= m /\ backStack'[i] = backStack[i] /\ backStack[i].cls \notin OfReview
           \/ i = m + 1 /\ backStack'[i] = view'
  BY ViewIsOnTop DEF Places
<1>2. \A i \in Places' :
        backStack'[i].cls \notin ReviewZone \union DescriptorScreens \union {"PSBTOverviewView", "ErrorView"}
  BY <1>1 DEF OfReview, Beyond
<1>3. ReviewStacked'
  <2> SUFFICES ASSUME NEW i \in Places', NEW j \in Places', i < j
               PROVE  /\ backStack'[i].cls \notin OfReview
                      /\ backStack'[i].cls # "PSBTSignedQRDisplayView"
                      /\ backStack'[i].cls # "MultisigWalletDescriptorView"
    BY DEF ReviewStacked
  <2>1. backStack'[i].cls \notin OfReview
    BY <1>1
  <2> QED BY <1>2, <2>1 DEF ReviewZone, DescriptorScreens
<1>4. ReviewArgs'
  <2> SUFFICES ASSUME NEW i \in Places'
               PROVE  /\ backStack'[i].cls # "ErrorView"
                      /\ backStack'[i].cls \notin {"PSBTAddressDetailsView", "PSBTChangeDetailsView"}
                      /\ backStack'[i].cls = "SeedSelectSeedView" =>
                           backStack'[i].args.flow \in {"singlesig_addr", "sign_message"}
    BY DEF ReviewArgs
  <2>1. backStack'[i].cls \notin {"ErrorView", "PSBTAddressDetailsView", "PSBTChangeDetailsView"}
    BY <1>2 DEF ReviewZone, ReviewScreens
  <2>2. backStack'[i].cls = "SeedSelectSeedView" =>
          backStack'[i].args.flow \in {"singlesig_addr", "sign_message"}
    BY <1>1 DEF ReviewInv, ReviewArgs
  <2> QED BY <2>1, <2>2
<1>5. ReviewReached'
  BY <1>2 DEF ReviewReached
<1>6. OverviewOK'
  BY <1>2 DEF OverviewOK
<1>7. DescriptorOK'
  BY <1>2 DEF DescriptorOK, DescriptorScreens
<1> QED BY <1>3, <1>4, <1>5, <1>6, <1>7 DEF ReviewInv

\* ParserOK and ScanIsApart where the transaction stays, or is a new one.
LEMMA CleanParser ==
  ASSUME ReviewInv, view' # Home, view.cls # "PSBTSignedQRDisplayView", view'.cls # "PSBTSignedQRDisplayView",
         \/ /\ controller'.parser = controller.parser
            /\ controller'.psbt = controller.psbt
         \/ /\ controller'.parser = None
            /\ controller'.psbt \in Transactions \union {None}
  PROVE  ParserOK'
  BY DEF ReviewInv, ParserOK

LEMMA CleanScan ==
  ASSUME IInv, ReviewInv, NEW m \in 0..Len(backStack),
         Len(backStack') = m + 1, view' = backStack'[m + 1],
         \A i \in 1..m : backStack'[i] = backStack[i] /\ backStack[i].cls \notin OfReview,
         \/ controller'.parser = None \/ controller'.psbtSeed = None
         \/ view'.cls # "ScanView" /\ \A i \in 1..m : backStack[i].cls # "ScanView"
  PROVE  ScanIsApart'
<1>1. /\ Len(backStack) \in Nat /\ m \in Nat /\ Places' = 1..(m + 1)
      /\ \A i \in Places' : (i \in 1..m /\ backStack'[i] = backStack[i]) \/ (i = m + 1 /\ backStack'[i] = view')
  BY ViewIsOnTop DEF Places
<1>2. CASE controller'.parser = None \/ controller'.psbtSeed = None
  BY <1>2 DEF ScanIsApart, Idle
<1>3. CASE view'.cls # "ScanView" /\ \A i \in 1..m : backStack[i].cls # "ScanView"
  BY <1>1, <1>3 DEF ScanIsApart
<1> QED BY <1>2, <1>3

\* To the overview of a transaction, with the seed that has been chosen for it.
LEMMA OverviewKeeps ==
  ASSUME IInv, ReviewInv, NEW m \in 0..Len(backStack),
         Len(backStack') = m + 1, view' = backStack'[m + 1], view'.cls = "PSBTOverviewView",
         \A i \in 1..m : backStack'[i] = backStack[i] /\ backStack[i].cls \notin OfReview,
         view.cls # "PSBTSignedQRDisplayView",
         controller'.psbt = controller.psbt, controller'.psbt # None,
         controller'.parser = controller.parser, controller'.psbtSeed # None
  PROVE  ReviewInv'
<1>1. /\ Len(backStack) \in Nat /\ m \in Nat
      /\ Places' = 1..(m + 1)
      /\ \A i \in Places' :
           \/ i \in Places /\ i <= m /\ backStack'[i] = backStack[i] /\ backStack[i].cls \notin OfReview
           \/ i = m + 1 /\ backStack'[i] = view'
  BY ViewIsOnTop DEF Places
<1>2. /\ \A i \in Places' :
           backStack'[i].cls \notin ReviewZone \union DescriptorScreens \union {"ErrorView"}
      /\ \A i \in Places' : backStack'[i].cls = "PSBTOverviewView" => i = m + 1
  BY <1>1 DEF OfReview, Beyond, ReviewZone, ReviewScreens, DescriptorScreens
<1>3. ReviewStacked'
  <2> SUFFICES ASSUME NEW i \in Places', NEW j \in Places', i < j
               PROVE  /\ backStack'[i].cls \notin OfReview
                      /\ backStack'[i].cls # "PSBTSignedQRDisplayView"
                      /\ backStack'[i].cls # "MultisigWalletDescriptorView"
    BY DEF ReviewStacked
  <2>1. backStack'[i].cls \notin OfReview
    BY <1>1
  <2> QED BY <1>2, <2>1 DEF ReviewZone, DescriptorScreens
<1>4. ReviewArgs'
  <2> SUFFICES ASSUME NEW i \in Places'
               PROVE  /\ backStack'[i].cls # "ErrorView"
                      /\ backStack'[i].cls \notin {"PSBTAddressDetailsView", "PSBTChangeDetailsView"}
                      /\ backStack'[i].cls = "SeedSelectSeedView" =>
                           backStack'[i].args.flow \in {"singlesig_addr", "sign_message"}
    BY DEF ReviewArgs
  <2>1. backStack'[i].cls \notin {"ErrorView", "PSBTAddressDetailsView", "PSBTChangeDetailsView"}
    BY <1>2 DEF ReviewZone, ReviewScreens
  <2>2. backStack'[i].cls = "SeedSelectSeedView" =>
          backStack'[i].args.flow \in {"singlesig_addr", "sign_message"}
    BY <1>1 DEF ReviewInv, ReviewArgs
  <2> QED BY <2>1, <2>2
<1>5. ReviewReached'
  BY <1>2 DEF ReviewReached
<1>6. UnderReview'
  BY <1>1 DEF UnderReview
<1>7. ParserOK'
  BY DEF ReviewInv, ParserOK, Home, Entry, To
<1>8. OverviewOK'
  BY <1>1, <1>2 DEF OverviewOK, ReviewInv, ParserOK
<1>9. DescriptorOK'
  BY <1>2 DEF DescriptorOK, DescriptorScreens
<1> QED BY <1>3, <1>4, <1>5, <1>6, <1>7, <1>8, <1>9 DEF ReviewInv, ScanIsApart

\* From the overview to the first screen of the review.
LEMMA BeginsKeep ==
  ASSUME IInv, ReviewInv, view.cls = "PSBTOverviewView",
         NEW parser, parser.seed = controller.psbtSeed, parser # None,
         parser = [psbt |-> parser.psbt, seed |-> parser.seed],
         parser.psbt = controller.psbt,
         Len(backStack') = Len(backStack) + 1, view' = backStack'[Len(backStack) + 1],
         \A i \in Places : backStack'[i] = backStack[i],
         view'.cls \in {"PSBTNoChangeWarningView", "PSBTMathView"},
         controller' = [controller EXCEPT !.parser = parser]
  PROVE  ReviewInv'
<1> DEFINE n == Len(backStack)
<1>1. n \in Nat /\ n > 0 /\ backStack[n] = view
  BY ViewIsOnTop DEF Home, Entry, To
<1>2. \A i \in Places : i < n => backStack[i].cls \notin OfReview
  BY OutsideOfReview
<1>3. /\ Places' = 1..(n + 1) /\ n + 1 \in Places' /\ n \in Places' /\ n \in Places
      /\ \A i \in Places' :
           \/ i \in Places /\ i < n /\ backStack'[i] = backStack[i] /\ backStack[i].cls \notin OfReview
           \/ i = n /\ backStack'[i] = view
           \/ i = n + 1 /\ backStack'[i] = view'
  BY <1>1, <1>2 DEF Places
<1>4. Len(backStack') = n + 1
  OBVIOUS
<1> HIDE DEF n
<1>5. /\ controller'.parser = parser /\ controller'.psbt = controller.psbt
      /\ controller'.psbtSeed = controller.psbtSeed /\ controller'.descriptor = controller.descriptor
  OBVIOUS
<1>6. controller.psbtSeed # None /\ controller.psbt \in Transactions
  BY <1>1, <1>3 DEF ReviewInv, OverviewOK, n
<1>7. UnderReview' /\ ~Idle'
  BY <1>3, <1>5, <1>6 DEF UnderReview, Idle
<1>8. /\ \A i \in Places' : i # n + 1 => backStack'[i].cls \notin Beyond
      /\ \A i \in Places' : backStack'[i].cls = "PSBTOverviewView" => i = n
      /\ view'.cls \in ReviewZone /\ view'.cls \in Beyond
      /\ view'.cls \notin DescriptorScreens \union
           {"PSBTFinalizeView", "PSBTSigningErrorView", "PSBTSignedQRDisplayView",
            "PSBTAddressDetailsView", "PSBTChangeDetailsView", "PSBTOverviewView",
            "ErrorView", "SeedSelectSeedView"}
  <2>1. "PSBTOverviewView" \notin Beyond /\ "PSBTOverviewView" \in OfReview /\ Beyond \subseteq OfReview
    BY DEF Beyond, OfReview, ReviewZone, ReviewScreens, DescriptorScreens
  <2>2. /\ view'.cls \in ReviewZone /\ view'.cls \in Beyond
        /\ view'.cls \notin DescriptorScreens \union
             {"PSBTFinalizeView", "PSBTSigningErrorView", "PSBTSignedQRDisplayView",
              "PSBTAddressDetailsView", "PSBTChangeDetailsView", "PSBTOverviewView",
              "ErrorView", "SeedSelectSeedView"}
    BY DEF Beyond, ReviewZone, ReviewScreens, DescriptorScreens
  <2> QED BY <1>1, <1>3, <2>1, <2>2
<1>9. ReviewStacked'
  <2> SUFFICES ASSUME NEW i \in Places', NEW j \in Places', i < j
               PROVE  /\ backStack'[i].cls \in OfReview => backStack'[j].cls \in Beyond
                      /\ backStack'[i].cls \notin {"PSBTSignedQRDisplayView", "MultisigWalletDescriptorView"}
    BY DEF ReviewStacked
  <2>1. i # n + 1
    BY <1>1, <1>3
  <2>2. backStack'[i].cls \notin Beyond /\ (i < n => backStack'[i].cls \notin OfReview)
    BY <1>1, <1>3, <1>8, <2>1
  <2>3. i = n => backStack'[j] = view'
    BY <1>1, <1>3
  <2> QED BY <1>1, <1>3, <1>8, <2>1, <2>2, <2>3 DEF Beyond, ReviewZone, DescriptorScreens
<1>10. ReviewArgs'
  <2> SUFFICES ASSUME NEW i \in Places'
               PROVE  /\ backStack'[i].cls # "ErrorView"
                      /\ backStack'[i].cls \notin {"PSBTAddressDetailsView", "PSBTChangeDetailsView"}
                      /\ backStack'[i].cls = "SeedSelectSeedView" =>
                           backStack'[i].args.flow \in {"singlesig_addr", "sign_message"}
    BY DEF ReviewArgs
  <2>1. backStack'[i].cls \notin {"ErrorView", "PSBTAddressDetailsView", "PSBTChangeDetailsView"}
    BY <1>3, <1>8 DEF Beyond, ReviewZone, ReviewScreens
  <2>2. backStack'[i].cls = "SeedSelectSeedView" => i \in Places /\ backStack'[i] = backStack[i]
    BY <1>3, <1>8
  <2> QED BY <2>1, <2>2 DEF ReviewInv, ReviewArgs
<1>11. \A items : Reached(view', parser, items) /\ VerifiedBefore(view', parser, items)
  <2>1. DestsBefore(view', parser.psbt) = 0 /\ ChangeBefore(view', parser.psbt) = 0
    BY DEF DestsBefore, ChangeBefore
  <2>2. view'.cls \notin {"PSBTFinalizeView", "PSBTSigningErrorView", "PSBTSignedQRDisplayView"}
    BY <1>8
  <2>3. \A k \in Nat : ~(k < 0)
    OBVIOUS
  <2> QED BY Zenon, <2>1, <2>2, <2>3 DEF Reached, VerifiedBefore
<1>12. ReviewReached'
  BY <1>3, <1>5, <1>7, <1>8, <1>11 DEF ReviewReached, Beyond
<1>13. ScanIsApart'
  BY <1>7 DEF ScanIsApart
<1>14. ParserOK'
  <2>1. view' # Home /\ view'.cls # "PSBTSignedQRDisplayView"
    BY DEF Home, Entry, To
  <2> QED BY <1>5, <1>6, <2>1 DEF ParserOK
<1>15. OverviewOK'
  BY <1>1, <1>3, <1>4, <1>5, <1>6, <1>8 DEF OverviewOK
<1>16. DescriptorOK'
  <2>1. \A i \in Places' : backStack'[i].cls # "MultisigWalletDescriptorView"
    BY <1>3, <1>8 DEF Beyond, DescriptorScreens
  <2> QED BY <1>3, <1>5, <1>8, <1>11, <2>1 DEF DescriptorOK, Beyond
<1> QED BY <1>9, <1>10, <1>12, <1>13, <1>14, <1>15, <1>16 DEF ReviewInv

LEMMA AsideIsOutside == Aside <=> view.cls \notin OfReview
BY DEF Aside, OfReview, Beyond, ReviewZone, ReviewScreens, DescriptorScreens

\* A turn that has nothing to do with the review.
LEMMA UndisturbedTurn ==
  ASSUME IInv, SigningInv, NEW d, NEW temps, NEW stored, NEW displayed,
         KnownStep(d, temps, stored), Undisturbed(temps), Turn(d, temps, stored, displayed),
         view.cls \notin {"PSBTOverviewView", "MultisigWalletDescriptorView", "PSBTSignedQRDisplayView"},
         \/ GoesBack(d) /\ ~d.clear /\ (d.skip => Aside)
         \/ ~GoesBack(d) /\ NoReview(d.cls) /\ (Aside \/ d.clear \/ d.cls \in Beyond \union {"MainMenuView"})
  PROVE  SigningInv'
<1>1. KnownSeeds'
  BY KnownTurn DEF SigningInv
<1>2. d.skip => view.cls # "MainMenuView"
  BY DEF KnownStep
<1>3. CASE view' = Home /\ backStack' = << >> /\ controller' = Wiped(temps)
  BY <1>1, <1>3, HomeKeeps DEF SigningInv
<1>4. ASSUME NEW m, Landed(d, m), view' # Home, controller' = temps, shown' = shown \union displayed
      PROVE  ReviewInv'
  <2>1. Len(backStack) \in Nat /\ m \in 0..Len(backStack) /\ Len(backStack') = m + 1 /\ view' = backStack'[m + 1]
    BY <1>4, ViewIsOnTop DEF Landed
  <2>2. CASE GoesBack(d)
    <3>1. ASSUME d.skip
          PROVE  backStack[Len(backStack) - 1].cls \notin {"PSBTOverviewView", "MultisigWalletDescriptorView"}
      <4>1. \A i \in Places : backStack[i].cls \notin OfReview
        BY <2>2, <3>1, AsideIsOutside, OutsideOfReview DEF SigningInv
      <4>2. Len(backStack) - 1 \in Places
        <5>1. \E k \in (m + 1)..(Len(backStack) - 1) : TRUE
          BY Zenon, <1>4, <2>2 DEF Landed
        <5> QED BY <2>1, <5>1 DEF Places
      <4> QED BY <4>1, <4>2 DEF OfReview, Beyond, DescriptorScreens
    <3> QED BY <1>4, <2>2, <3>1, BackKeeps DEF SigningInv
  <2>3. CASE ~GoesBack(d) /\ d.clear
    <3>1. m = 0 /\ view' = Entry(d)
      BY <1>4, <2>3 DEF Landed
    <3>2. view'.cls \notin ReviewZone \union DescriptorScreens \union
            {"PSBTOverviewView", "ErrorView", "SeedSelectSeedView", "ScanView", "PSBTSignedQRDisplayView"}
      BY <2>3, <3>1 DEF NoReview, Entry, ReviewZone, ReviewScreens, DescriptorScreens
    <3>3. ParserOK'
      BY <1>4, <3>2, CleanParser DEF Undisturbed, SigningInv
    <3>4. \A i \in 1..m : FALSE
      BY <3>1
    <3>5. ScanIsApart'
      BY <2>1, <3>2, <3>4, CleanScan DEF SigningInv
    <3> QED BY <1>4, <2>1, <3>2, <3>3, <3>4, <3>5, CleanKeeps DEF SigningInv
  <2>4. CASE ~GoesBack(d) /\ ~d.clear
    <3>1. d.cls # "MainMenuView"
      <4>1. view' = Entry(d) /\ (d.cls = "MainMenuView" => d.args = None)
        BY <1>4, <2>4 DEF Landed, KnownStep
      <4> QED BY <1>4, <4>1 DEF Entry, Home, To
    <3>2. /\ view.cls \in OfReview => d.cls \in Beyond
          /\ d.cls \notin ReviewZone \union DescriptorScreens
          /\ d.cls \notin {"PSBTOverviewView", "ErrorView", "SeedSelectSeedView", "ScanView", "PSBTSelectSeedView",
               "PSBTSignedQRDisplayView", "MultisigWalletDescriptorView", "PSBTAddressDetailsView", "PSBTChangeDetailsView",
               "BackStackView"}
      <4>1. view.cls \in OfReview => d.cls \in Beyond
        BY <2>4, <3>1, AsideIsOutside
      <4>2. d.cls \notin ReviewZone \union DescriptorScreens
        BY <2>4 DEF NoReview, ReviewZone, ReviewScreens, DescriptorScreens
      <4>3. d.cls # "BackStackView"
        BY <2>4 DEF GoesBack
      <4> QED BY <2>4, <4>1, <4>2, <4>3 DEF NoReview
    <3>3. MayFollow(d)
      BY <3>2 DEF MayFollow
    <3>4. ReviewFollows(d, temps, shown \union displayed)
      BY <3>2 DEF ReviewFollows
    <3>5. ResumeFollows(d, temps, shown \union displayed)
      BY <3>2 DEF ResumeFollows, Undisturbed
    <3>6. /\ temps.parser = controller.parser /\ temps.psbtSeed = controller.psbtSeed
          /\ temps.psbt = controller.psbt /\ temps.descriptor = controller.descriptor
      BY DEF Undisturbed
    <3> QED BY Zenon, <1>4, <2>4, <3>2, <3>3, <3>4, <3>5, <3>6, ForwardKeeps DEF SigningInv
  <2> QED BY <2>2, <2>3, <2>4
<1> QED BY <1>1, <1>2, <1>3, <1>4, Landing DEF SigningInv, IInv

\* From anywhere aside to a View that is not about a seed in memory.
LEMMA AsideTurn ==
  ASSUME IInv, SigningInv, Aside
  PROVE  \A d, temps, stored, displayed :
           /\ d.skip => view.cls # "MainMenuView"
           /\ Undisturbed(temps) /\ Keeps(stored)
           /\ (GoesBack(d) /\ ~d.clear) \/ (~GoesBack(d) /\ NoReview(d.cls) /\ NoSeedMenu(d.cls))
           /\ d.cls = "MainMenuView" => d.args = None
           /\ Turn(d, temps, stored, displayed)
           => SigningInv'
<1> SUFFICES ASSUME NEW d, NEW temps, NEW stored, NEW displayed,
                    d.skip => view.cls # "MainMenuView", Undisturbed(temps), Keeps(stored),
                    (GoesBack(d) /\ ~d.clear) \/ (~GoesBack(d) /\ NoReview(d.cls) /\ NoSeedMenu(d.cls)),
                    d.cls = "MainMenuView" => d.args = None,
                    Turn(d, temps, stored, displayed)
             PROVE  SigningInv'
  OBVIOUS
<1>1. ~GoesBack(d) => ~UnderSeeds(Entry(d)) /\ ~OfASeed(Entry(d))
  BY DEF NoSeedMenu, UnderSeeds, OfASeed, ScreensOfASeed, WordScreens, Entry
<1>2. temps.psbtSeed \in storage.seeds \union {None}
  BY DEF KnownSeeds, SigningInv, Undisturbed
<1>3. KnownStep(d, temps, stored)
  BY <1>1, <1>2 DEF KnownStep, Keeps
<1>4. view.cls \notin {"PSBTOverviewView", "MultisigWalletDescriptorView", "PSBTSignedQRDisplayView"}
  BY DEF Aside
<1> QED BY <1>3, <1>4, UndisturbedTurn

\* To a View about a seed, from one under "Seeds" or with the history cleared.
LEMMA SeedMenuTurn ==
  ASSUME IInv, SigningInv, Aside, view.cls # "MainMenuView"
  PROVE  \A d, stored, displayed :
           /\ Keeps(stored)
           /\ \/ GoesBack(d) /\ ~d.clear
              \/ /\ ~GoesBack(d) /\ NoReview(d.cls)
                 /\ OfASeed(Entry(d)) => d.args.seed \in stored.seeds
                 /\ UnderSeeds(Entry(d)) => d.clear \/ UnderSeeds(view)
           /\ d.cls = "MainMenuView" => d.args = None
           /\ Turn(d, controller, stored, displayed)
           => SigningInv'
<1> SUFFICES ASSUME NEW d, NEW stored, NEW displayed,
                    Keeps(stored),
                    \/ GoesBack(d) /\ ~d.clear
                    \/ /\ ~GoesBack(d) /\ NoReview(d.cls)
                       /\ OfASeed(Entry(d)) => d.args.seed \in stored.seeds
                       /\ UnderSeeds(Entry(d)) => d.clear \/ UnderSeeds(view),
                    d.cls = "MainMenuView" => d.args = None,
                    Turn(d, controller, stored, displayed)
             PROVE  SigningInv'
  OBVIOUS
<1>1. KnownStep(d, controller, stored)
  BY DEF KnownStep, KnownSeeds, SigningInv, Keeps
<1>2. view.cls \notin {"PSBTOverviewView", "MultisigWalletDescriptorView", "PSBTSignedQRDisplayView"}
  BY DEF Aside
<1>3. Undisturbed(controller)
  BY DEF Undisturbed
<1> QED BY <1>1, <1>2, <1>3, UndisturbedTurn

\* From a screen that the review leads to, and that has nothing to do with it.
LEMMA BeyondTurn ==
  ASSUME IInv, SigningInv,
         view.cls \notin {"PSBTOverviewView", "MultisigWalletDescriptorView",
                          "PSBTSignedQRDisplayView", "MainMenuView"}
  PROVE  \A d, temps, displayed :
           /\ Undisturbed(temps)
           /\ \/ GoesBack(d) /\ ~d.clear /\ ~d.skip
              \/ ~GoesBack(d) /\ d.clear /\ NoReview(d.cls) /\ NoSeedMenu(d.cls)
              \/ d.cls \in {"MainMenuView", "SeedAddressVerificationView", "SeedAddressVerificationSuccessView",
                    "ToolsAddressExplorerAddressTypeView", "ToolsAddressExplorerAddressListView",
                    "ToolsAddressExplorerAddressView", "NotYetImplementedView"}
           /\ d.cls = "MainMenuView" => d.args = None
           /\ Turn(d, temps, storage, displayed)
           => SigningInv'
<1> SUFFICES ASSUME NEW d, NEW temps, NEW displayed, Undisturbed(temps),
                    \/ GoesBack(d) /\ ~d.clear /\ ~d.skip
                    \/ ~GoesBack(d) /\ d.clear /\ NoReview(d.cls) /\ NoSeedMenu(d.cls)
                    \/ d.cls \in {"MainMenuView", "SeedAddressVerificationView", "SeedAddressVerificationSuccessView",
                          "ToolsAddressExplorerAddressTypeView", "ToolsAddressExplorerAddressListView",
                          "ToolsAddressExplorerAddressView", "NotYetImplementedView"},
                    d.cls = "MainMenuView" => d.args = None,
                    Turn(d, temps, storage, displayed)
             PROVE  SigningInv'
  OBVIOUS
<1>1. /\ ~GoesBack(d) => ~UnderSeeds(Entry(d)) /\ ~OfASeed(Entry(d))
      /\ GoesBack(d) => ~d.clear /\ ~d.skip
      /\ ~GoesBack(d) => NoReview(d.cls) /\ (d.clear \/ d.cls \in Beyond \union {"MainMenuView"})
  <2>1. CASE d.cls \in {"MainMenuView", "SeedAddressVerificationView", "SeedAddressVerificationSuccessView",
                        "ToolsAddressExplorerAddressTypeView", "ToolsAddressExplorerAddressListView",
                        "ToolsAddressExplorerAddressView", "NotYetImplementedView"}
    BY <2>1
       DEF NoReview, UnderSeeds, OfASeed, ScreensOfASeed, WordScreens, Entry, GoesBack, Beyond
  <2>2. CASE GoesBack(d) /\ ~d.clear /\ ~d.skip
    BY <2>2
  <2>3. CASE ~GoesBack(d) /\ d.clear /\ NoReview(d.cls) /\ NoSeedMenu(d.cls)
    BY <2>3 DEF NoSeedMenu, UnderSeeds, OfASeed, ScreensOfASeed, WordScreens, Entry
  <2> QED BY <2>1, <2>2, <2>3
<1>2. temps.psbtSeed \in storage.seeds \union {None}
  BY DEF KnownSeeds, SigningInv, Undisturbed
<1>3. KnownStep(d, temps, storage)
  BY <1>1, <1>2 DEF KnownStep
<1> QED BY <1>1, <1>3, UndisturbedTurn

\* The operations of SeedStorage that do not remove a seed.
LEMMA SameSeeds ==
  /\ Keeps(storage) /\ Keeps(DiscardPendingMnemonic) /\ Keeps(ClearPendingSeed) /\ Keeps(FinalizePendingSeed)
  /\ \A seed : Keeps(WithPending(seed))
  /\ \A p : Keeps(WithPassphrase(p))
  /\ \A e : Keeps(InitPendingMnemonic(e))
  /\ \A w, i : Keeps(UpdatePendingMnemonic(w, i))
  /\ \A m : Keeps([storage EXCEPT !.pendingMnemonic = m])
  /\ \A st : Keeps(st) => Keeps(ConvertPendingMnemonic(st))
BY DEF Keeps, WithPending, WithPassphrase, InitPendingMnemonic, DiscardPendingMnemonic,
       UpdatePendingMnemonic, ConvertPendingMnemonic, ClearPendingSeed, FinalizePendingSeed

\* The temps that a View may leave behind.
LEMMA UndisturbedTemps ==
  /\ Undisturbed(controller) /\ None # "psbt"
  /\ Undisturbed([controller EXCEPT !.resume = None])
  /\ Undisturbed([controller EXCEPT !.resume = "address_explorer"])
  /\ \A x : x # "psbt" => Undisturbed([controller EXCEPT !.resume = x])
  /\ \A x : Undisturbed([controller EXCEPT !.unverified = x])
  /\ \A x : Undisturbed([controller EXCEPT !.unverified.sigType = x])
  /\ \A x : Undisturbed([controller EXCEPT !.explorer = x])
  /\ \A x : Undisturbed([controller EXCEPT !.signData = x])
  /\ \A x : Undisturbed([controller EXCEPT !.signData.seed = x])
  /\ \A x, y : x # "psbt" => Undisturbed([controller EXCEPT !.resume = x, !.explorer = y])
  /\ \A x, y : x # "psbt" => Undisturbed([controller EXCEPT !.resume = x, !.signData = y])
  /\ \A x, y : x # "psbt" => Undisturbed([controller EXCEPT !.signData = y, !.resume = x])
  /\ \A c, x : Undisturbed(c) /\ x # "psbt" => Undisturbed([c EXCEPT !.resume = x])
BY NoneAssumption DEF Undisturbed

\* Home by whatever way.
LEMMA HomeTurn ==
  ASSUME IInv, SigningInv
  PROVE  \A d, temps, stored, displayed :
           d.cls = "MainMenuView" /\ d.args = None /\ Turn(d, temps, stored, displayed) => SigningInv'
<1> SUFFICES ASSUME NEW d, NEW temps, NEW stored, NEW displayed,
                    d.cls = "MainMenuView", d.args = None, Turn(d, temps, stored, displayed)
             PROVE  SigningInv'
  OBVIOUS
<1>1. view' = Home /\ backStack' = << >> /\ controller' = Wiped(temps)
  BY DEF Turn, Target, GoesBack, Entry, Home, To
<1>2. Len(<< >>) = 0
  OBVIOUS
<1>3. Wiped(temps).psbtSeed = None
  BY DEF Wiped, FreshController
<1>4. KnownSeeds'
  BY <1>1, <1>2, <1>3 DEF KnownSeeds, Places
<1> QED BY <1>1, <1>4, HomeKeeps DEF SigningInv

\* BACK.
LEMMA BackTurn ==
  ASSUME IInv, SigningInv, view.cls \notin {"PSBTOverviewView", "PSBTSignedQRDisplayView", "MainMenuView"}
  PROVE  \A d, temps, stored, displayed :
           /\ GoesBack(d) /\ ~d.clear /\ Keeps(stored)
           /\ IF view.cls = "MultisigWalletDescriptorView"
              THEN ~d.skip /\ temps = [controller EXCEPT !.descriptor = None]
              ELSE Undisturbed(temps)
           /\ d.skip => backStack[Len(backStack) - 1].cls \notin {"PSBTOverviewView", "MultisigWalletDescriptorView"}
           /\ Turn(d, temps, stored, displayed)
           => SigningInv'
<1> SUFFICES ASSUME NEW d, NEW temps, NEW stored, NEW displayed,
                    GoesBack(d), ~d.clear, Keeps(stored),
                    IF view.cls = "MultisigWalletDescriptorView"
                    THEN ~d.skip /\ temps = [controller EXCEPT !.descriptor = None]
                    ELSE Undisturbed(temps),
                    d.skip => backStack[Len(backStack) - 1].cls \notin {"PSBTOverviewView", "MultisigWalletDescriptorView"},
                    Turn(d, temps, stored, displayed)
             PROVE  SigningInv'
  OBVIOUS
<1>1. temps.psbtSeed = controller.psbtSeed
  <2>1. CASE view.cls = "MultisigWalletDescriptorView"
    <3>1. temps = [controller EXCEPT !.descriptor = None]
      BY <2>1
    <3> QED BY <3>1
  <2> QED BY <2>1 DEF Undisturbed
<1>2. KnownStep(d, temps, stored)
  BY <1>1 DEF KnownStep, KnownSeeds, SigningInv, Keeps
<1>3. KnownSeeds'
  BY <1>2, KnownTurn DEF SigningInv
<1>4. CASE view' = Home /\ backStack' = << >> /\ controller' = Wiped(temps)
  BY <1>3, <1>4, HomeKeeps DEF SigningInv
<1>5. ASSUME NEW m, Landed(d, m), view' # Home, controller' = temps, shown' = shown \union displayed
      PROVE  ReviewInv'
  BY <1>5, BackKeeps DEF SigningInv
<1> QED BY <1>3, <1>4, <1>5, Landing DEF SigningInv, IInv

\* Onward, to a View that is not about a seed in memory.
LEMMA OnwardTurn ==
  ASSUME IInv, SigningInv, view.cls \notin {"PSBTOverviewView", "PSBTSignedQRDisplayView"}
  PROVE  \A d, temps, stored, displayed :
           /\ ~GoesBack(d) /\ ~d.clear /\ d.cls # "MainMenuView" /\ NoSeedMenu(d.cls) /\ Keeps(stored)
           /\ d.skip => view.cls \notin {"MainMenuView", "MultisigWalletDescriptorView"}
           /\ temps.parser = controller.parser /\ temps.psbtSeed = controller.psbtSeed
           /\ IF d.cls = "PSBTSignedQRDisplayView"
              THEN temps.psbt = Trimmed(controller.parser.psbt, controller.parser.seed)
              ELSE temps.psbt = controller.psbt
           /\ IF d.cls = "MultisigWalletDescriptorView" THEN temps.descriptor # None
              ELSE temps.descriptor = controller.descriptor
           /\ MayFollow(d) /\ ReviewFollows(d, temps, shown \union displayed)
           /\ ResumeFollows(d, temps, shown \union displayed)
           /\ Turn(d, temps, stored, displayed)
           => SigningInv'
<1> SUFFICES ASSUME NEW d, NEW temps, NEW stored, NEW displayed,
                    ~GoesBack(d), ~d.clear, d.cls # "MainMenuView", NoSeedMenu(d.cls), Keeps(stored),
                    d.skip => view.cls \notin {"MainMenuView", "MultisigWalletDescriptorView"},
                    temps.parser = controller.parser, temps.psbtSeed = controller.psbtSeed,
                    IF d.cls = "PSBTSignedQRDisplayView"
                    THEN temps.psbt = Trimmed(controller.parser.psbt, controller.parser.seed)
                    ELSE temps.psbt = controller.psbt,
                    IF d.cls = "MultisigWalletDescriptorView" THEN temps.descriptor # None
                    ELSE temps.descriptor = controller.descriptor,
                    MayFollow(d), ReviewFollows(d, temps, shown \union displayed),
                    ResumeFollows(d, temps, shown \union displayed),
                    Turn(d, temps, stored, displayed)
             PROVE  SigningInv'
  OBVIOUS
<1>1. ~UnderSeeds(Entry(d)) /\ ~OfASeed(Entry(d))
  BY DEF NoSeedMenu, UnderSeeds, OfASeed, ScreensOfASeed, WordScreens, Entry
<1>2. KnownStep(d, temps, stored)
  BY <1>1 DEF KnownStep, KnownSeeds, SigningInv, Keeps
<1>3. KnownSeeds'
  BY <1>2, KnownTurn DEF SigningInv
<1>4. view' # Home
  BY DEF Turn, Target, Entry, Home, To
<1>5. ASSUME NEW m, Landed(d, m), controller' = temps, shown' = shown \union displayed
      PROVE  ReviewInv'
  BY Zenon, <1>4, <1>5, ForwardKeeps DEF SigningInv
<1> QED BY <1>3, <1>4, <1>5, Landing DEF SigningInv, IInv

\* From aside, to a scanner, to what is needed for a descriptor, to the choice of a
\* seed for a flow that is not a transaction's, or to an error screen.
LEMMA AsideOnward ==
  ASSUME IInv, SigningInv, Aside
  PROVE  \A d, temps, stored, displayed :
           /\ d.skip => view.cls # "MainMenuView"
           /\ ~GoesBack(d) /\ ~d.clear /\ Keeps(stored)
           /\ Undisturbed(temps)
           /\ \/ d.cls \in {"LoadMultisigWalletDescriptorView", "ScanWalletDescriptorView"} /\ temps.resume # "psbt"
              \/ d.cls = "ScanView" /\ (Idle \/ temps.resume # "psbt")
              \/ d.cls = "SeedSelectSeedView" /\ d.args.flow \in {"singlesig_addr", "sign_message"}
           /\ Turn(d, temps, stored, displayed)
           => SigningInv'
<1> SUFFICES ASSUME NEW d, NEW temps, NEW stored, NEW displayed,
                    d.skip => view.cls # "MainMenuView",
                    ~GoesBack(d), ~d.clear, Keeps(stored), Undisturbed(temps),
                    \/ d.cls \in {"LoadMultisigWalletDescriptorView", "ScanWalletDescriptorView"} /\ temps.resume # "psbt"
                    \/ d.cls = "ScanView" /\ (Idle \/ temps.resume # "psbt")
                    \/ d.cls = "SeedSelectSeedView" /\ d.args.flow \in {"singlesig_addr", "sign_message"},
                    Turn(d, temps, stored, displayed)
             PROVE  SigningInv'
  OBVIOUS
<1>1. /\ view.cls \notin OfReview /\ \A i \in Places : backStack[i].cls \notin OfReview
      /\ "MultisigWalletDescriptorView" \in OfReview
  <2>1. "MultisigWalletDescriptorView" \in OfReview
    BY DEF OfReview, Beyond, DescriptorScreens
  <2> QED BY <2>1, AsideIsOutside, OutsideOfReview DEF SigningInv
<1>2. view.cls \notin {"PSBTOverviewView", "PSBTSignedQRDisplayView", "MultisigWalletDescriptorView"}
  BY DEF Aside
<1>3. d.cls \in {"LoadMultisigWalletDescriptorView", "ScanWalletDescriptorView", "ScanView", "SeedSelectSeedView"}
  OBVIOUS
<1>4. NoSeedMenu(d.cls)
  BY <1>3 DEF NoSeedMenu
<1>5. d.cls \notin ReviewZone
  BY <1>3 DEF ReviewZone, ReviewScreens
<1>6. MayFollow(d)
  BY <1>1, <1>3 DEF MayFollow
<1>7. ReviewFollows(d, temps, shown \union displayed)
  <2>1. d.cls \in DescriptorScreens => temps.resume # "psbt"
    BY DEF DescriptorScreens
  <2> QED BY <1>5, <2>1 DEF ReviewFollows
<1>8. ResumeFollows(d, temps, shown \union displayed)
  BY DEF ResumeFollows, Undisturbed
<1>9. /\ temps.parser = controller.parser /\ temps.psbtSeed = controller.psbtSeed
      /\ temps.psbt = controller.psbt /\ temps.descriptor = controller.descriptor
  BY DEF Undisturbed
<1> QED BY <1>2, <1>3, <1>4, <1>6, <1>7, <1>8, <1>9, OnwardTurn

\* To a View outside of the review from outside of it, or with the history cleared; the
\* transaction, or the seed for it, may change.
LEMMA CleanTurn ==
  ASSUME IInv, SigningInv, view.cls # "PSBTSignedQRDisplayView"
  PROVE  \A d, temps, stored, displayed :
           /\ KnownStep(d, temps, stored)
           /\ (~GoesBack(d) /\ NoReview(d.cls)) \/ d.cls = "PSBTSelectSeedView"
           /\ \/ Aside \/ d.clear
              \/ view.cls = "PSBTOverviewView" /\ d.skip
           /\ \/ temps.parser = controller.parser /\ temps.psbt = controller.psbt
              \/ temps.parser = None /\ temps.psbt \in Transactions \union {None}
           /\ \/ temps.parser = None \/ temps.psbtSeed = None \/ d.clear
              \/ \A i \in Places : backStack[i].cls # "ScanView"
           /\ Turn(d, temps, stored, displayed)
           => SigningInv'
<1> SUFFICES ASSUME NEW d, NEW temps, NEW stored, NEW displayed,
                    KnownStep(d, temps, stored),
                    (~GoesBack(d) /\ NoReview(d.cls)) \/ d.cls = "PSBTSelectSeedView",
                    \/ Aside \/ d.clear
                    \/ view.cls = "PSBTOverviewView" /\ d.skip,
                    \/ temps.parser = controller.parser /\ temps.psbt = controller.psbt
                    \/ temps.parser = None /\ temps.psbt \in Transactions \union {None},
                    \/ temps.parser = None \/ temps.psbtSeed = None \/ d.clear
                    \/ \A i \in Places : backStack[i].cls # "ScanView",
                    Turn(d, temps, stored, displayed)
             PROVE  SigningInv'
  OBVIOUS
<1>1. KnownSeeds'
  BY KnownTurn DEF SigningInv
<1>2. CASE view' = Home /\ backStack' = << >> /\ controller' = Wiped(temps)
  BY <1>1, <1>2, HomeKeeps DEF SigningInv
<1>3. ASSUME NEW m, Landed(d, m), view' # Home, controller' = temps
      PROVE  ReviewInv'
  <2>1. /\ Len(backStack) \in Nat /\ m \in 0..Len(backStack) /\ Len(backStack') = m + 1
        /\ view' = backStack'[m + 1] /\ view' = Entry(d)
        /\ d.clear => m = 0
        /\ d.skip => m < Len(backStack)
        /\ \A i \in 1..m : backStack'[i] = backStack[i] /\ i \in Places
    BY <1>3, ViewIsOnTop DEF Landed, GoesBack, Places
  <2>2. \A i \in 1..m : backStack[i].cls \notin OfReview
    <3>1. CASE Aside
      BY <2>1, <3>1, AsideIsOutside, OutsideOfReview DEF SigningInv
    <3>2. CASE d.clear
      BY <2>1, <3>2
    <3>3. CASE view.cls = "PSBTOverviewView" /\ d.skip
      <4>1. \A i \in Places : i < Len(backStack) => backStack[i].cls \notin OfReview
        BY <3>3, OutsideOfReview DEF SigningInv
      <4>2. \A i \in 1..m : i < Len(backStack)
        BY <2>1, <3>3
      <4> QED BY <2>1, <4>1, <4>2
    <3> QED BY <3>1, <3>2, <3>3
  <2>3. view'.cls \notin ReviewZone \union DescriptorScreens \union
          {"PSBTOverviewView", "ErrorView", "SeedSelectSeedView", "ScanView", "PSBTSignedQRDisplayView"}
    <3>1. d.cls \notin {"PSBTOverviewView", "PSBTNoChangeWarningView", "PSBTMathView", "PSBTAddressDetailsView",
            "PSBTChangeDetailsView", "PSBTOpReturnView", "PSBTFinalizeView", "PSBTSigningErrorView",
            "PSBTSignedQRDisplayView", "LoadMultisigWalletDescriptorView", "ScanWalletDescriptorView",
            "MultisigWalletDescriptorView", "ScanView", "ErrorView", "SeedSelectSeedView"}
      BY DEF NoReview
    <3> QED BY <2>1, <3>1 DEF Entry, ReviewZone, ReviewScreens, DescriptorScreens
  <2>4. ParserOK'
    BY <1>3, <2>3, CleanParser DEF SigningInv
  <2>5. ScanIsApart'
    <3>1. \/ controller'.parser = None \/ controller'.psbtSeed = None
          \/ view'.cls # "ScanView" /\ \A i \in 1..m : backStack[i].cls # "ScanView"
      BY <1>3, <2>1, <2>3
    <3> QED BY Zenon, <2>1, <2>2, <3>1, CleanScan DEF SigningInv
  <2> QED BY Zenon, <1>3, <2>1, <2>2, <2>3, <2>4, <2>5, CleanKeeps DEF SigningInv
<1> QED BY <1>1, <1>2, <1>3, Landing DEF SigningInv, IInv, KnownStep

\* To the overview, with a seed in memory.
LEMMA OverviewTurn ==
  ASSUME IInv, SigningInv, Aside, controller.psbt # None, None \notin storage.seeds
  PROVE  \A d, temps :
           /\ d.skip => view.cls # "MainMenuView"
           /\ d.cls = "PSBTOverviewView" /\ ~d.clear
           /\ temps.psbt = controller.psbt /\ temps.parser = controller.parser
           /\ temps.psbtSeed \in storage.seeds
           /\ Turn(d, temps, storage, {})
           => SigningInv'
<1> SUFFICES ASSUME NEW d, NEW temps,
                    d.skip => view.cls # "MainMenuView",
                    d.cls = "PSBTOverviewView", ~d.clear,
                    temps.psbt = controller.psbt, temps.parser = controller.parser,
                    temps.psbtSeed \in storage.seeds,
                    Turn(d, temps, storage, {})
             PROVE  SigningInv'
  OBVIOUS
<1>1. KnownStep(d, temps, storage)
  BY DEF KnownStep, GoesBack, UnderSeeds, OfASeed, ScreensOfASeed, WordScreens, Entry
<1>2. KnownSeeds'
  BY <1>1, KnownTurn DEF SigningInv
<1>3. view' # Home /\ view' = Entry(d) /\ view'.cls = "PSBTOverviewView"
  BY DEF Turn, Target, GoesBack, Entry, Home, To
<1>4. ASSUME NEW m, Landed(d, m), controller' = temps
      PROVE  ReviewInv'
  <2>1. /\ Len(backStack) \in Nat /\ m \in 0..Len(backStack) /\ Len(backStack') = m + 1
        /\ view' = backStack'[m + 1]
        /\ \A i \in 1..m : backStack'[i] = backStack[i] /\ i \in Places
    BY <1>4, ViewIsOnTop DEF Landed, Places
  <2>2. \A i \in 1..m : backStack[i].cls \notin OfReview
    BY <2>1, AsideIsOutside, OutsideOfReview DEF SigningInv
  <2>3. view.cls # "PSBTSignedQRDisplayView"
    BY DEF Aside
  <2> QED BY <1>3, <1>4, <2>1, <2>2, <2>3, OverviewKeeps DEF SigningInv
<1> QED BY <1>2, <1>3, <1>4, Landing DEF SigningInv, IInv

\* A seed is wanted.
LEMMA WantsASeed ==
  \A f : LET d == ToWith("SeedSelectSeedView", [flow |-> f]) IN
    /\ d.cls = "SeedSelectSeedView" /\ d.args.flow = f /\ ~d.skip /\ ~d.clear /\ ~GoesBack(d)
    /\ Skipping(d).cls = "SeedSelectSeedView" /\ Skipping(d).args.flow = f
    /\ ~Skipping(d).clear /\ ~GoesBack(Skipping(d))
BY DEF ToWith, To, Skipping, GoesBack

\* No seed in memory is None.
LEMMA NoneIsNoSeed ==
  ASSUME SeedInv
  PROVE  storage.seeds \subseteq Seeds /\ None \notin storage.seeds
BY NoneAssumption DEF SeedInv, StorageType, ValidSeeds

\* Between the screens for a descriptor.
LEMMA DescriptorTurn ==
  ASSUME IInv, SigningInv
  PROVE  \A d, temps :
           /\ \/ /\ view.cls \in {"ScanView", "ScanWalletDescriptorView"}
                 /\ d.cls = "MultisigWalletDescriptorView" /\ temps.descriptor # None
              \/ /\ view.cls = "LoadMultisigWalletDescriptorView"
                 /\ d.cls = "ScanWalletDescriptorView" /\ temps.descriptor = controller.descriptor
           /\ ~d.clear /\ ~GoesBack(d)
           /\ temps.parser = controller.parser /\ temps.psbtSeed = controller.psbtSeed
           /\ temps.psbt = controller.psbt /\ temps.resume = controller.resume
           /\ Turn(d, temps, storage, {})
           => SigningInv'
<1> SUFFICES ASSUME NEW d, NEW temps,
                    \/ /\ view.cls \in {"ScanView", "ScanWalletDescriptorView"}
                       /\ d.cls = "MultisigWalletDescriptorView" /\ temps.descriptor # None
                    \/ /\ view.cls = "LoadMultisigWalletDescriptorView"
                       /\ d.cls = "ScanWalletDescriptorView" /\ temps.descriptor = controller.descriptor,
                    ~d.clear, ~GoesBack(d),
                    temps.parser = controller.parser, temps.psbtSeed = controller.psbtSeed,
                    temps.psbt = controller.psbt, temps.resume = controller.resume,
                    Turn(d, temps, storage, {})
             PROVE  SigningInv'
  OBVIOUS
<1>1. /\ d.cls \in {"MultisigWalletDescriptorView", "ScanWalletDescriptorView"}
      /\ view.cls \in {"ScanView", "ScanWalletDescriptorView", "LoadMultisigWalletDescriptorView"}
  OBVIOUS
<1>2. /\ Len(backStack) \in Places /\ backStack[Len(backStack)] = view
      /\ \A i \in Places : i = Len(backStack) \/ i < Len(backStack)
  BY <1>1, ViewIsOnTop DEF Places, Home, Entry, To
<1>3. d.cls \in Beyond /\ d.cls \in DescriptorScreens /\ d.cls \notin ReviewZone
  BY <1>1 DEF Beyond, ReviewZone, ReviewScreens, DescriptorScreens
<1>4. view.cls = "ScanView" => \A i \in Places : backStack[i].cls \notin OfReview
  BY OutsideOfReview
     DEF SigningInv, OfReview, Beyond, ReviewZone, ReviewScreens, DescriptorScreens
<1>5. \A i \in Places : backStack[i].cls # "MultisigWalletDescriptorView"
  <2>1. CASE view.cls = "ScanView"
    BY <1>4, <2>1 DEF OfReview, Beyond, DescriptorScreens
  <2>2. CASE view.cls # "ScanView"
    <3>1. view.cls \in DescriptorScreens
      BY <1>1, <2>2 DEF DescriptorScreens
    <3> QED BY <1>1, <1>2, <3>1 DEF SigningInv, ReviewInv, ReviewStacked
  <2> QED BY <2>1, <2>2
<1>6. controller.resume = "psbt" => Idle \/ (UnderReview /\ Reached(Entry(d), controller.parser, shown))
  <2>1. CASE view.cls = "ScanView"
    <3>1. ~UnderReview
      BY <1>4, <2>1 DEF UnderReview, OfReview
    <3> QED BY <1>2, <2>1, <3>1 DEF SigningInv, ReviewInv, ScanIsApart
  <2>2. CASE view.cls # "ScanView"
    <3>1. view.cls \in DescriptorScreens
      BY <1>1, <2>2 DEF DescriptorScreens
    <3>2. controller.resume = "psbt" => Idle \/ (UnderReview /\ Reached(view, controller.parser, shown))
      BY <1>2, <3>1 DEF SigningInv, ReviewInv, ReviewReached
    <3>3. Reached(view, controller.parser, shown) => Reached(Entry(d), controller.parser, shown)
      <4>1. Entry(d).cls = d.cls
        BY DEF Entry
      <4>2. /\ DestsBefore(view, controller.parser.psbt) = DestsBefore(Entry(d), controller.parser.psbt)
            /\ ChangeBefore(view, controller.parser.psbt) = ChangeBefore(Entry(d), controller.parser.psbt)
        BY <1>1, <1>3, <3>1, <4>1 DEF DestsBefore, ChangeBefore
      <4> QED BY <1>1, <4>1, <4>2 DEF Reached
    <3> QED BY <3>2, <3>3
  <2> QED BY <2>1, <2>2
<1>7. MayFollow(d)
  BY <1>1, <1>3, <1>5 DEF MayFollow
<1>8. ReviewFollows(d, temps, shown \union {})
  <2>1. shown \union {} = shown
    OBVIOUS
  <2> QED BY <1>3, <1>6, <2>1 DEF ReviewFollows
<1>9. ResumeFollows(d, temps, shown \union {})
  BY <1>1 DEF ResumeFollows
<1>10. NoSeedMenu(d.cls) /\ Keeps(storage)
  BY <1>1, SameSeeds DEF NoSeedMenu
<1> QED BY <1>1, <1>7, <1>8, <1>9, <1>10, OnwardTurn

LEMMA SharedViewsKeepSigning ==
  ASSUME IInv, SigningInv, SharedViews PROVE SigningInv'
<1> USE DEF Aside, NoReview, NoSeedMenu
<1>1. CASE MainMenuView
  <2>1. view.cls = "MainMenuView" /\ view = Home /\ Aside /\ Idle
    <3>1. view.cls = "MainMenuView" /\ view = Home
      BY <1>1, ViewIsKnown DEF MainMenuView, At, SigningInv
    <3>2. controller.parser = None
      BY <3>1 DEF SigningInv, ReviewInv, ParserOK
    <3> QED BY <3>1, <3>2 DEF Aside, Idle
  <2>2. PICK cls \in {"ScanView", "SeedsMenuView", "ToolsMenuView", "PowerOptionsView"} : Go(To(cls))
    BY <1>1 DEF MainMenuView, Choose
  <2>3. /\ To(cls).cls = cls /\ To(cls).args = None /\ ~To(cls).skip /\ ~To(cls).clear /\ ~GoesBack(To(cls))
        /\ Turn(To(cls), controller, storage, {})
    BY <2>2 DEF To, GoesBack, Go
  <2> HIDE DEF Aside
  <2>4. CASE cls = "ScanView"
    BY Zenon, <2>1, <2>3, <2>4, AsideOnward, SameSeeds, UndisturbedTemps
  <2>5. CASE cls # "ScanView"
    <3>1. KnownStep(To(cls), controller, storage)
      BY <2>1, <2>2, <2>5
         DEF KnownStep, KnownSeeds, SigningInv, To, GoesBack, Entry, OfASeed, ScreensOfASeed,
             WordScreens
    <3>2. NoReview(cls)
      BY <2>5
    <3> QED BY Zenon, <2>1, <2>3, <3>1, <3>2, UndisturbedTurn, UndisturbedTemps
  <2> QED BY <2>4, <2>5
<1>2. CASE PowerOptionsView
  BY Zenon, <1>2, AsideTurn, SameSeeds, UndisturbedTemps
     DEF PowerOptionsView, At, Go, Choose, To, ToWith, Back, Skipping, Clearing, GoesBack
<1>3. CASE PowerOffView
  BY Zenon, <1>3, AsideTurn, SameSeeds, UndisturbedTemps
     DEF PowerOffView, At, Go, To, ToWith, Back, Skipping, Clearing, GoesBack
<1>4. CASE RestartView
  <2>1. Len(<< >>) = 0
    OBVIOUS
  <2>2. KnownSeeds'
    BY <1>4, <2>1 DEF RestartView, KnownSeeds, Places, FreshController
  <2>3. FreshController = Wiped(FreshController)
    BY DEF FreshController, Wiped
  <2>4. ReviewInv'
    BY <1>4, <2>3, HomeKeeps DEF RestartView
  <2> QED BY <2>2, <2>4 DEF SigningInv
<1>5. CASE UnhandledExceptionView
  BY Zenon, <1>5, AsideTurn, SameSeeds, UndisturbedTemps
     DEF UnhandledExceptionView, At, Go, To, ToWith, Back, Skipping, Clearing, GoesBack
<1>6. CASE WarnAndGoHome
  <2>1. /\ view.cls \in {"NotYetImplementedView", "CameraConnectionErrorView", "ScanInvalidQRTypeView"}
        /\ Go(To("MainMenuView")) \/ Go(Clearing(To("MainMenuView")))
    BY <1>6 DEF WarnAndGoHome, At
  <2> QED BY Zenon, <2>1, BeyondTurn, UndisturbedTemps DEF Go, To, Clearing, GoesBack
<1>7. CASE ErrorView
  <2>1. view.cls = "ErrorView" /\ Turn(Skipping(Back), controller, storage, {})
    BY <1>7 DEF ErrorView, At, Go
  <2>2. backStack[Len(backStack) - 1].cls \in DOMAIN ScannerFor
    <3>1. Len(backStack) \in Places /\ backStack[Len(backStack)] = view
      BY <2>1, ViewIsOnTop DEF Places, Home, Entry, To
    <3> QED BY <2>1, <3>1 DEF SigningInv, ReviewInv, ReviewArgs
  <2>3. backStack[Len(backStack) - 1].cls \notin {"PSBTOverviewView", "MultisigWalletDescriptorView"}
    BY <2>2 DEF ScannerFor
  <2>4. GoesBack(Skipping(Back)) /\ ~Skipping(Back).clear /\ Undisturbed(controller) /\ Keeps(storage)
    BY Zenon, UndisturbedTemps, SameSeeds DEF Skipping, Back, To, GoesBack
  <2> QED BY <2>1, <2>3, <2>4, BackTurn
<1> QED BY <1>1, <1>2, <1>3, <1>4, <1>5, <1>6, <1>7 DEF SharedViews

LEMMA VerificationViewsKeepSigning ==
  ASSUME IInv, SigningInv, VerificationViews PROVE SigningInv'
<1> USE DEF Aside, NoReview, NoSeedMenu
<1>1. CASE ScanAddress
  <2>1. Aside /\ view.cls # "MainMenuView"
    BY <1>1 DEF ScanAddress, Scanned, Scanners, ScannerFor
  <2> HIDE DEF Aside
  <2> QED BY Zenon, <1>1, <2>1, AsideTurn, SameSeeds, UndisturbedTemps
          DEF ScanAddress, Go, Skipping, ToWith, To, GoesBack
<1>2. CASE AddressVerificationStartView
  <2>1. Aside /\ view.cls # "MainMenuView"
    BY <1>2 DEF AddressVerificationStartView, At
  <2> HIDE DEF Aside
  <2>2. PICK d, temps :
          /\ Undisturbed(temps) /\ ~GoesBack(d) /\ ~d.clear /\ Turn(d, temps, storage, {})
          /\ \/ d.cls \in {"AddressVerificationSigTypeView", "SeedAddressVerificationView"}
             \/ d.cls = "LoadMultisigWalletDescriptorView" /\ temps.resume # "psbt"
             \/ d.cls = "SeedSelectSeedView" /\ d.args.flow = "singlesig_addr"
    <3>1. CASE view.args.type = "nested"
      <4>1. GoWith(Skipping(To("AddressVerificationSigTypeView")), Unverified(None))
        BY <1>2, <3>1 DEF AddressVerificationStartView
      <4>2. Undisturbed(Unverified(None))
        BY Zenon, UndisturbedTemps DEF Unverified
      <4> QED BY <4>1, <4>2 DEF GoWith, Skipping, To, GoesBack
    <3>2. CASE view.args.type = "nativeLong"
      <4>1. GoWith(Skipping(VerifyWithDescriptor(Unverified("ms")).to), VerifyWithDescriptor(Unverified("ms")).temps)
        BY <1>2, <3>2 DEF AddressVerificationStartView
      <4>2. Undisturbed(Unverified("ms")) /\ Undisturbed([Unverified("ms") EXCEPT !.resume = "multisig_addr"])
        BY Zenon, UndisturbedTemps DEF Unverified
      <4>3. CASE controller.descriptor # None
        BY <4>1, <4>2, <4>3 DEF VerifyWithDescriptor, GoWith, Skipping, To, GoesBack
      <4>4. CASE controller.descriptor = None
        <5>1. [Unverified("ms") EXCEPT !.resume = "multisig_addr"].resume # "psbt"
          BY DEF Unverified
        <5> DEFINE d == Skipping(To("LoadMultisigWalletDescriptorView"))
                   temps == [Unverified("ms") EXCEPT !.resume = "multisig_addr"]
        <5>2. d.cls = "LoadMultisigWalletDescriptorView" /\ ~d.clear /\ ~GoesBack(d)
          BY DEF Skipping, To, GoesBack
        <5> HIDE DEF d, temps
        <5>3. Turn(d, temps, storage, {})
          BY <4>1, <4>4 DEF VerifyWithDescriptor, GoWith, d, temps
        <5> QED BY Zenon, <4>2, <5>1, <5>2, <5>3 DEF temps
      <4> QED BY <4>3, <4>4
    <3>3. CASE view.args.type \notin {"nested", "nativeLong"}
      <4>1. GoWith(Skipping(VerifyWithSeed), Unverified("ss"))
        BY <1>2, <3>3 DEF AddressVerificationStartView
      <4>2. Undisturbed(Unverified("ss"))
        BY Zenon, UndisturbedTemps DEF Unverified
      <4> QED BY <4>1, <4>2, WantsASeed DEF VerifyWithSeed, GoWith
    <3> QED BY <3>1, <3>2, <3>3
  <2> QED BY <2>1, <2>2, AsideTurn, AsideOnward, SameSeeds
<1>3. CASE AddressVerificationSigTypeView
  <2>1. Aside /\ view.cls # "MainMenuView"
    BY <1>3 DEF AddressVerificationSigTypeView, At
  <2> HIDE DEF Aside
  <2>2. CASE GoWith(Back, [controller EXCEPT !.unverified = None])
    BY Zenon, <2>1, <2>2, AsideTurn, SameSeeds, UndisturbedTemps DEF GoWith, Back, To, GoesBack
  <2>3. CASE Raise
    BY Zenon, <2>1, <2>3, AsideTurn, SameSeeds, UndisturbedTemps
       DEF Raise, RaiseError, Go, Clearing, ToWith, To, GoesBack
  <2>4. CASE GoWith(VerifyWithSeed, [controller EXCEPT !.unverified.sigType = "ss"])
    BY Zenon, <2>1, <2>4, WantsASeed, AsideOnward, SameSeeds, UndisturbedTemps DEF VerifyWithSeed, GoWith
  <2>5. ASSUME GoWith(VerifyWithDescriptor([controller EXCEPT !.unverified.sigType = "ms"]).to,
                      VerifyWithDescriptor([controller EXCEPT !.unverified.sigType = "ms"]).temps)
        PROVE  SigningInv'
    <3> DEFINE c == [controller EXCEPT !.unverified.sigType = "ms"]
    <3>1. Undisturbed(c) /\ Undisturbed([c EXCEPT !.resume = "multisig_addr"])
      BY Zenon, UndisturbedTemps
    <3>2. [c EXCEPT !.resume = "multisig_addr"].resume # "psbt"
      OBVIOUS
    <3> HIDE DEF c
    <3>3. CASE controller.descriptor # None
      BY <2>1, <2>5, <3>1, <3>3, AsideTurn, SameSeeds
         DEF VerifyWithDescriptor, GoWith, To, GoesBack, c
    <3>4. CASE controller.descriptor = None
      <4> DEFINE temps == [c EXCEPT !.resume = "multisig_addr"]
      <4>1. Turn(To("LoadMultisigWalletDescriptorView"), temps, storage, {})
        BY <2>5, <3>4 DEF VerifyWithDescriptor, GoWith, c
      <4>2. Undisturbed(temps) /\ temps.resume # "psbt"
        BY <3>1, <3>2
      <4> HIDE DEF temps
      <4> QED BY <2>1, <4>1, <4>2, AsideOnward, SameSeeds DEF To, GoesBack
    <3> QED BY <3>3, <3>4
  <2> QED BY <1>3, <2>2, <2>3, <2>4, <2>5 DEF AddressVerificationSigTypeView
<1>4. CASE SeedAddressVerificationView
  BY Zenon, <1>4, AsideTurn, BeyondTurn, SameSeeds, UndisturbedTemps
     DEF SeedAddressVerificationView, At, Raise, RaiseError, Go, Choose, To, ToWith, Back,
         Skipping, Clearing, GoesBack
<1>5. CASE SeedAddressVerificationSuccessView
  BY Zenon, <1>5, AsideTurn, BeyondTurn, SameSeeds, UndisturbedTemps
     DEF SeedAddressVerificationSuccessView, At, Go, To, ToWith, Back, Skipping, Clearing,
         GoesBack
<1>6. CASE ScanDescriptor
  <2>1. view.cls \in {"ScanView", "ScanWalletDescriptorView"}
    BY <1>6 DEF ScanDescriptor, Scanned, Scanners, ScannerFor
  <2>2. PICK x \in Descriptors :
          Turn(Skipping(To("MultisigWalletDescriptorView")), [controller EXCEPT !.descriptor = x], storage, {})
    BY <1>6 DEF ScanDescriptor, GoWith
  <2> DEFINE d == Skipping(To("MultisigWalletDescriptorView"))
             temps == [controller EXCEPT !.descriptor = x]
  <2>3. d.cls = "MultisigWalletDescriptorView" /\ ~d.clear /\ ~GoesBack(d)
    BY DEF Skipping, To, GoesBack
  <2>4. /\ temps.parser = controller.parser /\ temps.psbtSeed = controller.psbtSeed
        /\ temps.psbt = controller.psbt /\ temps.resume = controller.resume /\ temps.descriptor # None
    BY AddressAssumption
  <2> HIDE DEF d, temps
  <2> QED BY Zenon, <2>1, <2>2, <2>3, <2>4, DescriptorTurn DEF d, temps
<1>7. CASE LoadMultisigWalletDescriptorView
  <2>1. view.cls = "LoadMultisigWalletDescriptorView"
    BY <1>7 DEF LoadMultisigWalletDescriptorView, At
  <2>2. CASE Go(To("ScanWalletDescriptorView"))
    BY <2>1, <2>2, UndisturbedTemps, DescriptorTurn DEF Go, To, GoesBack, Undisturbed
  <2>3. CASE Go(Back)
    <3>1. GoesBack(Back) /\ ~Back.clear /\ ~Back.skip
      BY DEF Back, To, GoesBack
    <3> QED BY Zenon, <2>1, <2>3, <3>1, BackTurn, UndisturbedTemps, SameSeeds DEF Go
  <2>4. CASE Go(To("MainMenuView"))
    BY <2>4, HomeTurn DEF Go, To
  <2> QED BY <1>7, <2>2, <2>3, <2>4 DEF LoadMultisigWalletDescriptorView, Choose
<1>8. CASE MultisigWalletDescriptorView
  <2>1. view.cls = "MultisigWalletDescriptorView"
    BY <1>8 DEF MultisigWalletDescriptorView, At
  <2>2. CASE GoWith(Back, [controller EXCEPT !.descriptor = None])
    <3>1. GoesBack(Back) /\ ~Back.clear /\ ~Back.skip
      BY DEF Back, To, GoesBack
    <3> QED BY <2>1, <2>2, <3>1, BackTurn, SameSeeds DEF GoWith
  <2> DEFINE resumed == [controller EXCEPT !.resume = None]
  <2>3. Undisturbed(resumed) /\ resumed.resume # "psbt"
    <3>1. Undisturbed(resumed) /\ None # "psbt"
      BY Zenon, UndisturbedTemps
    <3>2. resumed.resume = None
      OBVIOUS
    <3> QED BY <3>1, <3>2
  <2> HIDE DEF resumed
  <2>4. CASE controller.resume = "psbt" /\ GoWith(ToWith("PSBTChangeDetailsView", [num |-> 0]), resumed)
    <3> DEFINE d == ToWith("PSBTChangeDetailsView", [num |-> 0])
    <3>1. d.cls = "PSBTChangeDetailsView" /\ d.args.num = 0 /\ ~d.clear /\ ~d.skip /\ ~GoesBack(d)
      BY DEF ToWith, To, GoesBack
    <3>2. Entry(d).cls = d.cls /\ Entry(d).args.num = 0
      BY <3>1 DEF Entry
    <3> HIDE DEF d
    <3>3. Turn(d, resumed, storage, {})
      BY <2>4 DEF GoWith, d
    <3>4. Idle \/ (UnderReview /\ Reached(view, controller.parser, shown))
      <4>1. Len(backStack) \in Places /\ backStack[Len(backStack)] = view
        BY <2>1, ViewIsOnTop DEF Places, Home, Entry, To
      <4> QED BY <2>1, <2>4, <4>1 DEF SigningInv, ReviewInv, ReviewReached, DescriptorScreens
    <3>5. ChangeBefore(Entry(d), controller.parser.psbt) = 0
      BY <3>1, <3>2 DEF ChangeBefore, DescriptorScreens
    <3>6. \A k \in Nat : ~(k < 0)
      OBVIOUS
    <3>7. Reached(view, controller.parser, shown) => Reached(Entry(d), controller.parser, shown)
      <4>1. DestsBefore(view, controller.parser.psbt) = DestsBefore(Entry(d), controller.parser.psbt)
        BY <2>1, <3>1, <3>2 DEF DestsBefore
      <4> QED BY <3>1, <3>2, <3>5, <3>6, <4>1 DEF Reached
    <3>8. VerifiedBefore(Entry(d), controller.parser, shown)
      BY <3>5, <3>6 DEF VerifiedBefore
    <3>9. ReviewFollows(d, resumed, shown \union {})
      <4>1. d.cls \notin DescriptorScreens /\ shown \union {} = shown
        BY <3>1 DEF DescriptorScreens
      <4> QED BY <3>1, <3>4, <3>7, <3>8, <4>1 DEF ReviewFollows
    <3>10. MayFollow(d)
      BY <3>1 DEF MayFollow, Beyond, ReviewZone, ReviewScreens, DescriptorScreens
    <3>11. ResumeFollows(d, resumed, shown \union {})
      BY <2>3, <3>1 DEF ResumeFollows
    <3>12. NoSeedMenu(d.cls) /\ Keeps(storage)
      BY <3>1, SameSeeds DEF NoSeedMenu
    <3> QED BY <2>1, <2>3, <3>1, <3>3, <3>9, <3>10, <3>11, <3>12, OnwardTurn DEF Undisturbed
  <2>5. ASSUME NEW cls \in {"SeedAddressVerificationView", "ToolsAddressExplorerAddressTypeView"},
               GoWith(To(cls), resumed)
        PROVE  SigningInv'
    <3> DEFINE d == To(cls)
    <3>1. d.cls = cls /\ ~d.clear /\ ~d.skip /\ ~GoesBack(d)
      BY DEF To, GoesBack
    <3> HIDE DEF d
    <3>2. Turn(d, resumed, storage, {})
      BY <2>5 DEF GoWith, d
    <3>3. d.cls \notin ReviewZone \union DescriptorScreens /\ d.cls \in Beyond
      BY <3>1 DEF Beyond, ReviewZone, ReviewScreens, DescriptorScreens
    <3>4. MayFollow(d) /\ ReviewFollows(d, resumed, shown \union {}) /\ ResumeFollows(d, resumed, shown \union {})
      BY <2>3, <3>1, <3>3 DEF MayFollow, ReviewFollows, ResumeFollows
    <3>5. NoSeedMenu(d.cls) /\ Keeps(storage)
      BY <3>1, SameSeeds DEF NoSeedMenu
    <3> QED BY <2>1, <2>3, <3>1, <3>2, <3>4, <3>5, OnwardTurn DEF Undisturbed
  <2>6. CASE Go(To("MainMenuView"))
    BY <2>6, HomeTurn DEF Go, To
  <2> QED BY <1>8, <2>2, <2>4, <2>5, <2>6
             DEF MultisigWalletDescriptorView, ReturnToFlow, resumed
<1> QED BY <1>1, <1>2, <1>3, <1>4, <1>5, <1>6, <1>7, <1>8 DEF VerificationViews

LEMMA ExplorerViewsKeepSigning ==
  ASSUME IInv, SigningInv, ExplorerViews PROVE SigningInv'
<1> USE DEF Aside, NoReview, NoSeedMenu
<1>1. CASE SeedExportXpubSigTypeView
  BY Zenon, <1>1, AsideTurn, BeyondTurn, SameSeeds, UndisturbedTemps
     DEF SeedExportXpubSigTypeView, At, Go, ChooseWith, To, ToWith, Back, Skipping, Clearing,
         GoesBack
<1>2. CASE SeedExportXpubScriptTypeView
  BY Zenon, <1>2, AsideTurn, BeyondTurn, SameSeeds, UndisturbedTemps
     DEF SeedExportXpubScriptTypeView, At, Go, BackFromExplorer, GoWith, ChooseWith,
         AfterScriptType, To, ToWith, Back, Skipping, Clearing, GoesBack
<1>3. CASE SeedExportXpubCustomDerivationView
  BY Zenon, <1>3, AsideTurn, BeyondTurn, SameSeeds, UndisturbedTemps
     DEF SeedExportXpubCustomDerivationView, At, Go, AfterScriptType, To, ToWith, Back,
         Skipping, Clearing, GoesBack
<1>4. CASE ExportXpub
  BY Zenon, <1>4, AsideTurn, BeyondTurn, SameSeeds, UndisturbedTemps
     DEF ExportXpub, At, Go, ChooseWith, ChooseSkipping, To, ToWith, Back, Skipping, Clearing,
         GoesBack
<1>5. CASE ToolsAddressExplorerSelectSourceView
  <2>1. Aside /\ view.cls # "MainMenuView"
    BY <1>5 DEF ToolsAddressExplorerSelectSourceView, At
  <2> DEFINE exploring == [controller EXCEPT !.resume = "address_explorer"]
  <2>2. Undisturbed(exploring) /\ exploring.resume # "psbt"
    <3>1. Undisturbed(exploring)
      BY Zenon, UndisturbedTemps
    <3>2. exploring.resume # "psbt"
      OBVIOUS
    <3> QED BY <3>1, <3>2
  <2> HIDE DEF Aside, exploring
  <2>3. CASE Go(Back)
    BY Zenon, <2>1, <2>3, AsideTurn, SameSeeds, UndisturbedTemps DEF Go, Back, To, GoesBack
  <2>5. CASE GoWith(To("ScanWalletDescriptorView"), exploring)
    BY <2>1, <2>2, <2>5, AsideOnward, SameSeeds DEF GoWith, To, GoesBack
  <2>6. ASSUME NEW cls \in {"ScanSeedQRView", "SeedMnemonicEntryView", "SeedElectrumMnemonicStartView"},
               NEW stored \in {storage, InitPendingMnemonic(FALSE)}, Turn(To(cls), exploring, stored, {})
        PROVE  SigningInv'
    BY Zenon, <2>1, <2>2, <2>6, AsideTurn, SameSeeds DEF To, GoesBack
  <2>7. CASE LoadASeed("ScanSeedQRView", exploring)
    BY Zenon, <2>6, <2>7 DEF LoadASeed, ChooseLeaving, GoWith
  <2>8. ASSUME NEW x, GoWith(ToWith("SeedExportXpubScriptTypeView", x), exploring) PROVE SigningInv'
    BY <2>1, <2>2, <2>8, AsideTurn, SameSeeds DEF GoWith, ToWith, To, GoesBack
  <2> QED BY Zenon, <1>5, <2>3, <2>5, <2>7, <2>8
             DEF ToolsAddressExplorerSelectSourceView, ChooseLeaving, exploring
<1>6. CASE ToolsAddressExplorerAddressTypeView
  BY Zenon, <1>6, AsideTurn, BeyondTurn, SameSeeds, UndisturbedTemps
     DEF ToolsAddressExplorerAddressTypeView, At, GoWith, To, ToWith, Back, Skipping, Clearing,
         GoesBack
<1>7. CASE ToolsAddressExplorerAddressListView
  BY Zenon, <1>7, AsideTurn, BeyondTurn, SameSeeds, UndisturbedTemps
     DEF ToolsAddressExplorerAddressListView, At, Raise, RaiseError, Go, ChooseWith,
         ChooseSkipping, To, ToWith, Back, Skipping, Clearing, GoesBack
<1>8. CASE ToolsAddressExplorerAddressView
  BY Zenon, <1>8, AsideTurn, BeyondTurn, SameSeeds, UndisturbedTemps
     DEF ToolsAddressExplorerAddressView, At, Go, To, ToWith, Back, Skipping, Clearing,
         GoesBack
<1> QED BY <1>1, <1>2, <1>3, <1>4, <1>5, <1>6, <1>7, <1>8 DEF ExplorerViews

LEMMA MessageViewsKeepSigning ==
  ASSUME IInv, SigningInv, MessageViews PROVE SigningInv'
<1> USE DEF Aside, NoReview, NoSeedMenu
<1>1. CASE ScanMessage
  <2>1. Aside /\ view.cls # "MainMenuView"
    BY <1>1 DEF ScanMessage, Scanned, Scanners, ScannerFor
  <2> HIDE DEF Aside
  <2> QED BY Zenon, <1>1, <2>1, AsideTurn, SameSeeds, UndisturbedTemps
             DEF ScanMessage, Go, ToWith, To, GoesBack
<1>2. CASE SeedSignMessageStartView
  <2>1. Aside /\ view.cls # "MainMenuView"
    BY <1>2 DEF SeedSignMessageStartView, At
  <2> HIDE DEF Aside
  <2>2. CASE GoWith(Skipping(To("NotYetImplementedView")), [controller EXCEPT !.resume = None])
    BY Zenon, <2>1, <2>2, AsideTurn, SameSeeds, UndisturbedTemps DEF GoWith, Skipping, To, GoesBack
  <2> DEFINE noted == [controller EXCEPT !.signData = [Collected EXCEPT !.message = view.args]]
  <2>3. Undisturbed(noted)
    BY Zenon, UndisturbedTemps
  <2> HIDE DEF noted
  <2>4. CASE GoWith(Skipping(To("SeedSignMessageConfirmMessageView")), noted)
    BY <2>1, <2>3, <2>4, AsideTurn, SameSeeds DEF GoWith, Skipping, To, GoesBack
  <2>5. CASE GoWith(Skipping(ToWith("SeedSelectSeedView", [flow |-> "sign_message"])), noted)
    BY <2>1, <2>3, <2>5, WantsASeed, AsideOnward, SameSeeds DEF GoWith
  <2> QED BY <1>2, <2>2, <2>4, <2>5 DEF SeedSignMessageStartView, noted
<1>3. CASE SeedSignMessageConfirmMessageView
  <2>1. Aside /\ view.cls # "MainMenuView"
    BY <1>3 DEF SeedSignMessageConfirmMessageView, At
  <2> HIDE DEF Aside
  <2>2. CASE Raise
    BY Zenon, <2>1, <2>2, AsideTurn, SameSeeds, UndisturbedTemps
       DEF Raise, RaiseError, Go, Clearing, ToWith, To, GoesBack
  <2>3. ASSUME NEW data, ConfirmMessageScreen(data) PROVE SigningInv'
    <3> DEFINE page == <<"page", data.paged, PageNumber>>
               next == IF PageNumber = data.paged.pages - 1 THEN To("SeedSignMessageConfirmAddressView")
                       ELSE ToWith("SeedSignMessageConfirmMessageView", [page |-> PageNumber + 1])
    <3>1. \E temps : Undisturbed(temps) /\ (Turn(Back, temps, storage, {page}) \/ Turn(next, temps, storage, {page}))
      BY Zenon, <2>3, UndisturbedTemps DEF ConfirmMessageScreen
    <3>2. /\ next.cls \in {"SeedSignMessageConfirmAddressView", "SeedSignMessageConfirmMessageView"}
          /\ ~next.skip /\ ~GoesBack(next) /\ NoReview(next.cls) /\ NoSeedMenu(next.cls) /\ next.cls # "MainMenuView"
      BY DEF To, ToWith, GoesBack
    <3>3. GoesBack(Back) /\ ~Back.clear /\ ~Back.skip /\ Back.cls # "MainMenuView"
      BY DEF Back, To, GoesBack
    <3> HIDE DEF next, page
    <3> QED BY <2>1, <3>1, <3>2, <3>3, AsideTurn, SameSeeds
  <2> QED BY <1>3, <2>2, <2>3 DEF SeedSignMessageConfirmMessageView
<1>4. CASE SeedSignMessageConfirmAddressView
  <2>1. Aside /\ view.cls # "MainMenuView"
    BY <1>4 DEF SeedSignMessageConfirmAddressView, At
  <2> HIDE DEF Aside
  <2>2. CASE Raise
    BY Zenon, <2>1, <2>2, AsideTurn, SameSeeds, UndisturbedTemps
       DEF Raise, RaiseError, Go, Clearing, ToWith, To, GoesBack
  <2>3. CASE ~Raise
    <3>1. \E address : \/ Turn(Back, controller, storage, address)
                       \/ Turn(To("SeedSignMessageSignedMessageQRView"), controller, storage, address)
      BY <1>4, <2>3 DEF SeedSignMessageConfirmAddressView
    <3> QED BY Zenon, <2>1, <3>1, AsideTurn, SameSeeds, UndisturbedTemps DEF Back, To, GoesBack
  <2> QED BY <2>2, <2>3
<1>5. CASE SeedSignMessageSignedMessageQRView
  BY Zenon, <1>5, AsideTurn, SameSeeds, UndisturbedTemps
     DEF SeedSignMessageSignedMessageQRView, At, GoWith, To, ToWith, Back, Skipping, Clearing,
         GoesBack
<1> QED BY <1>1, <1>2, <1>3, <1>4, <1>5 DEF MessageViews

LEMMA NewSeedViewsKeepSigning ==
  ASSUME IInv, SigningInv, NewSeedViews PROVE SigningInv'
<1> USE DEF Aside, NoReview, NoSeedMenu
<1>1. CASE ToolsMenuView
  BY Zenon, <1>1, AsideTurn, SameSeeds, UndisturbedTemps
     DEF ToolsMenuView, At, Go, Choose, To, ToWith, Back, Skipping, Clearing, GoesBack
<1>2. CASE CollectEntropy
  <2>1. Aside /\ view.cls # "MainMenuView"
    BY <1>2 DEF CollectEntropy, EntropyScreens
  <2>2. \/ Go(Back)
        \/ \E cls \in {"ToolsImageEntropyFinalImageView", "ToolsImageEntropyMnemonicLengthView",
                      "ToolsDiceEntropyEntryView"} :
             Go(To(cls))
    BY <1>2 DEF CollectEntropy, EntropyScreens, Choose
  <2> HIDE DEF Aside
  <2> QED BY Zenon, <2>1, <2>2, AsideTurn, SameSeeds, UndisturbedTemps DEF Go, Back, To, GoesBack
<1>3. CASE GenerateSeed
  <2>1. Aside /\ view.cls # "MainMenuView"
    BY <1>3 DEF GenerateSeed, At
  <2> HIDE DEF Aside
  <2>2. CASE Go(Back)
    BY Zenon, <2>1, <2>2, AsideTurn, SameSeeds, UndisturbedTemps DEF Go, Back, To, GoesBack
  <2>3. ASSUME NEW m \in Mnemonics,
               GoStoring(Clearing(ToWith("SeedWordsWarningView", [seed |-> None, bip85 |-> None])),
                         WithPending(SeedOf(m, FALSE)))
        PROVE  SigningInv'
    <3> DEFINE d == Clearing(ToWith("SeedWordsWarningView", [seed |-> None, bip85 |-> None]))
    <3>1. d.cls = "SeedWordsWarningView" /\ d.args.seed = None /\ d.clear /\ ~GoesBack(d)
      BY DEF Clearing, ToWith, To, GoesBack
    <3> HIDE DEF d
    <3>2. ~OfASeed(Entry(d))
      BY <3>1 DEF OfASeed, Entry, ScreensOfASeed
    <3>3. Keeps(WithPending(SeedOf(m, FALSE)))
      BY Zenon, SameSeeds
    <3>4. NoReview(d.cls)
      BY <3>1
    <3> QED BY Zenon, <2>1, <2>3, <3>1, <3>2, <3>3, <3>4, SeedMenuTurn DEF GoStoring, d
  <2> QED BY Zenon, <1>3, <2>2, <2>3 DEF GenerateSeed
<1>4. CASE ToolsCalcFinalWordNumWordsView
  BY Zenon, <1>4, AsideTurn, SameSeeds, UndisturbedTemps
     DEF ToolsCalcFinalWordNumWordsView, At, Go, GoStoring, To, ToWith, Back, Skipping,
         Clearing, GoesBack
<1>5. CASE ToolsCalcFinalWordFinalizePromptView
  BY Zenon, <1>5, AsideTurn, SameSeeds, UndisturbedTemps
     DEF ToolsCalcFinalWordFinalizePromptView, At, Go, Choose, GoStoring, To, ToWith, Back,
         Skipping, Clearing, GoesBack
<1>6. CASE ToolsCalcFinalWordCoinFlipsView
  BY Zenon, <1>6, AsideTurn, SameSeeds, UndisturbedTemps
     DEF ToolsCalcFinalWordCoinFlipsView, At, Go, ChooseWith, To, ToWith, Back, Skipping,
         Clearing, GoesBack
<1>7. CASE ToolsCalcFinalWordShowFinalWordView
  BY Zenon, <1>7, AsideTurn, SameSeeds, UndisturbedTemps
     DEF ToolsCalcFinalWordShowFinalWordView, At, GoStoring, ChooseStoring, To, ToWith, Back,
         Skipping, Clearing, GoesBack
<1>8. CASE ToolsCalcFinalWordDoneView
  <2>1. Aside /\ view.cls # "MainMenuView"
    BY <1>8 DEF ToolsCalcFinalWordDoneView, At
  <2>2. \/ Go(Back)
        \/ \E cls \in {"SeedFinalizeView", "SeedDiscardView"} :
             GoStoring(To(cls), ConvertPendingMnemonic(storage))
    BY <1>8 DEF ToolsCalcFinalWordDoneView, ChooseStoring
  <2> HIDE DEF Aside
  <2>3. CASE Go(Back)
    BY Zenon, <2>1, <2>3, AsideTurn, SameSeeds, UndisturbedTemps DEF Go, Back, To, GoesBack
  <2>4. ASSUME NEW cls \in {"SeedFinalizeView", "SeedDiscardView"},
               GoStoring(To(cls), ConvertPendingMnemonic(storage))
        PROVE  SigningInv'
    <3>1. Keeps(ConvertPendingMnemonic(storage))
      BY SameSeeds
    <3>2. ~UnderSeeds(Entry(To(cls))) /\ ~OfASeed(Entry(To(cls)))
      BY DEF UnderSeeds, OfASeed, ScreensOfASeed, WordScreens, Entry, To
    <3> QED BY <2>1, <2>4, <3>1, <3>2, SeedMenuTurn DEF GoStoring, To, GoesBack
  <2> QED BY <2>2, <2>3, <2>4
<1> QED BY <1>1, <1>2, <1>3, <1>4, <1>5, <1>6, <1>7, <1>8 DEF NewSeedViews

LEMMA SeedViewsKeepSigning ==
  ASSUME IInv, SeedInv, SigningInv, SeedViews PROVE SigningInv'
<1> USE DEF Aside, NoReview, NoSeedMenu
<1>1. CASE ScanComesToNothing
  <2>1. view.cls \in {"ScanView", "ScanPSBTView", "ScanSeedQRView", "ScanWalletDescriptorView", "ScanAddressView"}
    BY <1>1 DEF ScanComesToNothing, AtAnyScanner, ScannerFor
  <2>2. CASE Go(To("MainMenuView"))
    BY <2>2, HomeTurn DEF Go, To
  <2>3. CASE RaiseError("camera")
    <3> DEFINE d == Clearing(ToWith("UnhandledExceptionView", [error |-> "camera"]))
    <3>1. d.cls = "UnhandledExceptionView" /\ d.clear /\ ~GoesBack(d)
      BY DEF Clearing, ToWith, To, GoesBack
    <3> HIDE DEF d
    <3>2. Turn(d, controller, storage, {})
      BY <2>3 DEF RaiseError, Go, d
    <3> QED BY Zenon, <2>1, <3>1, <3>2, BeyondTurn, UndisturbedTemps
  <2>4. ASSUME NEW cls \in {"ScanInvalidQRTypeView", "ErrorView", "NotYetImplementedView"}, NEW temps,
               Undisturbed(temps), cls = "ErrorView" => view.cls # "ScanView", GoWith(To(cls), temps)
        PROVE  SigningInv'
    <3> DEFINE d == To(cls)
    <3>1. d.cls = cls /\ ~d.clear /\ ~d.skip /\ ~GoesBack(d)
      BY DEF To, GoesBack
    <3> HIDE DEF d
    <3>2. Turn(d, temps, storage, {})
      BY <2>4 DEF GoWith, d
    <3>3. d.cls \notin ReviewZone \union DescriptorScreens /\ d.cls \in Beyond
      BY <3>1 DEF Beyond, ReviewZone, ReviewScreens, DescriptorScreens
    <3>4. cls = "ErrorView" => view.cls \in DOMAIN ScannerFor
      BY <2>1, <2>4 DEF ScannerFor
    <3>5. MayFollow(d) /\ ReviewFollows(d, temps, shown \union {}) /\ ResumeFollows(d, temps, shown \union {})
      BY <2>4, <3>1, <3>3, <3>4 DEF MayFollow, ReviewFollows, ResumeFollows, Undisturbed
    <3>6. NoSeedMenu(d.cls) /\ Keeps(storage)
      BY <3>1, SameSeeds
    <3> QED BY <2>1, <2>4, <3>1, <3>2, <3>5, <3>6, OnwardTurn DEF Undisturbed
  <2> QED BY Zenon, <1>1, <2>2, <2>3, <2>4, UndisturbedTemps
          DEF ScanComesToNothing, Choose, ChooseLeaving, Go, GoWith, At
<1>2. CASE ScanSeed
  <2>1. Aside /\ view.cls # "MainMenuView"
    BY <1>2 DEF ScanSeed, Scanned, Scanners, ScannerFor
  <2>2. \E seed : \E cls \in {"SeedAddPassphraseView", "SeedFinalizeView"} :
        GoStoring(To(cls), WithPending(seed))
    BY Zenon, <1>2 DEF ScanSeed
  <2> HIDE DEF Aside
  <2> QED BY Zenon, <2>1, <2>2, AsideTurn, SameSeeds, UndisturbedTemps DEF GoStoring, To, GoesBack
<1>3. CASE SeedsMenuView
  <2>1. UnderSeeds(view) /\ view.cls = "SeedsMenuView" /\ Aside
    BY <1>3 DEF SeedsMenuView, At, UnderSeeds
  <2> HIDE DEF Aside
  <2> QED BY Zenon, <1>3, <2>1, SeedMenuTurn, SameSeeds
          DEF SeedsMenuView, Go, ChooseWith, Choose, To, ToWith, Back, Clearing, GoesBack, Entry,
              OfASeed, ScreensOfASeed, WordScreens
<1>4. CASE LoadSeedView
  BY Zenon, <1>4, AsideTurn, SameSeeds, UndisturbedTemps
     DEF LoadSeedView, At, Go, LoadASeed, ChooseLeaving, GoWith, Choose, To, ToWith, Back,
         Skipping, Clearing, GoesBack
<1>5. CASE SeedSelectSeedView
  <2>1. Aside /\ view.cls = "SeedSelectSeedView"
    BY <1>5 DEF SeedSelectSeedView, At
  <2>2. view.args.flow \in {"singlesig_addr", "sign_message"}
    <3>1. Len(backStack) \in Places /\ backStack[Len(backStack)] = view
      BY <2>1, ViewIsOnTop DEF Places, Home, Entry, To
    <3> QED BY <2>1, <3>1 DEF SigningInv, ReviewInv, ReviewArgs
  <2> HIDE DEF Aside
  <2> DEFINE resuming == [controller EXCEPT !.resume = view.args.flow]
  <2>3. Undisturbed(resuming) /\ resuming.resume # "psbt"
    <3>1. resuming.resume = view.args.flow /\ view.args.flow # "psbt"
      BY <2>2
    <3>2. Undisturbed(resuming)
      BY Zenon, <3>1, UndisturbedTemps
    <3> QED BY <3>1, <3>2
  <2> HIDE DEF resuming
  <2>4. CASE Go(Back) \/ \E seed \in storage.seeds : ChooseWith("SeedAddressVerificationView", [seed |-> seed])
    BY Zenon, <2>1, <2>4, AsideTurn, SameSeeds, UndisturbedTemps
       DEF Go, ChooseWith, Back, To, ToWith, GoesBack
  <2>5. CASE Raise
    BY Zenon, <2>1, <2>5, AsideTurn, SameSeeds, UndisturbedTemps
       DEF Raise, RaiseError, Go, Clearing, ToWith, To, GoesBack
  <2>6. ASSUME NEW seed, GoWith(To("SeedSignMessageConfirmMessageView"), [controller EXCEPT !.signData.seed = seed])
        PROVE  SigningInv'
    BY Zenon, <2>1, <2>6, AsideTurn, SameSeeds, UndisturbedTemps DEF GoWith, To, GoesBack
  <2>7. CASE GoWith(To("ScanView"), resuming)
    BY <2>1, <2>3, <2>7, AsideOnward, SameSeeds DEF GoWith, To, GoesBack
  <2>8. ASSUME NEW cls \in {"SeedMnemonicEntryView", "SeedElectrumMnemonicStartView"},
               NEW stored \in {storage, InitPendingMnemonic(FALSE)}, Turn(To(cls), resuming, stored, {})
        PROVE  SigningInv'
    BY Zenon, <2>1, <2>3, <2>8, AsideTurn, SameSeeds DEF To, GoesBack
  <2> QED BY Zenon, <1>5, <2>4, <2>5, <2>6, <2>7, <2>8
          DEF SeedSelectSeedView, LoadASeed, ChooseLeaving, GoWith, resuming
<1>6. CASE SeedMnemonicEntryView
  BY Zenon, <1>6, AsideTurn, SameSeeds, UndisturbedTemps
     DEF SeedMnemonicEntryView, At, GoStoring, NextAfterWord, Raise, RaiseError, Go, To,
         ToWith, Back, Skipping, Clearing, GoesBack
<1>7. CASE SeedMnemonicInvalidView
  BY Zenon, <1>7, AsideTurn, SameSeeds, UndisturbedTemps
     DEF SeedMnemonicInvalidView, At, ChooseWith, Go, GoStoring, To, ToWith, Back, Skipping,
         Clearing, GoesBack
<1>8. CASE SeedElectrumMnemonicStartView
  BY Zenon, <1>8, AsideTurn, SameSeeds, UndisturbedTemps
     DEF SeedElectrumMnemonicStartView, At, GoStoring, To, ToWith, Back, Skipping, Clearing,
         GoesBack
<1>9. CASE SeedFinalizeView
  <2>1. Aside /\ view.cls # "MainMenuView"
    BY <1>9 DEF SeedFinalizeView, At
  <2> HIDE DEF Aside
  <2>2. CASE KeepSeed
    <3> DEFINE d == Clearing(ToWith("SeedOptionsView", [seed |-> storage.pendingSeed]))
    <3>1. Turn(d, controller, FinalizePendingSeed, {})
      BY <2>2 DEF KeepSeed, GoStoring
    <3>2. d.cls = "SeedOptionsView" /\ d.clear /\ ~GoesBack(d) /\ d.args.seed = storage.pendingSeed
      BY DEF Clearing, ToWith, To, GoesBack
    <3>3. Keeps(FinalizePendingSeed) /\ storage.pendingSeed \in FinalizePendingSeed.seeds
      BY SameSeeds DEF FinalizePendingSeed
    <3> HIDE DEF d
    <3> QED BY <2>1, <3>1, <3>2, <3>3, SeedMenuTurn
  <2>3. CASE Choose("SeedAddPassphraseView")
    BY Zenon, <2>1, <2>3, AsideTurn, SameSeeds, UndisturbedTemps DEF Choose, Go, To, GoesBack
  <2> QED BY <1>9, <2>2, <2>3 DEF SeedFinalizeView
<1>10. CASE SeedAddPassphraseView
  BY Zenon, <1>10, AsideTurn, SameSeeds, UndisturbedTemps
     DEF SeedAddPassphraseView, At, GoStoring, To, ToWith, Back, Skipping, Clearing, GoesBack
<1>11. CASE SeedAddPassphraseExitDialogView
  BY Zenon, <1>11, AsideTurn, SameSeeds, UndisturbedTemps
     DEF SeedAddPassphraseExitDialogView, At, Choose, Go, GoStoring, To, ToWith, Back,
         Skipping, Clearing, GoesBack
<1>12. CASE SeedReviewPassphraseView
  <2>1. Aside /\ view.cls # "MainMenuView"
    BY <1>12 DEF SeedReviewPassphraseView, At
  <2> HIDE DEF Aside
  <2>2. CASE KeepSeed
    <3> DEFINE d == Clearing(ToWith("SeedOptionsView", [seed |-> storage.pendingSeed]))
    <3>1. Turn(d, controller, FinalizePendingSeed, {})
      BY <2>2 DEF KeepSeed, GoStoring
    <3>2. d.cls = "SeedOptionsView" /\ d.clear /\ ~GoesBack(d) /\ d.args.seed = storage.pendingSeed
      BY DEF Clearing, ToWith, To, GoesBack
    <3>3. Keeps(FinalizePendingSeed) /\ storage.pendingSeed \in FinalizePendingSeed.seeds
      BY SameSeeds DEF FinalizePendingSeed
    <3> HIDE DEF d
    <3> QED BY <2>1, <3>1, <3>2, <3>3, SeedMenuTurn
  <2>3. CASE Choose("SeedAddPassphraseView")
    BY Zenon, <2>1, <2>3, AsideTurn, SameSeeds, UndisturbedTemps DEF Choose, Go, To, GoesBack
  <2> QED BY <1>12, <2>2, <2>3 DEF SeedReviewPassphraseView
<1>13. CASE SeedDiscardView
  <2>1. view.cls = "SeedDiscardView" /\ Aside /\ (OfASeed(view) => view.args.seed \in storage.seeds)
    BY <1>13, ViewIsKnown DEF SeedDiscardView, At, SigningInv
  <2> HIDE DEF Aside
  <2>2. CASE Go(Skipping(To("SeedFinalizeView")))
    BY Zenon, <2>1, <2>2, AsideTurn, SameSeeds, UndisturbedTemps DEF Go, Skipping, To, GoesBack
  <2>3. CASE Go(Skipping(ToWith("SeedOptionsView", [seed |-> view.args.seed]))) /\ view.args # None
    BY Zenon, <2>1, <2>3, SeedMenuTurn, SameSeeds
    DEF Go, Skipping, ToWith, To, GoesBack, Entry, OfASeed, UnderSeeds
  <2>4. ASSUME NEW stored, GoStoring(Clearing(To("MainMenuView")), stored) PROVE SigningInv'
    BY <2>4, HomeTurn DEF GoStoring, Clearing, To
  <2> QED BY <1>13, <2>2, <2>3, <2>4 DEF SeedDiscardView
<1>14. CASE SeedOptionsView
  <2>1. /\ view.cls = "SeedOptionsView" /\ Aside /\ UnderSeeds(view) /\ view.args.seed \in storage.seeds
    BY <1>14, ViewIsKnown
       DEF SeedOptionsView, At, OfASeed, UnderSeeds, ScreensOfASeed, SigningInv
  <2> DEFINE seed == view.args.seed
  <2> HIDE DEF Aside
  <2>2. ASSUME NEW d, NEW temps, Undisturbed(temps), ~GoesBack(d),
               NoReview(d.cls), NoSeedMenu(d.cls), d.cls # "MainMenuView",
               Turn(d, temps, storage, {})
        PROVE  SigningInv'
    BY <2>1, <2>2, AsideTurn, SameSeeds
  <2>3. CASE SeedOptionsMenu(seed)
    <3>1. CASE Go(To("MainMenuView"))
      BY <3>1, HomeTurn DEF Go, To
    <3>2. CASE ChooseLeaving("ScanPSBTView", [controller EXCEPT !.psbtSeed = seed])
      <4> DEFINE d == To("ScanPSBTView")
                 temps == [controller EXCEPT !.psbtSeed = seed]
      <4>1. d.cls = "ScanPSBTView" /\ ~GoesBack(d) /\ ~d.skip
        BY DEF To, GoesBack
      <4>2. temps.psbtSeed = seed /\ temps.parser = controller.parser /\ temps.psbt = controller.psbt
        OBVIOUS
      <4> HIDE DEF d, temps
      <4>3. Turn(d, temps, storage, {})
        BY <3>2 DEF ChooseLeaving, GoWith, d, temps
      <4>4. \A i \in Places : backStack[i].cls # "ScanView"
        <5>1. Len(backStack) \in Places /\ backStack[Len(backStack)] = view
          BY <2>1, ViewIsOnTop DEF Places, Home, Entry, To
        <5>2. \A i \in Places : i = Len(backStack) \/ i < Len(backStack)
          BY ViewIsOnTop DEF Places
        <5> QED BY <2>1, <5>1, <5>2 DEF SigningInv, KnownSeeds
      <4>5. KnownStep(d, temps, storage)
        BY <2>1, <4>1, <4>2
           DEF KnownStep, UnderSeeds, OfASeed, ScreensOfASeed, WordScreens, Entry
      <4>6. view.cls # "PSBTSignedQRDisplayView" /\ NoReview(d.cls)
        BY <2>1, <4>1
      <4> QED BY <2>1, <4>1, <4>2, <4>3, <4>4, <4>5, <4>6, CleanTurn
    <3>3. CASE GoWith(To("ScanView"), [controller EXCEPT !.signData = [NoMessage EXCEPT !.seed = seed],
                                                         !.resume = "sign_message"])
      <4> DEFINE temps == [controller EXCEPT !.signData = [NoMessage EXCEPT !.seed = seed], !.resume = "sign_message"]
      <4>1. Undisturbed(temps)
        BY Zenon, UndisturbedTemps
      <4>2. temps.resume # "psbt"
        OBVIOUS
      <4> HIDE DEF temps
      <4>3. Turn(To("ScanView"), temps, storage, {})
        BY <3>3 DEF GoWith, temps
      <4> QED BY <2>1, <4>1, <4>2, <4>3, AsideOnward, SameSeeds DEF To, GoesBack
    <3>4. ASSUME NEW cls \in {"SeedBackupView", "SeedDiscardView", "SeedBIP85SelectNumWordsView"},
                 Go(ToWith(cls, [seed |-> seed]))
          PROVE  SigningInv'
      <4> DEFINE d == ToWith(cls, [seed |-> seed])
      <4>1. d.cls = cls /\ d.args.seed = seed /\ ~GoesBack(d)
        BY DEF To, ToWith, GoesBack
      <4> HIDE DEF d
      <4>2. NoReview(d.cls) /\ d.cls # "MainMenuView"
        BY <4>1
      <4> QED BY <2>1, <3>4, <4>1, <4>2, SeedMenuTurn, SameSeeds DEF Go, d
    <3>5. CASE Go(ToWith("SeedExportXpubSigTypeView", [seed |-> seed]))
      BY Zenon, <2>2, <3>5, UndisturbedTemps DEF Go, ToWith, To, GoesBack
    <3>6. CASE GoWith(ToWith("SeedExportXpubScriptTypeView", [seed |-> seed, sigType |-> "ss"]),
                      [controller EXCEPT !.resume = "address_explorer"])
      BY Zenon, <2>2, <3>6, UndisturbedTemps DEF GoWith, ToWith, To, GoesBack
    <3> QED BY <2>3, <3>1, <3>2, <3>3, <3>4, <3>5, <3>6 DEF SeedOptionsMenu, ChooseWith
  <2>4. CASE FlowWaiting(seed) # "none" /\ ResumeFlow(seed)
    <3> DEFINE onward == [controller EXCEPT !.resume = None]
    <3>1. Undisturbed(onward)
      BY Zenon, UndisturbedTemps
    <3>2. CASE GoWith(Skipping(ToWith("SeedAddressVerificationView", [seed |-> seed])), onward)
      BY Zenon, <2>2, <3>1, <3>2 DEF GoWith, Skipping, ToWith, To, GoesBack
    <3>3. CASE Go(Skipping(ToWith("SeedExportXpubScriptTypeView", [seed |-> seed, sigType |-> "ss"])))
      BY Zenon, <2>2, <3>3, UndisturbedTemps DEF Go, Skipping, ToWith, To, GoesBack
    <3>4. CASE Raise
      BY Zenon, <2>2, <3>4, UndisturbedTemps DEF Raise, RaiseError, Go, Clearing, ToWith, To, GoesBack
    <3>5. CASE GoWith(Skipping(To("SeedSignMessageConfirmMessageView")), [controller EXCEPT !.signData.seed = seed])
      BY Zenon, <2>2, <3>5, UndisturbedTemps DEF GoWith, Skipping, To, GoesBack
    <3>6. CASE controller.psbt # None /\ GoWith(Skipping(To("PSBTOverviewView")), [onward EXCEPT !.psbtSeed = seed])
      <4> DEFINE d == Skipping(To("PSBTOverviewView"))
                 temps == [onward EXCEPT !.psbtSeed = seed]
      <4>1. d.cls = "PSBTOverviewView" /\ ~d.clear
        BY DEF Skipping, To
      <4>2. temps.psbt = controller.psbt /\ temps.parser = controller.parser /\ temps.psbtSeed = seed
        OBVIOUS
      <4> HIDE DEF d, temps
      <4>3. Turn(d, temps, storage, {})
        BY <3>6 DEF GoWith, d, temps
      <4> QED BY <2>1, <3>6, <4>1, <4>2, <4>3, NoneIsNoSeed, OverviewTurn
    <3>7. FlowWaiting(seed) \notin {"singlesig_addr", "address_explorer", "sign_message"} => controller.psbt # None
      BY <2>4 DEF FlowWaiting
    <3> QED BY <2>4, <3>2, <3>3, <3>4, <3>5, <3>6, <3>7 DEF ResumeFlow
  <2> QED BY <1>14, <2>3, <2>4 DEF SeedOptionsView
<1> QED BY <1>1, <1>2, <1>3, <1>4, <1>5, <1>6, <1>7, <1>8, <1>9, <1>10, <1>11, <1>12, <1>13,
           <1>14
           DEF SeedViews

\* From a View about a seed to another one about the same seed.
LEMMA SameSeedTurn ==
  ASSUME IInv, SigningInv, Aside, view.cls \in ScreensOfASeed \union WordScreens
  PROVE  \A d, displayed :
           /\ \/ GoesBack(d) /\ ~d.clear
              \/ ~GoesBack(d) /\ NoReview(d.cls) /\ NoSeedMenu(d.cls)
              \/ d.cls \in WordScreens /\ d.args.seed = view.args.seed
              \/ d.cls \in ScreensOfASeed /\ d.args.seed = view.args.seed /\ OfASeed(view)
           /\ d.cls = "MainMenuView" => d.args = None
           /\ Turn(d, controller, storage, displayed)
           => SigningInv'
<1> SUFFICES ASSUME NEW d, NEW displayed,
                    \/ GoesBack(d) /\ ~d.clear
                    \/ ~GoesBack(d) /\ NoReview(d.cls) /\ NoSeedMenu(d.cls)
                    \/ d.cls \in WordScreens /\ d.args.seed = view.args.seed
                    \/ d.cls \in ScreensOfASeed /\ d.args.seed = view.args.seed /\ OfASeed(view),
                    d.cls = "MainMenuView" => d.args = None,
                    Turn(d, controller, storage, displayed)
             PROVE  SigningInv'
  OBVIOUS
<1>1. view.cls # "MainMenuView" /\ (OfASeed(view) => view.args.seed \in storage.seeds)
  BY ViewIsKnown DEF ScreensOfASeed, WordScreens, SigningInv
<1>2. Keeps(storage) /\ Undisturbed(controller)
  BY Zenon, SameSeeds, UndisturbedTemps
<1>3. CASE GoesBack(d) /\ ~d.clear
  BY <1>1, <1>2, <1>3, AsideTurn
<1>4. CASE ~GoesBack(d) /\ NoReview(d.cls) /\ NoSeedMenu(d.cls)
  BY <1>1, <1>2, <1>4, AsideTurn
<1>5. CASE /\ d.cls \in WordScreens \union ScreensOfASeed /\ d.args.seed = view.args.seed
           /\ d.cls \in ScreensOfASeed => OfASeed(view)
  <2>1. NoReview(d.cls) /\ ~GoesBack(d)
    BY <1>5 DEF NoReview, GoesBack, WordScreens, ScreensOfASeed
  <2>2. OfASeed(Entry(d)) => OfASeed(view) /\ d.args.seed \in storage.seeds
    <3>1. Entry(d).cls = d.cls /\ Entry(d).args = d.args /\ d.cls # "SeedDiscardView"
      BY <1>5 DEF Entry, WordScreens, ScreensOfASeed
    <3>2. CASE view.args.seed # None
      <4>1. OfASeed(view)
        BY <3>2 DEF OfASeed
      <4> QED BY <1>1, <1>5, <4>1
    <3>3. CASE view.args.seed = None
      BY <1>1, <1>5, <3>1, <3>3 DEF OfASeed
    <3> QED BY <3>2, <3>3
  <2>3. UnderSeeds(Entry(d)) => UnderSeeds(view)
    BY <1>5, <2>2 DEF UnderSeeds, Entry, WordScreens, ScreensOfASeed
  <2> QED BY <1>1, <1>2, <2>1, <2>2, <2>3, SeedMenuTurn
<1>6. WordScreens \intersect ScreensOfASeed = {}
  BY DEF WordScreens, ScreensOfASeed
<1> QED BY <1>3, <1>4, <1>5, <1>6

LEMMA SeedQRViewsKeepSigning ==
  ASSUME IInv, SigningInv, SeedQRViews PROVE SigningInv'
<1> USE DEF NoReview, NoSeedMenu, ScreensOfASeed, WordScreens
<1>1. CASE SeedTranscribeSeedQRFormatView
  <2>1. Aside /\ view.cls \in ScreensOfASeed \union WordScreens /\ OfASeed(view)
    BY <1>1 DEF SeedTranscribeSeedQRFormatView, At, Aside, ScreensOfASeed, WordScreens, OfASeed
  <2> QED BY Zenon, <1>1, <2>1, SameSeedTurn
          DEF SeedTranscribeSeedQRFormatView, OfSeed, Go, Choose, ChooseWith, ChooseSkipping,
              To, ToWith, Back, Skipping, Clearing, GoesBack
<1>2. CASE SeedTranscribeSeedQRWarningView
  <2>1. Aside /\ view.cls \in ScreensOfASeed \union WordScreens /\ OfASeed(view)
    BY <1>2 DEF SeedTranscribeSeedQRWarningView, At, Aside, ScreensOfASeed, WordScreens, OfASeed
  <2> QED BY Zenon, <1>2, <2>1, SameSeedTurn
          DEF SeedTranscribeSeedQRWarningView, OfSeed, Go, Choose, ChooseWith, ChooseSkipping,
              To, ToWith, Back, Skipping, Clearing, GoesBack
<1>3. CASE SeedTranscribeSeedQRWholeQRView
  <2>1. Aside /\ view.cls \in ScreensOfASeed \union WordScreens /\ OfASeed(view)
    BY <1>3 DEF SeedTranscribeSeedQRWholeQRView, At, Aside, ScreensOfASeed, WordScreens, OfASeed
  <2> QED BY <1>3, <2>1, SameSeedTurn
          DEF SeedTranscribeSeedQRWholeQRView, OfSeed, Go, Choose, ChooseWith, ChooseSkipping,
              To, ToWith, Back, Skipping, Clearing, GoesBack
<1>4. CASE SeedTranscribeSeedQRZoomedInView
  <2>1. Aside /\ view.cls \in ScreensOfASeed \union WordScreens /\ OfASeed(view)
    BY <1>4
       DEF SeedTranscribeSeedQRZoomedInView, At, Aside, ScreensOfASeed, WordScreens, OfASeed
  <2> QED BY <1>4, <2>1, SameSeedTurn
          DEF SeedTranscribeSeedQRZoomedInView, OfSeed, Go, Choose, ChooseWith, ChooseSkipping,
              To, ToWith, Back, Skipping, Clearing, GoesBack
<1>5. CASE SeedTranscribeSeedQRConfirmQRPromptView
  <2>1. Aside /\ view.cls \in ScreensOfASeed \union WordScreens /\ OfASeed(view)
    BY <1>5 DEF SeedTranscribeSeedQRConfirmQRPromptView, At, Aside, ScreensOfASeed, WordScreens,
           OfASeed
  <2> QED BY Zenon, <1>5, <2>1, SameSeedTurn
          DEF SeedTranscribeSeedQRConfirmQRPromptView, OfSeed, Go, Choose, ChooseWith,
              ChooseSkipping, To, ToWith, Back, Skipping, Clearing, GoesBack
<1>6. CASE SeedTranscribeSeedQRConfirmScanView
  <2>1. Aside /\ view.cls \in ScreensOfASeed \union WordScreens /\ OfASeed(view)
    BY <1>6
       DEF SeedTranscribeSeedQRConfirmScanView, At, Aside, ScreensOfASeed, WordScreens, OfASeed
  <2> QED BY <1>6, <2>1, SameSeedTurn
          DEF SeedTranscribeSeedQRConfirmScanView, OfSeed, Go, Choose, ChooseWith,
              ChooseSkipping, To, ToWith, Back, Skipping, Clearing, GoesBack
<1>7. CASE SeedTranscribeSeedQRRejected
  BY Zenon, <1>7, AsideTurn, SameSeeds, UndisturbedTemps
     DEF Aside, SeedTranscribeSeedQRRejected, At, Go, To, ToWith, Back, Skipping, Clearing,
         GoesBack
<1>8. CASE SeedTranscribeSeedQRConfirmSuccessView
  <2>1. Aside /\ view.cls \in ScreensOfASeed \union WordScreens /\ OfASeed(view)
    BY <1>8 DEF SeedTranscribeSeedQRConfirmSuccessView, At, Aside, ScreensOfASeed, WordScreens,
           OfASeed
  <2> QED BY <1>8, <2>1, SameSeedTurn
          DEF SeedTranscribeSeedQRConfirmSuccessView, OfSeed, Go, Choose, ChooseWith,
              ChooseSkipping, To, ToWith, Back, Skipping, Clearing, GoesBack
<1> QED BY <1>1, <1>2, <1>3, <1>4, <1>5, <1>6, <1>7, <1>8 DEF SeedQRViews

LEMMA WordsViewsKeepSigning ==
  ASSUME IInv, SeedInv, SigningInv, WordsViews PROVE SigningInv'
<1> USE DEF NoReview, NoSeedMenu, ScreensOfASeed, WordScreens
<1>1. CASE SeedBackupView
  <2>1. Aside /\ view.cls \in ScreensOfASeed \union WordScreens /\ OfASeed(view)
    BY <1>1 DEF SeedBackupView, At, Aside, ScreensOfASeed, WordScreens, OfASeed
  <2> QED BY <1>1, <2>1, SameSeedTurn
          DEF SeedBackupView, Go, Choose, ChooseWith, ChooseSkipping, To, ToWith, Back,
              Skipping, Clearing, GoesBack
<1>2. CASE SeedWordsWarningView
  <2>1. Aside /\ view.cls \in ScreensOfASeed \union WordScreens
    BY <1>2 DEF SeedWordsWarningView, At, Aside, ScreensOfASeed, WordScreens
  <2> QED BY Zenon, <1>2, <2>1, SameSeedTurn
          DEF SeedWordsWarningView, Page, Go, Choose, ChooseWith, ChooseSkipping, To, ToWith,
              Back, Skipping, Clearing, GoesBack
<1>3. CASE SeedWordsView
  <2>1. Aside /\ view.cls \in ScreensOfASeed \union WordScreens
    BY <1>3 DEF SeedWordsView, At, Aside, ScreensOfASeed, WordScreens
  <2> QED BY <1>3, <2>1, SameSeedTurn
          DEF SeedWordsView, Page, Source, Go, Choose, ChooseWith, ChooseSkipping, To, ToWith,
              Back, Skipping, Clearing, GoesBack
<1>4. CASE BIP85Views
  <2>1. Aside /\ view.cls \in ScreensOfASeed \union WordScreens /\ OfASeed(view)
    BY <1>4 DEF BIP85Views, At, Aside, ScreensOfASeed, WordScreens, OfASeed
  <2> QED BY Zenon, <1>4, <2>1, SameSeedTurn
          DEF BIP85Views, Go, Choose, ChooseWith, ChooseSkipping, To, ToWith, Back, Skipping,
              Clearing, GoesBack
<1>5. CASE SeedWordsBackupTestPromptView
  <2>1. Aside /\ view.cls \in ScreensOfASeed \union WordScreens /\ (view.args.seed # None => OfASeed(view))
    BY <1>5 DEF SeedWordsBackupTestPromptView, At, Aside, OfASeed
  <2>2. \/ view.args.seed = None /\ Go(To("SeedFinalizeView"))
        \/ view.args.seed # None /\ Go(ToWith("SeedOptionsView", [seed |-> view.args.seed]))
        \/ Go(TestOf(<< >>, None))
    BY <1>5 DEF SeedWordsBackupTestPromptView, BackupDone
  <2> QED BY <2>1, <2>2, SameSeedTurn DEF Go, To, ToWith, GoesBack, TestOf
<1>6. CASE SeedWordsBackupTestView
  <2>1. Aside /\ view.cls \in ScreensOfASeed \union WordScreens
    BY <1>6 DEF SeedWordsBackupTestView, At, Aside
  <2>2. view.args = [seed |-> view.args.seed, bip85 |-> view.args.bip85,
                     confirmed |-> view.args.confirmed, cur |-> view.args.cur]
    BY <1>6, ViewIsOK DEF SeedWordsBackupTestView, At, ArgsOK
  <2>3. PICK d, displayed :
          /\ Turn(d, controller, storage, displayed)
          /\ d.cls \in {"SeedWordsBackupTestSuccessView", "SeedWordsBackupTestView", "SeedWordsBackupTestMistakeView"}
          /\ d.args.seed = view.args.seed
    <3>1. PICK i \in Asked :
            LET confirmed == Append(view.args.confirmed, i) IN
            \/ Turn(IF Len(confirmed) = MnemonicLength
                    THEN ToWith("SeedWordsBackupTestSuccessView", [seed |-> view.args.seed])
                    ELSE TestOf(confirmed, None),
                    controller, storage, {<<"confirmed", Source, i>>})
            \/ ChooseWith("SeedWordsBackupTestMistakeView", [view.args EXCEPT !.cur = i])
      BY Zenon, <1>6 DEF SeedWordsBackupTestView
    <3> DEFINE confirmed == Append(view.args.confirmed, i)
               d1 == IF Len(confirmed) = MnemonicLength
                     THEN ToWith("SeedWordsBackupTestSuccessView", [seed |-> view.args.seed])
                     ELSE TestOf(confirmed, None)
               d2 == ToWith("SeedWordsBackupTestMistakeView", [view.args EXCEPT !.cur = i])
    <3>2. Turn(d1, controller, storage, {<<"confirmed", Source, i>>}) \/ Turn(d2, controller, storage, {})
      BY <3>1 DEF ChooseWith, Go
    <3>3. d1.cls \in {"SeedWordsBackupTestSuccessView", "SeedWordsBackupTestView"} /\ d1.args.seed = view.args.seed
      BY DEF To, ToWith, TestOf
    <3>4. d2.cls = "SeedWordsBackupTestMistakeView" /\ d2.args.seed = view.args.seed
      BY <2>2 DEF To, ToWith
    <3> HIDE DEF d1, d2
    <3> QED BY <3>2, <3>3, <3>4
  <2> QED BY <2>1, <2>3, SameSeedTurn
<1>7. CASE SeedWordsBackupTestMistakeView
  <2>1. Aside /\ view.cls \in ScreensOfASeed \union WordScreens
    BY <1>7 DEF SeedWordsBackupTestMistakeView, At, Aside, ScreensOfASeed, WordScreens
  <2> QED BY <1>7, <2>1, SameSeedTurn
          DEF SeedWordsBackupTestMistakeView, Page, TestOf, Go, Choose, ChooseWith,
              ChooseSkipping, To, ToWith, Back, Skipping, Clearing, GoesBack
<1>8. CASE SeedWordsBackupTestSuccessView
  <2>1. Aside /\ view.cls \in ScreensOfASeed \union WordScreens /\ (view.args.seed # None => OfASeed(view))
    BY <1>8 DEF SeedWordsBackupTestSuccessView, At, Aside, OfASeed
  <2>2. \/ view.args.seed = None /\ Go(To("SeedFinalizeView"))
        \/ view.args.seed # None /\ Go(Clearing(ToWith("SeedOptionsView", [seed |-> view.args.seed])))
    BY <1>8 DEF SeedWordsBackupTestSuccessView, BackupDone
  <2> QED BY Zenon, <2>1, <2>2, SameSeedTurn DEF Go, To, ToWith, Clearing, GoesBack
<1> QED BY <1>1, <1>2, <1>3, <1>4, <1>5, <1>6, <1>7, <1>8 DEF WordsViews

-----------------------------------------------------------------------------
(* The review itself. *)

\* A transaction's parts are counted with natural numbers.
LEMMA TransactionParts ==
  ASSUME NEW tx \in Transactions
  PROVE  /\ tx.dests \in Nat /\ Len(tx.change) \in Nat
         /\ tx.change = << >> => Len(tx.change) = 0
         /\ Len(tx.change) = 0 => tx.change = << >>
<1>1. tx.dests \in Nat /\ tx.change \in Seq(Range(tx.change))
  BY PsbtAssumption
<1> DEFINE S == Range(tx.change)
<1>2. tx.change \in Seq(S)
  BY <1>1
<1> HIDE DEF S
<1>3. Len(tx.change) \in Nat /\ (Len(tx.change) = 0 => tx.change = << >>)
  BY <1>2
<1>4. tx.change = << >> => Len(tx.change) = 0
  OBVIOUS
<1> QED BY <1>1, <1>3, <1>4

\* Where the review is when it is at a View.
LEMMA OnReview ==
  ASSUME IInv, SigningInv, view.cls \in ReviewZone
  PROVE  /\ Len(backStack) \in Places /\ backStack[Len(backStack)] = view
         /\ \/ UnderReview /\ Reached(view, controller.parser, shown)
            \/ view.cls = "PSBTChangeDetailsView" /\ Idle
         /\ UnderReview =>
              /\ controller.parser # None /\ ~Idle
              /\ controller.parser.seed = controller.psbtSeed
              /\ controller.parser.psbt \in Transactions
         /\ ~Idle /\ controller.descriptor # None /\ controller.parser.psbt.multisig =>
              VerifiedBefore(view, controller.parser, shown)
         /\ view.cls \in {"PSBTAddressDetailsView", "PSBTChangeDetailsView"} => view.args.num \in Nat
         /\ view.cls # "MainMenuView" /\ view # Home
<1>1. view.cls \notin {"MainMenuView", "PSBTOverviewView"}
  BY DEF ReviewZone, ReviewScreens
<1>2. /\ Len(backStack) \in Places /\ backStack[Len(backStack)] = view /\ view # Home
      /\ \A j \in Places : ~(j > Len(backStack)) /\ (j = Len(backStack) \/ j < Len(backStack))
  BY <1>1, ViewIsOnTop DEF Places, Home, Entry, To
<1>3. \/ UnderReview /\ Reached(view, controller.parser, shown)
      \/ view.cls = "PSBTChangeDetailsView" /\ Idle
  BY <1>2 DEF SigningInv, ReviewInv, ReviewReached
<1>4. ASSUME UnderReview
      PROVE  /\ controller.parser # None /\ ~Idle
             /\ controller.parser.seed = controller.psbtSeed
             /\ controller.parser.psbt \in Transactions
  <2>1. PICK k \in Places : backStack[k].cls = "PSBTOverviewView"
    BY <1>4 DEF UnderReview
  <2>2. k < Len(backStack)
    BY <1>1, <1>2, <2>1
  <2>3. controller.psbtSeed # None /\ controller.parser # None /\ controller.parser.seed = controller.psbtSeed
    BY <2>1, <2>2 DEF SigningInv, ReviewInv, OverviewOK
  <2> QED BY <2>3 DEF SigningInv, ReviewInv, ParserOK, Idle
<1>5. ~Idle /\ controller.descriptor # None /\ controller.parser.psbt.multisig =>
        VerifiedBefore(view, controller.parser, shown)
  BY <1>2 DEF SigningInv, ReviewInv, DescriptorOK
<1>6. view.cls \in {"PSBTAddressDetailsView", "PSBTChangeDetailsView"} => view.args.num \in Nat
  BY <1>2 DEF SigningInv, ReviewInv, ReviewArgs
<1> QED BY <1>1, <1>2, <1>3, <1>4, <1>5, <1>6

\* On to the next screen of the review.
LEMMA ReviewTurn ==
  ASSUME IInv, SigningInv, view.cls \in ReviewZone, view.cls # "PSBTSignedQRDisplayView", UnderReview
  PROVE  \A d, displayed :
           /\ d.cls \in ReviewZone /\ d.cls # "PSBTSignedQRDisplayView" /\ ~d.clear
           /\ d.cls \in {"PSBTAddressDetailsView", "PSBTChangeDetailsView"} => d.args.num \in Nat
           /\ Reached(Entry(d), controller.parser, shown \union displayed)
           /\ controller.descriptor # None /\ controller.parser.psbt.multisig =>
                VerifiedBefore(Entry(d), controller.parser, shown \union displayed)
           /\ Turn(d, controller, storage, displayed)
           => SigningInv'
<1> SUFFICES ASSUME NEW d, NEW displayed,
                    d.cls \in ReviewZone, d.cls # "PSBTSignedQRDisplayView", ~d.clear,
                    d.cls \in {"PSBTAddressDetailsView", "PSBTChangeDetailsView"} => d.args.num \in Nat,
                    Reached(Entry(d), controller.parser, shown \union displayed),
                    controller.descriptor # None /\ controller.parser.psbt.multisig =>
                      VerifiedBefore(Entry(d), controller.parser, shown \union displayed),
                    Turn(d, controller, storage, displayed)
             PROVE  SigningInv'
  OBVIOUS
<1>1. /\ view.cls \notin {"PSBTOverviewView", "PSBTSignedQRDisplayView", "MainMenuView",
                         "MultisigWalletDescriptorView"}
      /\ d.cls \in Beyond /\ d.cls \notin DescriptorScreens /\ NoSeedMenu(d.cls)
      /\ d.cls \notin {"PSBTOverviewView", "BackStackView", "ErrorView", "SeedSelectSeedView", "PSBTSelectSeedView",
           "PSBTSignedQRDisplayView", "MultisigWalletDescriptorView", "ScanView", "MainMenuView"}
  BY DEF ReviewZone, ReviewScreens, DescriptorScreens, Beyond, NoSeedMenu
<1>2. MayFollow(d)
  BY <1>1 DEF MayFollow
<1>3. ReviewFollows(d, controller, shown \union displayed)
  BY <1>1 DEF ReviewFollows
<1>4. ResumeFollows(d, controller, shown \union displayed)
  BY <1>1 DEF ResumeFollows
<1>5. ~GoesBack(d)
  BY <1>1 DEF GoesBack
<1> QED BY <1>1, <1>2, <1>3, <1>4, <1>5, SameSeeds, OnwardTurn

\* BACK, Home, an exception or a warning, from a screen of the review.
LEMMA ReviewLeaves ==
  ASSUME IInv, SigningInv, view.cls \in ReviewZone, view.cls # "PSBTSignedQRDisplayView"
  PROVE  /\ Go(Back) => SigningInv'
         /\ \A item : Show(Back, item) => SigningInv'
         /\ Go(To("MainMenuView")) => SigningInv'
         /\ Raise => SigningInv'
         /\ Go(To("NotYetImplementedView")) => SigningInv'
         /\ \A x : Go(Clearing(ToWith("PSBTAddressVerificationFailedView", x))) => SigningInv'
<1>1. view.cls \notin {"PSBTOverviewView", "PSBTSignedQRDisplayView", "MainMenuView", "MultisigWalletDescriptorView"}
  BY DEF ReviewZone, ReviewScreens
<1>2. GoesBack(Back) /\ ~Back.clear /\ ~Back.skip /\ Undisturbed(controller) /\ Keeps(storage)
  BY Zenon, UndisturbedTemps, SameSeeds DEF Back, To, GoesBack
<1>3. \A displayed : Turn(Back, controller, storage, displayed) => SigningInv'
  BY <1>1, <1>2, BackTurn
<1>4. Go(Back) => SigningInv'
  BY <1>3 DEF Go
<1>5. \A item : Show(Back, item) => SigningInv'
  BY <1>3 DEF Show
<1>6. Go(To("MainMenuView")) => SigningInv'
  BY HomeTurn DEF Go, To
<1>7. Raise => SigningInv'
  BY Zenon, <1>1, <1>2, BeyondTurn
     DEF Raise, RaiseError, Go, Clearing, ToWith, To, GoesBack, NoReview, NoSeedMenu
<1>8. Go(To("NotYetImplementedView")) => SigningInv'
  BY <1>1, <1>2, BeyondTurn DEF Go, To
<1>9. \A x : Go(Clearing(ToWith("PSBTAddressVerificationFailedView", x))) => SigningInv'
  BY Zenon, <1>1, <1>2, BeyondTurn DEF Go, Clearing, ToWith, To, GoesBack, NoReview, NoSeedMenu
<1> QED BY <1>4, <1>5, <1>6, <1>7, <1>8, <1>9

\* The classes of the review are in it.
LEMMA ReviewClasses ==
  /\ ReviewZone = {"PSBTNoChangeWarningView", "PSBTMathView", "PSBTAddressDetailsView", "PSBTChangeDetailsView",
                   "PSBTOpReturnView", "PSBTFinalizeView", "PSBTSigningErrorView", "PSBTSignedQRDisplayView"}
  /\ \A d : Entry(d).cls = d.cls /\ Entry(d).args = d.args
BY DEF ReviewZone, ReviewScreens, Entry

LEMMA NoChangeKeeps ==
  ASSUME IInv, SigningInv, PSBTNoChangeWarningView PROVE SigningInv'
<1>1. view.cls = "PSBTNoChangeWarningView" /\ view.cls \in ReviewZone
  BY ReviewClasses DEF PSBTNoChangeWarningView, At
<1>2. CASE Go(Skipping(ToWith("PSBTMathView", None)))
  <2> DEFINE d == Skipping(ToWith("PSBTMathView", None))
  <2>1. d.cls = "PSBTMathView" /\ ~d.clear
    BY DEF Skipping, ToWith, To
  <2> HIDE DEF d
  <2>2. Turn(d, controller, storage, {})
    BY <1>2 DEF Go, d
  <2>3. /\ UnderReview
        /\ ChangeBefore(Entry(d), controller.parser.psbt) = 0
        /\ DestsBefore(Entry(d), controller.parser.psbt) = 0
    BY <1>1, <2>1, OnReview, ReviewClasses DEF ChangeBefore, DestsBefore
  <2>4. \A n \in Nat : ~(n < 0)
    OBVIOUS
  <2>5. /\ Reached(Entry(d), controller.parser, shown \union {})
        /\ VerifiedBefore(Entry(d), controller.parser, shown \union {})
    BY Zenon, <2>1, <2>3, <2>4, ReviewClasses DEF Reached, VerifiedBefore
  <2> QED BY <1>1, <2>1, <2>2, <2>3, <2>5, ReviewClasses, ReviewTurn
<1> QED BY <1>1, <1>2, ReviewLeaves DEF PSBTNoChangeWarningView, ChooseSkipping

LEMMA MathKeeps ==
  ASSUME IInv, SigningInv, PSBTMathView PROVE SigningInv'
<1>1. view.cls = "PSBTMathView" /\ view.cls \in ReviewZone
  BY ReviewClasses DEF PSBTMathView, At
<1> DEFINE tx == controller.parser.psbt
           d == IF tx.dests > 0 THEN AddressDetails(0) ELSE ChangeDetails(0)
<1>2. CASE Go(d)
  <2>1. /\ d.cls = IF tx.dests > 0 THEN "PSBTAddressDetailsView" ELSE "PSBTChangeDetailsView"
        /\ ~d.clear /\ d.args.num = 0
    BY DEF AddressDetails, ChangeDetails, ToWith, To
  <2>2. UnderReview /\ tx.dests \in Nat
    BY <1>1, OnReview, TransactionParts
  <2> HIDE DEF d
  <2>3. Turn(d, controller, storage, {})
    BY <1>2 DEF Go
  <2>4. ChangeBefore(Entry(d), tx) = 0 /\ DestsBefore(Entry(d), tx) = 0
    BY <2>1, <2>2, ReviewClasses DEF ChangeBefore, DestsBefore
  <2>5. \A n \in Nat : ~(n < 0)
    OBVIOUS
  <2>6. /\ Reached(Entry(d), controller.parser, shown \union {})
        /\ VerifiedBefore(Entry(d), controller.parser, shown \union {})
    BY Zenon, <2>1, <2>4, <2>5, ReviewClasses DEF Reached, VerifiedBefore
  <2> QED BY <1>1, <2>1, <2>2, <2>3, <2>6, ReviewClasses, ReviewTurn
<1> QED BY <1>1, <1>2, ReviewLeaves DEF PSBTMathView, Reviewing

\* After the destinations and the change.
LEMMA AfterChangeIs ==
  LET d == AfterChange IN
    /\ d.cls = IF controller.parser.psbt.opReturn THEN "PSBTOpReturnView" ELSE "PSBTFinalizeView"
    /\ ~d.clear
BY DEF AfterChange, Reviewing, To

LEMMA AddressDetailsKeeps ==
  ASSUME IInv, SigningInv, PSBTAddressDetailsView PROVE SigningInv'
<1>1. view.cls = "PSBTAddressDetailsView" /\ view.cls \in ReviewZone
  BY ReviewClasses DEF PSBTAddressDetailsView, At
<1> DEFINE tx == controller.parser.psbt
           n == view.args.num
           item == AddressOf(controller.parser, n)
           d == IF n < tx.dests - 1 THEN AddressDetails(n + 1)
                ELSE IF tx.change # << >> THEN ChangeDetails(0) ELSE AfterChange
<1>2. CASE Show(d, item)
  <2>1. /\ UnderReview /\ Reached(view, controller.parser, shown) /\ n \in Nat
        /\ tx.dests \in Nat /\ Len(tx.change) \in Nat /\ (tx.change = << >> => Len(tx.change) = 0)
    BY <1>1, OnReview, TransactionParts
  <2>2. /\ ~d.clear
        /\ IF n < tx.dests - 1 THEN d.cls = "PSBTAddressDetailsView" /\ d.args.num = n + 1
           ELSE IF tx.change # << >> THEN d.cls = "PSBTChangeDetailsView" /\ d.args.num = 0
           ELSE d.cls = IF tx.opReturn THEN "PSBTOpReturnView" ELSE "PSBTFinalizeView"
    BY AfterChangeIs DEF AddressDetails, ChangeDetails, ToWith, To
  <2>3. Turn(d, controller, storage, {item})
    BY <1>2 DEF Show
  <2>4. DestsBefore(view, tx) = n
    BY <1>1 DEF DestsBefore
  <2>5. \A k \in Nat : k < n + 1 => AddressOf(controller.parser, k) \in shown \union {item}
    <3>1. \A k \in Nat : k < n => AddressOf(controller.parser, k) \in shown
      BY <2>1, <2>4 DEF Reached
    <3>2. \A k \in Nat : k < n + 1 => k < n \/ k = n
      BY <2>1
    <3> QED BY <3>1, <3>2
  <2> HIDE DEF d, n, tx, item
  <2>6. Entry(d).cls = d.cls /\ Entry(d).args = d.args
    BY ReviewClasses
  <2>7. /\ d.cls \in {"PSBTAddressDetailsView", "PSBTChangeDetailsView", "PSBTOpReturnView", "PSBTFinalizeView"}
        /\ d.cls \in {"PSBTAddressDetailsView", "PSBTChangeDetailsView"} => d.args.num \in Nat
        /\ d.cls = "PSBTFinalizeView" => ~tx.opReturn
    BY <2>1, <2>2
  <2>8. DestsBefore(Entry(d), tx) \in Nat /\ DestsBefore(Entry(d), tx) <= n + 1
    BY <2>1, <2>2, <2>6, <2>7 DEF DestsBefore
  <2>9. ChangeBefore(Entry(d), tx) = 0
    BY <2>1, <2>2, <2>6, <2>7 DEF ChangeBefore, DescriptorScreens
  <2>10. \A k \in Nat : ~(k < 0) /\ (k < DestsBefore(Entry(d), tx) => k < n + 1)
    BY <2>1, <2>8
  <2>11. /\ Reached(Entry(d), controller.parser, shown \union {item})
         /\ VerifiedBefore(Entry(d), controller.parser, shown \union {item})
    BY Zenon, <2>5, <2>6, <2>7, <2>9, <2>10 DEF Reached, VerifiedBefore, tx
  <2> QED BY <1>1, <2>1, <2>2, <2>3, <2>7, <2>11, ReviewClasses, ReviewTurn
<1> QED BY <1>1, <1>2, ReviewLeaves DEF PSBTAddressDetailsView, Reviewing, ShowOnward

LEMMA OpReturnKeeps ==
  ASSUME IInv, SigningInv, PSBTOpReturnView PROVE SigningInv'
<1>1. view.cls = "PSBTOpReturnView" /\ view.cls \in ReviewZone
  BY ReviewClasses DEF PSBTOpReturnView, At
<1> DEFINE tx == controller.parser.psbt
           item == OpReturnOf(controller.parser)
           d == To("PSBTFinalizeView")
<1>2. CASE Show(d, item)
  <2>1. d.cls = "PSBTFinalizeView" /\ ~d.clear
    BY DEF To
  <2>2. Turn(d, controller, storage, {item})
    BY <1>2 DEF Show
  <2> HIDE DEF d
  <2>3. /\ DestsBefore(Entry(d), tx) = DestsBefore(view, tx) /\ ChangeBefore(Entry(d), tx) = ChangeBefore(view, tx)
        /\ Entry(d).cls = "PSBTFinalizeView"
    BY <1>1, <2>1, ReviewClasses DEF DestsBefore, ChangeBefore, DescriptorScreens
  <2>4. UnderReview /\ Reached(view, controller.parser, shown) /\ ~Idle
    BY <1>1, OnReview
  <2>5. Reached(Entry(d), controller.parser, shown \union {item})
    BY <2>3, <2>4 DEF Reached
  <2>6. controller.descriptor # None /\ tx.multisig =>
          VerifiedBefore(Entry(d), controller.parser, shown \union {item})
    <3>1. controller.descriptor # None /\ tx.multisig => VerifiedBefore(view, controller.parser, shown)
      BY <1>1, <2>4, OnReview
    <3> QED BY Zenon, <2>3, <3>1 DEF VerifiedBefore
  <2> QED BY <1>1, <2>1, <2>2, <2>4, <2>5, <2>6, ReviewClasses, ReviewTurn
<1> QED BY <1>1, <1>2, ReviewLeaves DEF PSBTOpReturnView, ShowOnward

LEMMA FinalizeKeeps ==
  ASSUME IInv, SigningInv, PSBTFinalizeView PROVE SigningInv'
<1>1. view.cls = "PSBTFinalizeView" /\ view.cls \in ReviewZone
  BY ReviewClasses DEF PSBTFinalizeView, At
<1> DEFINE tx == controller.parser.psbt
<1>2. /\ UnderReview /\ ~Idle /\ Reached(view, controller.parser, shown)
      /\ controller.descriptor # None /\ tx.multisig => VerifiedBefore(view, controller.parser, shown)
  BY <1>1, OnReview
<1>3. ASSUME NEW d, d.cls \in {"PSBTSigningErrorView", "PSBTSignedQRDisplayView"}
      PROVE  /\ Reached(Entry(d), controller.parser, shown)
             /\ controller.descriptor # None /\ tx.multisig => VerifiedBefore(Entry(d), controller.parser, shown)
  <2>1. /\ DestsBefore(Entry(d), tx) = DestsBefore(view, tx) /\ ChangeBefore(Entry(d), tx) = ChangeBefore(view, tx)
        /\ Entry(d).cls = d.cls
    BY <1>1, <1>3, ReviewClasses DEF DestsBefore, ChangeBefore, DescriptorScreens
  <2> QED BY Zenon, <1>1, <1>2, <2>1 DEF Reached, VerifiedBefore
<1>4. shown \union {} = shown
  OBVIOUS
<1>5. CASE Go(To("PSBTSigningErrorView"))
  <2>1. To("PSBTSigningErrorView").cls = "PSBTSigningErrorView" /\ ~To("PSBTSigningErrorView").clear
    BY DEF To
  <2>2. /\ Reached(Entry(To("PSBTSigningErrorView")), controller.parser, shown)
        /\ controller.descriptor # None /\ tx.multisig =>
             VerifiedBefore(Entry(To("PSBTSigningErrorView")), controller.parser, shown)
    BY <1>3, <2>1
  <2> QED BY <1>1, <1>2, <1>4, <1>5, <2>1, <2>2, ReviewClasses, ReviewTurn DEF Go
<1>6. CASE ChooseLeaving("PSBTSignedQRDisplayView",
             [controller EXCEPT !.psbt = Trimmed(@, controller.parser.seed)])
  <2> DEFINE d == To("PSBTSignedQRDisplayView")
             temps == [controller EXCEPT !.psbt = Trimmed(@, controller.parser.seed)]
  <2>1. d.cls = "PSBTSignedQRDisplayView" /\ ~d.clear /\ ~d.skip /\ ~GoesBack(d)
    BY DEF To, GoesBack
  <2>2. /\ temps.parser = controller.parser /\ temps.psbtSeed = controller.psbtSeed
        /\ temps.descriptor = controller.descriptor /\ temps.resume = controller.resume
        /\ temps.psbt = Trimmed(controller.psbt, controller.parser.seed)
    OBVIOUS
  <2> HIDE DEF d, temps
  <2>3. Turn(d, temps, storage, {})
    BY <1>6 DEF ChooseLeaving, GoWith, d, temps
  <2>4. controller.psbt = tx
    BY <1>1, <1>2 DEF SigningInv, ReviewInv, ParserOK, Idle
  <2>5. /\ d.cls \in Beyond /\ d.cls \notin DescriptorScreens /\ NoSeedMenu(d.cls)
    BY <2>1, ReviewClasses DEF Beyond, DescriptorScreens, NoSeedMenu
  <2>6. MayFollow(d)
    BY <2>1, <2>5 DEF MayFollow
  <2>7. ReviewFollows(d, temps, shown \union {})
    BY <1>2, <1>3, <1>4, <2>1, <2>2, <2>5 DEF ReviewFollows
  <2>8. ResumeFollows(d, temps, shown \union {})
    BY <2>1, <2>2 DEF ResumeFollows
  <2> QED BY <1>1, <2>1, <2>2, <2>3, <2>4, <2>5, <2>6, <2>7, <2>8, SameSeeds, OnwardTurn
<1> QED BY <1>1, <1>5, <1>6, ReviewLeaves DEF PSBTFinalizeView, Choose

\* A change output: verified with the seed, or the descriptor, if there is one; without
\* a descriptor it may be loaded.
LEMMA ChangeDetailsKeeps ==
  ASSUME IInv, SigningInv, PSBTChangeDetailsView PROVE SigningInv'
<1>1. view.cls = "PSBTChangeDetailsView" /\ view.cls \in ReviewZone
  BY ReviewClasses DEF PSBTChangeDetailsView, At
<1> DEFINE tx == controller.parser.psbt
           n == view.args.num
           verified == Verifier # None /\ Verifier \in tx.change[n + 1].derives
           item == ChangeOf(controller.parser, n, verified)
           next == IF n < Len(tx.change) - 1 THEN ChangeDetails(n + 1) ELSE AfterChange
           load == To("LoadMultisigWalletDescriptorView")
           temps == [controller EXCEPT !.resume = "psbt"]
<1>2. \/ Go(To("MainMenuView")) \/ Raise \/ Go(To("NotYetImplementedView"))
      \/ ~Idle /\ PSBTChangeDetailsScreen(n, tx.change[n + 1])
  BY DEF PSBTChangeDetailsView, Parsed, Reviewing, Idle
<1>3. ASSUME ~Idle, PSBTChangeDetailsScreen(n, tx.change[n + 1])
      PROVE  \/ \E x : Go(Clearing(ToWith("PSBTAddressVerificationFailedView", x)))
             \/ Show(Back, item)
             \/ (verified \/ Verifier = None) /\ Turn(next, controller, storage, {item})
             \/ Verifier = None /\ Turn(load, temps, storage, {item})
  BY <1>3 DEF PSBTChangeDetailsScreen, Reviewing, ShowOnward, Show
<1>4. ASSUME ~Idle
      PROVE  /\ UnderReview /\ Reached(view, controller.parser, shown) /\ n \in Nat
             /\ tx.dests \in Nat /\ Len(tx.change) \in Nat
             /\ controller.descriptor # None /\ tx.multisig => VerifiedBefore(view, controller.parser, shown)
             /\ DestsBefore(view, tx) = tx.dests /\ ChangeBefore(view, tx) = n
  <2>1. UnderReview /\ Reached(view, controller.parser, shown) /\ n \in Nat /\ tx \in Transactions
    BY <1>1, <1>4, OnReview
  <2>2. controller.descriptor # None /\ tx.multisig => VerifiedBefore(view, controller.parser, shown)
    BY <1>1, <1>4, OnReview
  <2>3. DestsBefore(view, tx) = tx.dests /\ ChangeBefore(view, tx) = n
    BY <1>1 DEF DestsBefore, ChangeBefore, DescriptorScreens
  <2> QED BY <2>1, <2>2, <2>3, TransactionParts
<1>5. /\ verified \in BOOLEAN
      /\ Verifier = None <=> \/ tx.multisig /\ controller.descriptor = None
                             \/ ~tx.multisig /\ controller.psbtSeed = None
  BY DEF Verifier, Reviewing
<1>6. CASE ~Idle /\ (verified \/ Verifier = None) /\ Turn(next, controller, storage, {item})
  <2>1. /\ ~next.clear
        /\ IF n < Len(tx.change) - 1 THEN next.cls = "PSBTChangeDetailsView" /\ next.args.num = n + 1
           ELSE next.cls = IF tx.opReturn THEN "PSBTOpReturnView" ELSE "PSBTFinalizeView"
    BY AfterChangeIs DEF ChangeDetails, ToWith, To
  <2>2. \A k \in Nat : k < n + 1 => \E v \in BOOLEAN : ChangeOf(controller.parser, k, v) \in shown \union {item}
    <3>1. \A k \in Nat : k < n => \E v \in BOOLEAN : ChangeOf(controller.parser, k, v) \in shown
      BY <1>4, <1>6 DEF Reached
    <3>2. \A k \in Nat : k < n + 1 => k < n \/ k = n
      BY <1>4, <1>6
    <3>3. \E v \in BOOLEAN : ChangeOf(controller.parser, n, v) \in shown \union {item}
      BY Zenon, <1>5
    <3> HIDE DEF item, n
    <3> QED BY <3>1, <3>2, <3>3
  <2>3. ASSUME controller.descriptor # None, tx.multisig
        PROVE  \A k \in Nat : k < n + 1 => ChangeOf(controller.parser, k, TRUE) \in shown \union {item}
    <3>1. \A k \in Nat : k < n => ChangeOf(controller.parser, k, TRUE) \in shown
      BY Zenon, <1>4, <1>6, <2>3 DEF VerifiedBefore
    <3>2. \A k \in Nat : k < n + 1 => k < n \/ k = n
      BY <1>4, <1>6
    <3>3. verified = TRUE
      BY <1>5, <1>6, <2>3
    <3>4. item = ChangeOf(controller.parser, n, TRUE)
      BY Zenon, <3>3
    <3> HIDE DEF item, n
    <3> QED BY Zenon, <3>1, <3>2, <3>4
  <2>4. \A k \in Nat : k < tx.dests => AddressOf(controller.parser, k) \in shown \union {item}
    BY <1>4, <1>6 DEF Reached
  <2> HIDE DEF next, n, tx, item, verified
  <2>5. Entry(next).cls = next.cls /\ Entry(next).args = next.args
    BY ReviewClasses
  <2>6. /\ next.cls \in {"PSBTChangeDetailsView", "PSBTOpReturnView", "PSBTFinalizeView"}
        /\ next.cls = "PSBTChangeDetailsView" => next.args.num \in Nat
        /\ next.cls = "PSBTFinalizeView" => ~tx.opReturn
    BY <1>4, <1>6, <2>1
  <2>7. DestsBefore(Entry(next), tx) = tx.dests
    BY <2>5, <2>6 DEF DestsBefore
  <2>8. ChangeBefore(Entry(next), tx) = IF next.cls = "PSBTChangeDetailsView" THEN next.args.num ELSE Len(tx.change)
    BY <2>5, <2>6 DEF ChangeBefore, DescriptorScreens
  <2>9. \A k \in Nat : k < ChangeBefore(Entry(next), tx) => k < n + 1
    BY <1>4, <1>6, <2>1, <2>8
  <2>10. Reached(Entry(next), controller.parser, shown \union {item})
    BY <2>2, <2>4, <2>5, <2>6, <2>7, <2>9 DEF Reached, tx
  <2>11. controller.descriptor # None /\ tx.multisig =>
           VerifiedBefore(Entry(next), controller.parser, shown \union {item})
    BY Zenon, <2>3, <2>9 DEF VerifiedBefore, tx
  <2>12. /\ next.cls \in ReviewZone /\ next.cls # "PSBTSignedQRDisplayView"
         /\ next.cls \in {"PSBTAddressDetailsView", "PSBTChangeDetailsView"} => next.args.num \in Nat
    BY <2>6, ReviewClasses
  <2> QED BY <1>1, <1>4, <1>6, <2>1, <2>10, <2>11, <2>12, ReviewTurn DEF tx
<1>7. CASE ~Idle /\ Verifier = None /\ Turn(load, temps, storage, {item})
  <2>1. tx.multisig /\ controller.descriptor = None
    BY <1>5, <1>7 DEF Idle
  <2>2. \A i \in Places : backStack[i].cls # "MultisigWalletDescriptorView"
    BY <2>1 DEF SigningInv, ReviewInv, DescriptorOK
  <2>3. /\ load.cls = "LoadMultisigWalletDescriptorView" /\ ~load.clear /\ ~load.skip /\ ~GoesBack(load)
        /\ Entry(load).cls = load.cls
    BY DEF To, GoesBack, Entry
  <2>4. /\ temps.parser = controller.parser /\ temps.psbtSeed = controller.psbtSeed
        /\ temps.psbt = controller.psbt /\ temps.descriptor = controller.descriptor
    OBVIOUS
  <2> HIDE DEF load, temps, item, verified
  <2>5. \A e : e.cls \in DescriptorScreens => Reached(e, controller.parser, shown \union {item})
    <3> SUFFICES ASSUME NEW e, e.cls \in DescriptorScreens PROVE Reached(e, controller.parser, shown \union {item})
      OBVIOUS
    <3>1. DestsBefore(e, tx) = tx.dests /\ ChangeBefore(e, tx) = 0
      BY DEF DestsBefore, ChangeBefore, DescriptorScreens
    <3>2. \A k \in Nat : k < tx.dests => AddressOf(controller.parser, k) \in shown \union {item}
      BY <1>4, <1>7 DEF Reached
    <3>3. \A k \in Nat : ~(k < 0)
      OBVIOUS
    <3>4. e.cls \notin {"PSBTFinalizeView", "PSBTSigningErrorView", "PSBTSignedQRDisplayView"}
      BY DEF DescriptorScreens
    <3> QED BY <3>1, <3>2, <3>3, <3>4 DEF Reached
  <2>6. load.cls \in DescriptorScreens /\ load.cls \in Beyond /\ load.cls \notin ReviewZone /\ NoSeedMenu(load.cls)
    BY <2>3, ReviewClasses DEF DescriptorScreens, Beyond, NoSeedMenu
  <2>7. MayFollow(load)
    BY <2>2, <2>3, <2>6 DEF MayFollow
  <2>8. ReviewFollows(load, temps, shown \union {item})
    BY Zenon, <1>4, <1>7, <2>3, <2>5, <2>6 DEF ReviewFollows
  <2>9. ResumeFollows(load, temps, shown \union {item})
    BY Zenon, <1>4, <1>7, <2>3, <2>5 DEF ResumeFollows
  <2> QED BY <1>1, <1>7, <2>3, <2>4, <2>6, <2>7, <2>8, <2>9, SameSeeds, OnwardTurn
<1> HIDE DEF next, load, temps, item, verified
<1> QED BY <1>1, <1>2, <1>3, <1>6, <1>7, ReviewLeaves

-----------------------------------------------------------------------------
(* To the review, and out of it. *)

LEMMA KnownAway ==
  ASSUME SigningInv
  PROVE  \A d, temps :
           /\ ~GoesBack(d) /\ NoSeedMenu(d.cls) /\ d.cls # "MainMenuView"
           /\ d.skip => view.cls # "MainMenuView"
           /\ temps.psbtSeed \in {controller.psbtSeed, None}
           => KnownStep(d, temps, storage)
<1> SUFFICES ASSUME NEW d, NEW temps,
                    ~GoesBack(d), NoSeedMenu(d.cls), d.cls # "MainMenuView",
                    d.skip => view.cls # "MainMenuView",
                    temps.psbtSeed \in {controller.psbtSeed, None}
             PROVE  KnownStep(d, temps, storage)
  OBVIOUS
<1>1. ~UnderSeeds(Entry(d)) /\ ~OfASeed(Entry(d))
  BY DEF NoSeedMenu, UnderSeeds, OfASeed, ScreensOfASeed, WordScreens, Entry
<1> QED BY <1>1 DEF KnownStep, KnownSeeds, SigningInv

LEMMA SigningErrorKeeps ==
  ASSUME IInv, SigningInv, PSBTSigningErrorView PROVE SigningInv'
<1>1. view.cls = "PSBTSigningErrorView" /\ view.cls \in ReviewZone
  BY ReviewClasses DEF PSBTSigningErrorView, At
<1> DEFINE d == Clearing(To("PSBTSelectSeedView"))
           temps == [controller EXCEPT !.psbtSeed = None]
<1>2. CASE Turn(d, temps, storage, {})
  <2>1. d.cls = "PSBTSelectSeedView" /\ d.clear /\ ~d.skip /\ ~GoesBack(d)
    BY DEF Clearing, To, GoesBack
  <2>2. temps.psbtSeed = None /\ temps.parser = controller.parser /\ temps.psbt = controller.psbt
    OBVIOUS
  <2> HIDE DEF d, temps
  <2>3. KnownStep(d, temps, storage)
    BY <2>1, <2>2, KnownAway DEF NoSeedMenu
  <2> QED BY <1>1, <1>2, <2>1, <2>2, <2>3, CleanTurn
<1>3. Go(To("MainMenuView")) \/ Go(Back) \/ Turn(d, temps, storage, {})
  BY DEF PSBTSigningErrorView, GoWith
<1> QED BY <1>1, <1>2, <1>3, ReviewLeaves

LEMMA SignedQRKeeps ==
  ASSUME IInv, SigningInv, PSBTSignedQRDisplayView PROVE SigningInv'
BY HomeTurn DEF PSBTSignedQRDisplayView, Go, Clearing, To

\* Another transaction.
LEMMA ScanPsbtKeeps ==
  ASSUME IInv, SigningInv, ScanPsbt PROVE SigningInv'
<1>1. view.cls \in {"ScanView", "ScanPSBTView"}
  BY DEF ScanPsbt, Scanned, Scanners, ScannerFor
<1>2. Aside /\ view.cls \notin {"MainMenuView", "PSBTSignedQRDisplayView"}
  BY <1>1 DEF Aside
<1> DEFINE d == Skipping(To("PSBTSelectSeedView"))
           temps(tx) == [controller EXCEPT !.psbt = tx, !.parser = None]
<1>3. PICK tx \in Transactions : Turn(d, temps(tx), storage, {})
  BY Zenon DEF ScanPsbt, GoWith
<1>4. d.cls = "PSBTSelectSeedView" /\ ~GoesBack(d)
  BY DEF Skipping, To, GoesBack
<1>5. temps(tx).parser = None /\ temps(tx).psbt = tx /\ temps(tx).psbtSeed = controller.psbtSeed
  OBVIOUS
<1> HIDE DEF d, temps
<1>6. KnownStep(d, temps(tx), storage)
  BY <1>2, <1>4, <1>5, KnownAway DEF NoSeedMenu
<1> QED BY <1>2, <1>3, <1>4, <1>5, <1>6, CleanTurn

LEMMA RejectedKeeps ==
  ASSUME IInv, SigningInv, PSBTRejected PROVE SigningInv'
<1>1. CASE Go(Clearing(To("MainMenuView")))
  BY <1>1, HomeTurn DEF Go, Clearing, To
<1> DEFINE d == Clearing(To("PSBTSelectSeedView"))
<1>2. CASE view.cls = "PSBTSeedCannotSignView" /\ Go(d)
  <2>1. d.cls = "PSBTSelectSeedView" /\ d.clear /\ ~d.skip /\ ~GoesBack(d)
    BY DEF Clearing, To, GoesBack
  <2> HIDE DEF d
  <2>2. Turn(d, controller, storage, {})
    BY <1>2 DEF Go
  <2>3. KnownStep(d, controller, storage)
    BY <2>1, KnownAway DEF NoSeedMenu
  <2> QED BY <1>2, <2>1, <2>2, <2>3, CleanTurn
<1> QED BY <1>1, <1>2 DEF PSBTRejected, At

\* A seed is chosen, or to be loaded first.
LEMMA SelectSeedKeeps ==
  ASSUME IInv, SeedInv, SigningInv, PSBTSelectSeedView PROVE SigningInv'
<1>1. /\ view.cls = "PSBTSelectSeedView"
      /\ Aside
      /\ view.cls \notin {"MainMenuView", "PSBTOverviewView", "PSBTSignedQRDisplayView",
                         "MultisigWalletDescriptorView"}
  BY DEF PSBTSelectSeedView, At, Aside
<1>2. /\ Len(backStack) \in Places /\ backStack[Len(backStack)] = view
      /\ \A i \in Places : i = Len(backStack) \/ i < Len(backStack)
  BY <1>1, ViewIsOnTop DEF Places, Home, Entry, To
<1>3. \A i \in Places : backStack[i].cls \notin OfReview
  BY <1>1, AsideIsOutside, OutsideOfReview DEF SigningInv
<1> DEFINE back == [controller EXCEPT !.resume = "psbt"]
           with(seed) == [controller EXCEPT !.psbtSeed = seed]
<1>4. \/ Raise \/ Go(Back)
      \/ controller.psbt # None /\ \E seed \in storage.seeds : Turn(To("PSBTOverviewView"), with(seed), storage, {})
      \/ /\ controller.psbt # None /\ controller.psbtSeed # None
         /\ Turn(To("PSBTOverviewView"), controller, storage, {})
      \/ LoadASeed("ScanSeedQRView", back)
  BY DEF PSBTSelectSeedView, Go, GoWith, ChooseLeaving
<1>5. CASE Raise \/ Go(Back)
  <2>1. CASE Raise
    BY Zenon, <1>1, <2>1, AsideTurn, UndisturbedTemps, SameSeeds
       DEF Raise, RaiseError, Go, Clearing, ToWith, To, GoesBack, NoReview, NoSeedMenu
  <2>2. CASE Go(Back)
    BY Zenon, <1>1, <2>2, AsideTurn, UndisturbedTemps, SameSeeds DEF Go, Back, To, GoesBack
  <2> QED BY <1>5, <2>1, <2>2
<1>6. To("PSBTOverviewView").cls = "PSBTOverviewView" /\ ~To("PSBTOverviewView").clear /\ ~To("PSBTOverviewView").skip
  BY DEF To
<1>7. CASE controller.psbt # None /\ \E seed \in storage.seeds : Turn(To("PSBTOverviewView"), with(seed), storage, {})
  <2>1. PICK seed \in storage.seeds : Turn(To("PSBTOverviewView"), with(seed), storage, {})
    BY <1>7
  <2>2. with(seed).psbt = controller.psbt /\ with(seed).parser = controller.parser /\ with(seed).psbtSeed = seed
    BY DEF IInv, SeedInv
  <2> HIDE DEF with
  <2> QED BY <1>1, <1>6, <1>7, <2>1, <2>2, NoneIsNoSeed, OverviewTurn
<1>8. CASE /\ controller.psbt # None /\ controller.psbtSeed # None
           /\ Turn(To("PSBTOverviewView"), controller, storage, {})
  <2>1. controller.psbtSeed \in storage.seeds
    BY <1>8 DEF SigningInv, KnownSeeds
  <2> QED BY <1>1, <1>6, <1>8, <2>1, NoneIsNoSeed, OverviewTurn
<1>9. CASE LoadASeed("ScanSeedQRView", back)
  <2>1. PICK cls \in {"ScanSeedQRView", "SeedMnemonicEntryView", "SeedElectrumMnemonicStartView"} :
          \E stored \in {storage, InitPendingMnemonic(FALSE)} : Turn(To(cls), back, stored, {})
    BY Zenon, <1>9 DEF LoadASeed, ChooseLeaving, GoWith
  <2>2. PICK stored \in {storage, InitPendingMnemonic(FALSE)} : Turn(To(cls), back, stored, {})
    BY Zenon, <2>1
  <2>3. Keeps(stored)
    BY Zenon, SameSeeds
  <2>4. /\ back.parser = controller.parser /\ back.psbtSeed = controller.psbtSeed
        /\ back.psbt = controller.psbt /\ back.descriptor = controller.descriptor
    OBVIOUS
  <2> DEFINE d == To(cls)
  <2>5. d.cls = cls /\ ~d.clear /\ ~d.skip
    BY DEF To
  <2>6. d.cls \in {"ScanSeedQRView", "SeedMnemonicEntryView", "SeedElectrumMnemonicStartView"}
    BY <2>5
  <2>7. Turn(d, back, stored, {})
    BY <2>2
  <2> HIDE DEF d, back
  <2>8. ~GoesBack(d) /\ NoSeedMenu(d.cls)
    BY <2>6 DEF GoesBack, NoSeedMenu
  <2>9. MayFollow(d)
    BY <1>1, <2>6, AsideIsOutside DEF MayFollow, DescriptorScreens
  <2>10. ReviewFollows(d, back, shown \union {})
    BY <2>6, ReviewClasses DEF ReviewFollows, DescriptorScreens
  <2>11. \A i \in Places : backStack[i].cls = "ScanView" => Idle \/ UnderReview
    BY <1>1, <1>2 DEF SigningInv, ReviewInv, ScanIsApart
  <2>12. \A i \in Places : backStack[i].cls \notin DescriptorScreens
    BY <1>3 DEF OfReview, Beyond
  <2>13. ResumeFollows(d, back, shown \union {})
    BY <2>6, <2>11, <2>12 DEF ResumeFollows
  <2> QED BY <1>1, <2>3, <2>4, <2>5, <2>6, <2>7, <2>8, <2>9, <2>10, <2>13, OnwardTurn
<1> HIDE DEF back, with
<1> QED BY <1>4, <1>5, <1>7, <1>8, <1>9

\* The overview itself: BACK gives the seed up, and the review begins with the
\* transaction as it is read for that seed.
LEMMA OverviewLeaves ==
  ASSUME IInv, SigningInv, view.cls = "PSBTOverviewView", NEW parser,
         parser # None, parser = [psbt |-> parser.psbt, seed |-> parser.seed],
         parser.psbt = controller.psbt, controller.psbt \in Transactions,
         GoWith(Back, [[controller EXCEPT !.parser = parser] EXCEPT !.psbtSeed = None])
  PROVE  SigningInv'
<1> DEFINE temps == [[controller EXCEPT !.parser = parser] EXCEPT !.psbtSeed = None]
<1>1. Turn(Back, temps, storage, {}) /\ GoesBack(Back) /\ ~Back.clear /\ ~Back.skip
  BY DEF GoWith, Back, To, GoesBack
<1>2. temps.psbtSeed = None /\ temps.parser = parser /\ temps.psbt = controller.psbt
  OBVIOUS
<1> HIDE DEF temps
<1>3. KnownStep(Back, temps, storage)
  BY <1>1, <1>2 DEF KnownStep
<1>4. KnownSeeds'
  BY <1>1, <1>3, KnownTurn DEF SigningInv
<1>5. CASE view' = Home /\ backStack' = << >> /\ controller' = Wiped(temps)
  BY <1>4, <1>5, HomeKeeps DEF SigningInv
<1>6. ASSUME NEW m, Landed(Back, m), view' # Home, controller' = temps
      PROVE  ReviewInv'
  <2>1. /\ Len(backStack) \in Nat /\ m \in 0..Len(backStack) /\ Len(backStack') = m + 1
        /\ view' = backStack'[m + 1]
        /\ m + 1 \in Places /\ m + 1 < Len(backStack) /\ view' = backStack[m + 1]
        /\ \A i \in 1..m : backStack'[i] = backStack[i] /\ i \in Places /\ i < Len(backStack)
    <3>1. /\ Len(backStack) \in Nat /\ m \in 0..Len(backStack) /\ Len(backStack') = m + 1
          /\ view' = backStack'[m + 1] /\ \A i \in 1..m : backStack'[i] = backStack[i]
          /\ \E k \in (m + 1)..(Len(backStack) - 1) : view' = backStack[k] /\ k = m + 1
      BY <1>1, <1>6, ViewIsOnTop DEF Landed
    <3> QED BY <3>1 DEF Places
  <2>2. view'.cls \notin OfReview /\ \A i \in 1..m : backStack[i].cls \notin OfReview
    BY <2>1, OutsideOfReview DEF SigningInv
  <2>3. view'.cls \notin ReviewZone \union DescriptorScreens \union {"PSBTOverviewView", "ErrorView"}
    BY <2>2 DEF OfReview, Beyond
  <2>4. view'.cls = "SeedSelectSeedView" => view'.args.flow \in {"singlesig_addr", "sign_message"}
    BY <2>1 DEF SigningInv, ReviewInv, ReviewArgs
  <2>5. view'.cls # "PSBTSignedQRDisplayView"
    BY <2>3, ReviewClasses
  <2>6. ParserOK'
    BY <1>2, <1>6, <2>5 DEF ParserOK
  <2>7. ScanIsApart'
    BY Zenon, <1>2, <1>6, <2>1, <2>2, CleanScan DEF SigningInv
  <2> QED BY Zenon, <1>6, <2>1, <2>2, <2>3, <2>4, <2>6, <2>7, CleanKeeps DEF SigningInv
<1> QED BY <1>1, <1>4, <1>5, <1>6, Landing DEF SigningInv, IInv

LEMMA OverviewBegins ==
  ASSUME IInv, SigningInv, view.cls = "PSBTOverviewView", NEW parser,
         parser # None, parser = [psbt |-> parser.psbt, seed |-> parser.seed],
         parser.psbt = controller.psbt, parser.seed = controller.psbtSeed,
         NEW cls \in {"PSBTNoChangeWarningView", "PSBTMathView"},
         GoWith(To(cls), [controller EXCEPT !.parser = parser])
  PROVE  SigningInv'
<1> DEFINE temps == [controller EXCEPT !.parser = parser]
           d == To(cls)
<1>1. d.cls = cls /\ d.cls \in {"PSBTNoChangeWarningView", "PSBTMathView"} /\ ~d.clear /\ ~d.skip
  BY DEF To
<1>2. Turn(d, temps, storage, {}) /\ temps.psbtSeed = controller.psbtSeed /\ d.args = None
  BY DEF GoWith, To
<1>3. d.cls \notin {"BackStackView", "MainMenuView"}
  BY <1>1
<1> HIDE DEF temps, d
<1>4. ~GoesBack(d) /\ NoSeedMenu(d.cls)
  BY <1>1 DEF GoesBack, NoSeedMenu
<1>5. KnownSeeds'
  <2>1. KnownStep(d, temps, storage)
    BY <1>1, <1>2, <1>3, <1>4, KnownAway
  <2> QED BY <1>2, <2>1, KnownTurn DEF SigningInv
<1>6. view' # Home /\ view' = Entry(d)
  BY <1>2, <1>3, <1>4 DEF Turn, Target, Entry, Home, To
<1>7. ASSUME NEW m, Landed(d, m), controller' = temps
      PROVE  ReviewInv'
  <2>1. Len(backStack) \in Nat /\ Len(backStack) > 0 /\ backStack[Len(backStack)] = view
    BY ViewIsOnTop DEF Home, Entry, To
  <2>2. m = Len(backStack)
    <3>1. m = Len(backStack) \/ (m + 1 = Len(backStack) /\ view' = backStack[m + 1])
      BY <1>1, <1>4, <1>7 DEF Landed, Kept
    <3> QED BY <1>1, <1>6, <2>1, <3>1 DEF Entry
  <2>3. /\ Len(backStack') = Len(backStack) + 1 /\ view' = backStack'[Len(backStack) + 1]
        /\ \A i \in Places : backStack'[i] = backStack[i]
    BY <1>7, <2>2 DEF Landed, Places
  <2>4. view'.cls \in {"PSBTNoChangeWarningView", "PSBTMathView"}
    BY <1>1, <1>6 DEF Entry
  <2> QED BY <1>7, <2>3, <2>4, BeginsKeep DEF SigningInv, temps
<1> QED BY <1>1, <1>2, <1>5, <1>6, <1>7, Landing DEF SigningInv, IInv

LEMMA OverviewScreenKeeps ==
  ASSUME IInv, SigningInv, view.cls = "PSBTOverviewView", NEW parser,
         parser # None, parser = [psbt |-> parser.psbt, seed |-> parser.seed],
         parser.psbt = controller.psbt, parser.seed = controller.psbtSeed,
         controller.psbt \in Transactions, OverviewScreen(parser)
  PROVE  SigningInv'
<1>1. \/ GoWith(Back, [[controller EXCEPT !.parser = parser] EXCEPT !.psbtSeed = None])
      \/ \E cls \in {"PSBTNoChangeWarningView", "PSBTMathView"} :
           GoWith(To(cls), [controller EXCEPT !.parser = parser])
  BY DEF OverviewScreen, ChooseLeaving
<1>2. CASE GoWith(Back, [[controller EXCEPT !.parser = parser] EXCEPT !.psbtSeed = None])
  BY Zenon, <1>2, OverviewLeaves
<1>3. CASE \E cls \in {"PSBTNoChangeWarningView", "PSBTMathView"} :
             GoWith(To(cls), [controller EXCEPT !.parser = parser])
  BY <1>3, OverviewBegins
<1> QED BY <1>1, <1>2, <1>3

LEMMA OverviewKeepsSigning ==
  ASSUME IInv, SeedInv, SigningInv, PSBTOverviewView PROVE SigningInv'
<1> DEFINE tx == controller.psbt
           seed == controller.psbtSeed
           new == [psbt |-> tx, seed |-> seed]
           apart == Skipping(To("PSBTSeedCannotSignView"))
           none == [controller EXCEPT !.parser = None, !.psbtSeed = None]
<1>1. view.cls = "PSBTOverviewView"
  BY DEF PSBTOverviewView, At
<1>2. Len(backStack) \in Places /\ backStack[Len(backStack)] = view
  BY <1>1, ViewIsOnTop DEF Places, Home, Entry, To
<1>3. seed # None /\ tx \in Transactions /\ seed \in Seeds
  BY <1>1, <1>2, NoneIsNoSeed DEF SigningInv, ReviewInv, OverviewOK, KnownSeeds
<1>4. \/ controller.parser # None /\ controller.parser.seed = seed /\ OverviewScreen(controller.parser)
      \/ OverviewScreen(new)
      \/ Raise
      \/ Turn(apart, none, storage, {})
      \/ \E cls \in {"PSBTOutputOwnershipClaimFailedView", "PSBTInputOwnershipClaimFailedView"} :
           Turn(Clearing(Skipping(To(cls))), controller, storage, {})
  BY DEF PSBTOverviewView, Verdict, GoWith, Go
<1>5. CASE controller.parser # None /\ controller.parser.seed = seed /\ OverviewScreen(controller.parser)
  <2>1. /\ controller.parser = [psbt |-> controller.parser.psbt, seed |-> controller.parser.seed]
        /\ controller.parser.psbt = controller.psbt
    BY <1>1, <1>5 DEF SigningInv, ReviewInv, ParserOK
  <2> QED BY <1>1, <1>3, <1>5, <2>1, OverviewScreenKeeps
<1>6. CASE OverviewScreen(new)
  <2>1. new # None
    BY <1>3, PsbtAssumption
  <2>2. new.psbt = tx /\ new.seed = seed /\ new = [psbt |-> new.psbt, seed |-> new.seed]
    OBVIOUS
  <2> HIDE DEF new
  <2> QED BY <1>1, <1>3, <1>6, <2>1, <2>2, OverviewScreenKeeps
<1>7. \A d : d.cls \in {"PSBTOutputOwnershipClaimFailedView", "PSBTInputOwnershipClaimFailedView",
                       "UnhandledExceptionView"}
             /\ d.clear /\ Turn(d, controller, storage, {}) => SigningInv'
  <2> SUFFICES ASSUME NEW d, d.cls \in {"PSBTOutputOwnershipClaimFailedView",
                        "PSBTInputOwnershipClaimFailedView", "UnhandledExceptionView"},
                      d.clear, Turn(d, controller, storage, {})
               PROVE  SigningInv'
    OBVIOUS
  <2>1. ~GoesBack(d) /\ NoReview(d.cls) /\ NoSeedMenu(d.cls)
    BY DEF GoesBack, NoReview, NoSeedMenu
  <2>2. KnownStep(d, controller, storage)
    BY <1>1, <2>1, KnownAway
  <2> QED BY <1>1, <2>1, <2>2, CleanTurn
<1>8. CASE Raise
  <2> DEFINE d == Clearing(ToWith("UnhandledExceptionView", [error |-> "exception"]))
  <2>1. d.cls = "UnhandledExceptionView" /\ d.clear
    BY DEF Clearing, ToWith, To
  <2>2. Turn(d, controller, storage, {})
    BY <1>8 DEF Raise, RaiseError, Go
  <2> HIDE DEF d
  <2> QED BY <1>7, <2>1, <2>2
<1>9. CASE \E cls \in {"PSBTOutputOwnershipClaimFailedView", "PSBTInputOwnershipClaimFailedView"} :
             Turn(Clearing(Skipping(To(cls))), controller, storage, {})
  <2>1. PICK cls \in {"PSBTOutputOwnershipClaimFailedView", "PSBTInputOwnershipClaimFailedView"} :
          Turn(Clearing(Skipping(To(cls))), controller, storage, {})
    BY <1>9
  <2> DEFINE d == Clearing(Skipping(To(cls)))
  <2>2. d.cls = cls /\ d.clear
    BY DEF Clearing, Skipping, To
  <2>3. Turn(d, controller, storage, {})
    BY <2>1
  <2> HIDE DEF d
  <2> QED BY <1>7, <2>2, <2>3
<1>10. CASE Turn(apart, none, storage, {})
  <2>1. apart.cls = "PSBTSeedCannotSignView" /\ apart.skip
    BY DEF Skipping, To
  <2>2. none.parser = None /\ none.psbt = controller.psbt /\ none.psbtSeed = None
    OBVIOUS
  <2> HIDE DEF apart, none
  <2>3. ~GoesBack(apart) /\ NoReview(apart.cls) /\ NoSeedMenu(apart.cls)
    BY <2>1 DEF GoesBack, NoReview, NoSeedMenu
  <2>4. KnownStep(apart, none, storage)
    BY <1>1, <2>1, <2>2, <2>3, KnownAway
  <2> QED BY <1>1, <1>3, <1>10, <2>1, <2>2, <2>3, <2>4, CleanTurn
<1> HIDE DEF new, apart, none
<1> QED BY <1>4, <1>5, <1>6, <1>8, <1>9, <1>10

LEMMA PsbtViewsKeepSigning ==
  ASSUME IInv, SeedInv, SigningInv, PsbtViews PROVE SigningInv'
BY ScanPsbtKeeps, SelectSeedKeeps, OverviewKeepsSigning, RejectedKeeps, NoChangeKeeps,
   MathKeeps,
   AddressDetailsKeeps, ChangeDetailsKeeps, OpReturnKeeps, FinalizeKeeps, SignedQRKeeps, SigningErrorKeeps
   DEF PsbtViews

-----------------------------------------------------------------------------
(* What the flow promises. *)

LEMMA InitSigning == Init => SigningInv
<1> SUFFICES ASSUME Init PROVE SigningInv
  OBVIOUS
<1>1. Len(<< >>) = 0
  OBVIOUS
<1>2. controller.parser = None /\ controller.psbt = None /\ controller.psbtSeed = None /\ backStack = << >>
  BY DEF Init, FreshController
<1>3. Places = {}
  BY <1>1, <1>2 DEF Places
<1>4. view.cls # "PSBTSignedQRDisplayView"
  BY DEF Init, Home, Entry, To
<1>5. KnownSeeds
  BY <1>2, <1>3 DEF KnownSeeds
<1> QED BY <1>2, <1>3, <1>4, <1>5
        DEF SigningInv, ReviewInv, ReviewStacked, ReviewArgs, ReviewReached, ScanIsApart,
            ParserOK, OverviewOK,
            DescriptorOK

LEMMA NextSigning == IInv /\ SeedInv /\ SigningInv /\ [Next]_vars => SigningInv'
<1> SUFFICES ASSUME IInv, SeedInv, SigningInv, [Next]_vars PROVE SigningInv'
  OBVIOUS
<1>1. CASE Views
  BY <1>1, SharedViewsKeepSigning, SeedViewsKeepSigning, NewSeedViewsKeepSigning,
     WordsViewsKeepSigning,
     SeedQRViewsKeepSigning, VerificationViewsKeepSigning, ExplorerViewsKeepSigning, PsbtViewsKeepSigning,
     MessageViewsKeepSigning DEF Views
<1>2. ASSUME UNCHANGED <<view, backStack, controller, storage, shown>>
      PROVE  SigningInv'
  <2>1. /\ view' = view /\ backStack' = backStack /\ controller' = controller /\ storage' = storage
        /\ shown' = shown
    BY <1>2
  <2>2. /\ Places' = Places /\ (Idle' <=> Idle)
    BY <2>1 DEF Places, Idle
  <2>3. UnderReview' <=> UnderReview
    BY <2>1, <2>2 DEF UnderReview
  <2>4. KnownSeeds'
    BY <2>1, <2>2 DEF SigningInv, KnownSeeds
  <2>5. ReviewStacked' /\ ReviewArgs' /\ ParserOK' /\ OverviewOK'
    BY <2>1, <2>2 DEF SigningInv, ReviewInv, ReviewStacked, ReviewArgs, ParserOK, OverviewOK
  <2>6. ReviewReached' /\ ScanIsApart' /\ DescriptorOK'
    BY <2>1, <2>2, <2>3 DEF SigningInv, ReviewInv, ReviewReached, ScanIsApart, DescriptorOK
  <2> QED BY <2>4, <2>5, <2>6 DEF SigningInv, ReviewInv
<1>3. CASE UserWantsOut
  BY <1>2, <1>3 DEF UserWantsOut
<1>4. CASE UNCHANGED vars
  BY <1>2, <1>4 DEF vars
<1> QED BY <1>1, <1>3, <1>4 DEF Next

LEMMA SigningSpec == Spec => [](IInv /\ SigningInv)
<1>1. Init => SigningInv
  BY InitSigning
<1>2. IInv /\ SeedInv /\ SigningInv /\ [Next]_vars => SigningInv'
  BY NextSigning
<1>3. Spec => [](IInv /\ SeedInv)
  BY SeedsSpec
<1> QED BY <1>1, <1>2, <1>3, PTL DEF Spec

\* What is reviewed is the transaction in memory, as read for the seed that was chosen
\* last, and that seed is in memory, through all turns of all flows (psbt_views.py).
THEOREM ReviewTheorem == Spec => []ReviewIsCurrent
<1>1. IInv /\ SigningInv => ReviewIsCurrent
  <2> SUFFICES ASSUME IInv, SigningInv, view.cls \in ReviewScreens,
                      ~(view.cls = "PSBTChangeDetailsView" /\ Idle)
               PROVE  /\ controller.parser = [psbt |-> controller.psbt, seed |-> controller.psbtSeed]
                      /\ controller.psbtSeed \in storage.seeds
    BY DEF ReviewIsCurrent, Idle
  <2>1. view.cls \in ReviewZone /\ view.cls # "PSBTSignedQRDisplayView"
    BY DEF ReviewZone, ReviewScreens
  <2>2. controller.parser # None /\ ~Idle /\ controller.parser.seed = controller.psbtSeed
    BY <2>1, OnReview
  <2>3. /\ controller.parser = [psbt |-> controller.parser.psbt, seed |-> controller.parser.seed]
        /\ controller.psbt = controller.parser.psbt
    BY <2>1, <2>2 DEF SigningInv, ReviewInv, ParserOK
  <2>4. controller.psbtSeed \in storage.seeds
    BY <2>2 DEF SigningInv, KnownSeeds, Idle
  <2> QED BY <2>2, <2>3, <2>4
<1> QED BY <1>1, SigningSpec, PTL

\* Whatever the path through the flows, the QR of a signed transaction is on the screen
\* only when all that it pays, all that comes back and the OP_RETURN have been on it
\* before, as read for the seed that signs (PSBTFinalizeView and what leads to it).
THEOREM SignedTheorem == Spec => []SignedIsReviewed
<1>1. IInv /\ SigningInv => SignedIsReviewed
  <2> SUFFICES ASSUME IInv, SigningInv, view.cls = "PSBTSignedQRDisplayView"
               PROVE  LET parser == controller.parser  tx == parser.psbt IN
                      /\ controller.psbt = Trimmed(tx, parser.seed)
                      /\ \A n \in 0..(tx.dests - 1) : AddressOf(parser, n) \in shown
                      /\ \A n \in 0..(Len(tx.change) - 1) : \E v \in BOOLEAN : ChangeOf(parser, n, v) \in shown
                      /\ tx.opReturn => OpReturnOf(parser) \in shown
    BY DEF SignedIsReviewed
  <2> DEFINE tx == controller.parser.psbt
  <2>1. view.cls \in ReviewZone
    BY ReviewClasses
  <2>2. /\ controller.parser # None /\ tx \in Transactions
        /\ Reached(view, controller.parser, shown)
    BY <2>1, OnReview
  <2>3. controller.psbt = Trimmed(tx, controller.parser.seed)
    BY <2>2 DEF SigningInv, ReviewInv, ParserOK
  <2>4. DestsBefore(view, tx) = tx.dests /\ ChangeBefore(view, tx) = Len(tx.change)
    BY DEF DestsBefore, ChangeBefore, DescriptorScreens
  <2>5. tx.dests \in Nat /\ Len(tx.change) \in Nat
    BY <2>2, TransactionParts
  <2>6. /\ \A n \in Nat : n < tx.dests => AddressOf(controller.parser, n) \in shown
        /\ \A n \in Nat : n < Len(tx.change) => \E v \in BOOLEAN : ChangeOf(controller.parser, n, v) \in shown
        /\ tx.opReturn => OpReturnOf(controller.parser) \in shown
    BY <2>2, <2>4 DEF Reached
  <2>7. /\ \A n \in 0..(tx.dests - 1) : n \in Nat /\ n < tx.dests
        /\ \A n \in 0..(Len(tx.change) - 1) : n \in Nat /\ n < Len(tx.change)
    BY <2>5
  <2> QED BY <2>3, <2>6, <2>7
<1> QED BY <1>1, SigningSpec, PTL

\* A descriptor that is in memory when a multisig transaction has been signed has
\* verified all of its change, whenever in the review it was loaded (PSBTChangeDetailsView
\* and MultisigWalletDescriptorView).
THEOREM DescriptorTheorem == Spec => []DescriptorVerifiesAll
<1>1. IInv /\ SigningInv => DescriptorVerifiesAll
  <2> SUFFICES ASSUME IInv, SigningInv, view.cls = "PSBTSignedQRDisplayView", controller.descriptor # None,
                      controller.parser.psbt.multisig,
                      NEW n \in 0..(Len(controller.parser.psbt.change) - 1)
               PROVE  ChangeOf(controller.parser, n, TRUE) \in shown
    BY Zenon DEF DescriptorVerifiesAll
  <2> DEFINE tx == controller.parser.psbt
  <2>1. view.cls \in ReviewZone
    BY ReviewClasses
  <2>2. ~Idle /\ tx \in Transactions /\ VerifiedBefore(view, controller.parser, shown)
    BY <2>1, OnReview
  <2>3. ChangeBefore(view, tx) = Len(tx.change)
    BY DEF ChangeBefore, DescriptorScreens
  <2>4. n \in Nat /\ n < Len(tx.change)
    <3>1. Len(tx.change) \in Nat
      BY <2>2, TransactionParts
    <3> QED BY <3>1
  <2> QED BY Zenon, <2>2, <2>3, <2>4 DEF VerifiedBefore
<1> QED BY <1>1, SigningSpec, PTL

-----------------------------------------------------------------------------
(* The review of a message. *)

LEMMA OutsideOfMessage ==
  ASSUME IInv, MessageInv, view.cls \notin MessageReview
  PROVE  \A i \in Places : backStack[i].cls \notin MessageReview
<1>1. CASE view = Home
  BY <1>1, ViewIsOnTop DEF Places
<1>2. CASE view # Home
  <2>1. /\ Len(backStack) \in Nat /\ Len(backStack) > 0 /\ backStack[Len(backStack)] = view
        /\ Len(backStack) \in Places
    BY <1>2, ViewIsOnTop DEF Places
  <2>2. \A i \in Places : i = Len(backStack) \/ i < Len(backStack)
    BY <2>1 DEF Places
  <2> QED BY <2>1, <2>2 DEF MessageInv
<1> QED BY <1>1, <1>2

LEMMA EmptiedMessage ==
  ASSUME backStack' = << >>, MessageHasPlace(controller') PROVE MessageInv'
<1>1. Len(<< >>) = 0
  OBVIOUS
<1>2. Places' = {}
  BY <1>1 DEF Places
<1> QED BY <1>2 DEF MessageInv, MessageHasPlace

\* Home does not wipe what is known of the message.
LEMMA MessageAtHome ==
  ASSUME NEW temps, MessageHasPlace(temps) PROVE MessageHasPlace(Wiped(temps))
BY DEF MessageHasPlace, Wiped, FreshController

\* The temps that a View may leave behind.
LEMMA MessageTemps ==
  ASSUME MessageInv
  PROVE  /\ MessageHasPlace(controller)
         /\ \A c, x : MessageHasPlace(c) => MessageHasPlace([c EXCEPT !.resume = x])
         /\ \A x : MessageHasPlace([controller EXCEPT !.unverified = x])
         /\ \A x : MessageHasPlace([controller EXCEPT !.unverified.sigType = x])
         /\ \A x : MessageHasPlace([controller EXCEPT !.explorer = x])
         /\ \A x : MessageHasPlace([controller EXCEPT !.descriptor = x])
         /\ \A x : MessageHasPlace([controller EXCEPT !.psbt = x])
         /\ \A x : MessageHasPlace([controller EXCEPT !.parser = x])
         /\ \A c, x : MessageHasPlace(c) => MessageHasPlace([c EXCEPT !.psbtSeed = x])
         /\ \A x, y : MessageHasPlace([controller EXCEPT !.resume = x, !.explorer = y])
         /\ \A x, y : MessageHasPlace([controller EXCEPT !.psbt = x, !.parser = y])
         /\ \A x, y : MessageHasPlace([controller EXCEPT !.parser = x, !.psbtSeed = y])
         /\ \A x : controller.signData # None => MessageHasPlace([controller EXCEPT !.signData.seed = x])
         /\ \A x : MessageHasPlace([controller EXCEPT !.resume = x, !.signData = None])
         /\ \A x, y : MessageHasPlace([controller EXCEPT !.signData = [NoMessage EXCEPT !.seed = x], !.resume = y])
<1>1. MessageHasPlace(controller)
  BY DEF MessageInv
<1>2. \A x : controller.signData # None => MessageHasPlace([controller EXCEPT !.signData.seed = x])
  BY <1>1 DEF MessageHasPlace
<1>3. \A x, y : MessageHasPlace([controller EXCEPT !.signData = [NoMessage EXCEPT !.seed = x], !.resume = y])
  BY <1>1 DEF MessageHasPlace, NoMessage
<1> QED BY <1>1, <1>2, <1>3 DEF MessageHasPlace

\* A turn of a View that is not of the review, or one that leaves it for Home or an
\* error, keeps what is true of the review; what leads into it leads to the first page.
LEMMA MessageTurn ==
  ASSUME IInv, MessageInv
  PROVE  \A d, temps, stored, displayed :
           /\ d.skip => view.cls # "MainMenuView"
           /\ view.cls \notin MessageReview \/ (d.clear /\ ~GoesBack(d)) \/ Target(d) = Home
           /\ \/ GoesBack(d) \/ d.cls \notin MessageReview
              \/ d.cls = "SeedSignMessageConfirmMessageView" /\ d.args = None
           /\ MessageHasPlace(temps)
           /\ Turn(d, temps, stored, displayed)
           => MessageInv'
<1> SUFFICES ASSUME NEW d, NEW temps, NEW stored, NEW displayed,
                    d.skip => view.cls # "MainMenuView",
                    view.cls \notin MessageReview \/ (d.clear /\ ~GoesBack(d)) \/ Target(d) = Home,
                    \/ GoesBack(d) \/ d.cls \notin MessageReview
                    \/ d.cls = "SeedSignMessageConfirmMessageView" /\ d.args = None,
                    MessageHasPlace(temps),
                    Turn(d, temps, stored, displayed)
             PROVE  MessageInv'
  OBVIOUS
<1>1. CASE backStack' = << >> /\ controller' = Wiped(temps)
  BY <1>1, EmptiedMessage, MessageAtHome
<1>2. ASSUME NEW m, Landed(d, m), view' # Home, controller' = temps PROVE MessageInv'
  <2>1. /\ m \in Nat /\ Len(backStack) \in Nat /\ Len(backStack') = m + 1 /\ view' = backStack'[m + 1]
        /\ m <= Len(backStack) /\ \A i \in 1..m : i \in Places /\ backStack'[i] = backStack[i]
        /\ Target(d) # Home
    BY <1>2, ViewIsOnTop DEF Landed, Places, Turn
  <2>2. \A i \in 1..m : backStack'[i].cls \notin MessageReview
    <3>1. CASE view.cls \notin MessageReview
      BY <2>1, <3>1, OutsideOfMessage
    <3>2. CASE d.clear /\ ~GoesBack(d)
      BY <1>2, <2>1, <3>2 DEF Landed
    <3> QED BY <2>1, <3>1, <3>2
  <2>3. \/ view'.cls \notin MessageReview
        \/ view'.cls = "SeedSignMessageConfirmMessageView" /\ PageOf(view'.args) = 0
    <3>1. CASE GoesBack(d)
      <4>1. PICK k \in (m + 1)..(Len(backStack) - 1) : view' = backStack[k]
        BY <1>2, <3>1 DEF Landed
      <4>2. k \in Places /\ view.cls \notin MessageReview
        BY <2>1, <3>1, <4>1 DEF Places
      <4> QED BY <4>1, <4>2, OutsideOfMessage
    <3>2. CASE ~GoesBack(d)
      <4>1. view' = Entry(d)
        BY <1>2, <3>2 DEF Landed
      <4>2. view'.cls = d.cls /\ view'.args = d.args
        BY <4>1 DEF Entry
      <4> QED BY <3>2, <4>2 DEF PageOf
    <3> QED BY <3>1, <3>2
  <2>4. \A i \in Places' : (i \in 1..m) \/ (i = m + 1 /\ backStack'[i] = view')
    BY <2>1 DEF Places
  <2>5. ASSUME NEW i \in Places', backStack'[i].cls \in MessageReview
        PROVE  i = m + 1 /\ ShownBefore(backStack'[i], controller'.signData, shown')
    <3>1. i = m + 1 /\ backStack'[i] = view'
      BY <2>2, <2>4, <2>5
    <3>2. view'.cls = "SeedSignMessageConfirmMessageView" /\ PageOf(view'.args) = 0
      BY <2>3, <2>5, <3>1
    <3> QED BY <3>1, <3>2 DEF ShownBefore
  <2>6. \A i, j \in Places' : i < j => i # m + 1
    BY <2>1 DEF Places
  <2>7. MessageHasPlace(controller')
    BY <1>2
  <2> QED BY <2>5, <2>6, <2>7 DEF MessageInv, MessageHasPlace
<1> QED BY <1>1, <1>2, Landing

\* BACK within the review, or out of it: either the message stays as it is, or no
\* screen of the review is left.
LEMMA MessageBack ==
  ASSUME IInv, MessageInv, NEW temps, NEW displayed, Turn(Back, temps, storage, displayed),
         view.cls \in MessageReview, MessageHasPlace(temps),
         \/ temps.signData = controller.signData
         \/ \A i \in Places : i < Len(backStack) => backStack[i].cls \notin MessageReview
  PROVE  MessageInv'
<1> DEFINE d == Back
<1>1. GoesBack(d) /\ ~d.skip /\ ~d.clear
  BY DEF Back, To, GoesBack
<1>2. Turn(d, temps, storage, displayed)
  OBVIOUS
<1> HIDE DEF d
<1>3. CASE backStack' = << >> /\ controller' = Wiped(temps)
  BY <1>3, EmptiedMessage, MessageAtHome
<1>4. ASSUME NEW m, Landed(d, m), controller' = temps, shown' = shown \union displayed PROVE MessageInv'
  <2>1. /\ m \in Nat /\ Len(backStack) \in Nat /\ Len(backStack') = m + 1
        /\ m + 1 < Len(backStack) /\ view' = backStack'[m + 1] /\ view' = backStack[m + 1]
        /\ \A i \in 1..m : backStack'[i] = backStack[i]
    BY <1>1, <1>4, ViewIsOnTop DEF Landed
  <2>2. \A i \in Places' : i \in Places /\ i < Len(backStack) /\ backStack'[i] = backStack[i]
    <3>1. \A i \in Places' : i \in 1..m \/ i = m + 1
      BY <2>1 DEF Places
    <3>2. backStack'[m + 1] = backStack[m + 1]
      BY <2>1
    <3> QED BY <2>1, <3>1, <3>2 DEF Places
  <2>3. ASSUME NEW i \in Places', backStack'[i].cls \in MessageReview
        PROVE  ShownBefore(backStack'[i], controller'.signData, shown')
    <3>1. controller'.signData = controller.signData /\ ShownBefore(backStack[i], controller.signData, shown)
      BY <1>4, <2>2, <2>3 DEF MessageInv
    <3> QED BY <1>4, <2>2, <3>1 DEF ShownBefore
  <2>4. MessageHasPlace(controller')
    BY <1>4
  <2> QED BY <2>2, <2>3, <2>4 DEF MessageInv, MessageHasPlace
<1> QED BY <1>1, <1>2, <1>3, <1>4, Landing

\* Onward within the review, to no first page, when what has to have been on the
\* screen before has been.
LEMMA MessageOnward ==
  ASSUME IInv, MessageInv, NEW d, NEW temps, NEW displayed, Turn(d, temps, storage, displayed),
         view.cls \in MessageReview, MessageHasPlace(temps),
         ~GoesBack(d), ~d.skip, ~d.clear, d.cls \in MessageReview,
         d.cls = "SeedSignMessageConfirmMessageView" => PageOf(d.args) > 0,
         ShownBefore(Entry(d), temps.signData, shown \union displayed),
         \A e : e.cls \in MessageReview /\ ShownBefore(e, controller.signData, shown)
           => ShownBefore(e, temps.signData, shown \union displayed)
  PROVE  MessageInv'
<1>1. CASE backStack' = << >> /\ controller' = Wiped(temps)
  BY <1>1, EmptiedMessage, MessageAtHome
<1>2. ASSUME NEW m, Landed(d, m), controller' = temps, shown' = shown \union displayed PROVE MessageInv'
  <2>1. /\ m \in Nat /\ Len(backStack) \in Nat /\ Len(backStack') = m + 1
        /\ view' = backStack'[m + 1] /\ view' = Entry(d)
        /\ m <= Len(backStack) /\ \A i \in 1..m : i \in Places /\ backStack'[i] = backStack[i]
    BY <1>2, ViewIsOnTop DEF Landed, Places
  <2>2. \A i \in Places' : (i \in 1..m) \/ (i = m + 1 /\ backStack'[i] = Entry(d))
    <3>1. \A i \in Places' : i \in 1..m \/ i = m + 1
      BY <2>1 DEF Places
    <3>2. backStack'[m + 1] = Entry(d)
      BY <2>1
    <3> QED BY <3>1, <3>2
  <2>3. Entry(d).cls = d.cls /\ Entry(d).args = d.args
    BY DEF Entry
  <2>4. ASSUME NEW i \in Places', backStack'[i].cls \in MessageReview
        PROVE  ShownBefore(backStack'[i], controller'.signData, shown')
    <3>1. CASE i \in 1..m
      BY Zenon, <1>2, <2>1, <2>4, <3>1 DEF MessageInv
    <3>2. CASE i = m + 1 /\ backStack'[i] = Entry(d)
      BY <1>2, <3>2
    <3> QED BY <2>2, <3>1, <3>2
  <2>5. ASSUME NEW i \in Places', NEW j \in Places', i < j, backStack'[i].cls \in MessageReview
        PROVE  /\ backStack'[j].cls \in MessageReview
               /\ backStack'[j].cls = "SeedSignMessageConfirmMessageView" => PageOf(backStack'[j].args) > 0
    <3>1. i \in Places /\ backStack'[i] = backStack[i]
      BY <2>1, <2>2, <2>5 DEF Places
    <3>2. CASE j \in 1..m
      BY <2>1, <2>5, <3>1, <3>2 DEF MessageInv
    <3>3. CASE j = m + 1 /\ backStack'[j] = Entry(d)
      BY <2>3, <3>3
    <3> QED BY <2>2, <3>2, <3>3
  <2>6. MessageHasPlace(controller')
    BY <1>2
  <2> QED BY <2>4, <2>5, <2>6 DEF MessageInv, MessageHasPlace
<1> QED BY <1>1, <1>2, Landing

LEMMA SharedViewsOutsideTheMessage ==
  ASSUME IInv, MessageInv, SharedViews PROVE MessageInv'
<1> USE MessageTemps DEF MessageReview
<1>1. CASE MainMenuView
  <2>1. view.cls \notin MessageReview
    BY Zenon, <1>1 DEF MainMenuView, At
  <2>2. PICK cls \in {"ScanView", "SeedsMenuView", "ToolsMenuView", "PowerOptionsView"} :
          Go(To(cls))
    BY Zenon, <1>1 DEF MainMenuView, Choose
  <2> QED BY Zenon, <2>1, <2>2, MessageTurn DEF Go, To
<1>2. CASE PowerOptionsView
  BY Zenon, <1>2, MessageTurn
     DEF PowerOptionsView, At, Go, Choose, To, ToWith, Back, Skipping, Clearing,
         GoesBack
<1>3. CASE PowerOffView
  BY Zenon, <1>3, MessageTurn
     DEF PowerOffView, At, Go, To, ToWith, Back, Skipping, Clearing, GoesBack
<1>4. CASE RestartView
  <2>1. MessageHasPlace(FreshController)
    BY DEF MessageHasPlace, FreshController
  <2> QED BY Zenon, <1>4, <2>1, EmptiedMessage DEF RestartView
<1>5. CASE UnhandledExceptionView
  BY Zenon, <1>5, MessageTurn
     DEF UnhandledExceptionView, At, Go, To, ToWith, Back, Skipping, Clearing,
         GoesBack
<1>6. CASE WarnAndGoHome
  BY Zenon, <1>6, MessageTurn
     DEF WarnAndGoHome, At, Go, To, ToWith, Back, Skipping, Clearing, GoesBack
<1>7. CASE ErrorView
  BY Zenon, <1>7, MessageTurn
     DEF ErrorView, At, Go, To, ToWith, Back, Skipping, Clearing, GoesBack
<1> QED BY Zenon, <1>1, <1>2, <1>3, <1>4, <1>5, <1>6, <1>7 DEF SharedViews

LEMMA SeedViewsOutsideTheMessage ==
  ASSUME IInv, MessageInv, SeedViews PROVE MessageInv'
<1> USE MessageTemps DEF MessageReview
<1>1. CASE ScanComesToNothing
  BY Zenon, <1>1, MessageTurn
     DEF ScanComesToNothing, Go, ChooseLeaving, GoWith, Choose, RaiseError,
         AtAnyScanner, ScannerFor, To, ToWith, Back, Skipping, Clearing, GoesBack
<1>2. CASE ScanSeed
  BY Zenon, <1>2, MessageTurn
     DEF ScanSeed, GoStoring, Scanned, Scanners, ScannerFor, To, ToWith, Back,
         Skipping, Clearing, GoesBack
<1>3. CASE SeedsMenuView
  BY Zenon, <1>3, MessageTurn
     DEF SeedsMenuView, At, Go, ChooseWith, Choose, To, ToWith, Back, Skipping,
         Clearing, GoesBack
<1>4. CASE LoadSeedView
  BY Zenon, <1>4, MessageTurn
     DEF LoadSeedView, At, Go, LoadASeed, ChooseLeaving, GoWith, Choose, To, ToWith,
         Back, Skipping, Clearing, GoesBack
<1>5. CASE SeedSelectSeedView
  BY Zenon, <1>5, MessageTurn
     DEF SeedSelectSeedView, At, Go, ChooseWith, Raise, RaiseError, GoWith, LoadASeed,
         ChooseLeaving, To, ToWith, Back, Skipping, Clearing, GoesBack
<1>6. CASE SeedMnemonicEntryView
  BY Zenon, <1>6, MessageTurn
     DEF SeedMnemonicEntryView, At, GoStoring, NextAfterWord, Raise, RaiseError, Go,
         To, ToWith, Back, Skipping, Clearing, GoesBack
<1>7. CASE SeedMnemonicInvalidView
  BY Zenon, <1>7, MessageTurn
     DEF SeedMnemonicInvalidView, At, ChooseWith, Go, GoStoring, To, ToWith, Back,
         Skipping, Clearing, GoesBack
<1>8. CASE SeedElectrumMnemonicStartView
  BY Zenon, <1>8, MessageTurn
     DEF SeedElectrumMnemonicStartView, At, GoStoring, To, ToWith, Back, Skipping,
         Clearing, GoesBack
<1>9. CASE SeedFinalizeView
  BY Zenon, <1>9, MessageTurn
     DEF SeedFinalizeView, At, KeepSeed, GoStoring, Choose, Go, To, ToWith, Back,
         Skipping, Clearing, GoesBack
<1>10. CASE SeedAddPassphraseView
  BY Zenon, <1>10, MessageTurn
     DEF SeedAddPassphraseView, At, GoStoring, To, ToWith, Back, Skipping, Clearing,
         GoesBack
<1>11. CASE SeedAddPassphraseExitDialogView
  BY Zenon, <1>11, MessageTurn
     DEF SeedAddPassphraseExitDialogView, At, Choose, Go, GoStoring, To, ToWith, Back,
         Skipping, Clearing, GoesBack
<1>12. CASE SeedReviewPassphraseView
  BY Zenon, <1>12, MessageTurn
     DEF SeedReviewPassphraseView, At, KeepSeed, GoStoring, Choose, Go, To, ToWith,
         Back, Skipping, Clearing, GoesBack
<1>13. CASE SeedDiscardView
  BY Zenon, <1>13, MessageTurn
     DEF SeedDiscardView, At, Go, GoStoring, To, ToWith, Back, Skipping, Clearing,
         GoesBack
<1>14. CASE SeedOptionsView
  <2>1. view.cls \notin MessageReview /\ view.cls # "MainMenuView"
    BY Zenon, <1>14 DEF SeedOptionsView, At
  <2>2. CASE SeedOptionsMenu(view.args.seed)
    <3>1. CASE GoWith(To("ScanView"), [controller EXCEPT !.signData = [NoMessage EXCEPT !.seed = view.args.seed],
                                                         !.resume = "sign_message"])
      <4> DEFINE temps == [controller EXCEPT !.signData = [NoMessage EXCEPT !.seed = view.args.seed],
                                             !.resume = "sign_message"]
      <4>1. MessageHasPlace(temps)
        BY Zenon
      <4>2. Turn(To("ScanView"), temps, storage, {})
        BY Zenon, <3>1 DEF GoWith
      <4> HIDE DEF temps
      <4> QED BY Zenon, <2>1, <4>1, <4>2, MessageTurn DEF To, GoesBack
    <3>2. CASE \/ Go(To("MainMenuView"))
               \/ ChooseLeaving("ScanPSBTView", [controller EXCEPT !.psbtSeed = view.args.seed])
               \/ GoWith(ToWith("SeedExportXpubScriptTypeView", [seed |-> view.args.seed, sigType |-> "ss"]),
                         [controller EXCEPT !.resume = "address_explorer"])
               \/ \E cls \in {"SeedExportXpubSigTypeView", "SeedBackupView", "SeedDiscardView",
                              "SeedBIP85SelectNumWordsView"} : ChooseWith(cls, [seed |-> view.args.seed])
      BY Zenon, <2>1, <3>2, MessageTurn DEF Go, ChooseLeaving, GoWith, ChooseWith, To, ToWith, GoesBack
    <3> QED BY Zenon, <2>2, <3>1, <3>2 DEF SeedOptionsMenu
  <2>3. CASE ResumeFlow(view.args.seed)
    BY Zenon, <2>1, <2>3, MessageTurn
       DEF ResumeFlow, Go, GoWith, Raise, RaiseError, To, ToWith, Skipping, Clearing, GoesBack
  <2> QED BY Zenon, <1>14, <2>2, <2>3 DEF SeedOptionsView
<1> QED BY Zenon, <1>1, <1>2, <1>3, <1>4, <1>5, <1>6, <1>7, <1>8, <1>9, <1>10, <1>11, <1>12, <1>13,
           <1>14
           DEF SeedViews

LEMMA EntropyLeads ==
  ASSUME CollectEntropy
  PROVE  \/ Go(Back)
         \/ \E cls \in {"ToolsImageEntropyFinalImageView", "ToolsImageEntropyMnemonicLengthView",
                       "ToolsDiceEntropyEntryView"} :
              Go(To(cls))
BY DEF CollectEntropy, EntropyScreens, Choose

LEMMA NewSeedViewsOutsideTheMessage ==
  ASSUME IInv, MessageInv, NewSeedViews PROVE MessageInv'
<1> USE MessageTemps DEF MessageReview
<1>1. CASE ToolsMenuView
  BY Zenon, <1>1, MessageTurn
     DEF ToolsMenuView, At, Go, Choose, To, ToWith, Back, Skipping, Clearing, GoesBack
<1>2. CASE CollectEntropy
  <2>1. view.cls \notin MessageReview /\ view.cls # "MainMenuView"
    BY Zenon, <1>2 DEF CollectEntropy, EntropyScreens
  <2>2. \/ Go(Back)
        \/ \E cls \in {"ToolsImageEntropyFinalImageView", "ToolsImageEntropyMnemonicLengthView",
                      "ToolsDiceEntropyEntryView"} :
             Go(To(cls))
    BY Zenon, <1>2, EntropyLeads
  <2> QED BY Zenon, <2>1, <2>2, MessageTurn DEF Go, Back, To, GoesBack
<1>3. CASE GenerateSeed
  BY Zenon, <1>3, MessageTurn
     DEF GenerateSeed, At, Go, GoStoring, To, ToWith, Back, Skipping, Clearing,
         GoesBack
<1>4. CASE ToolsCalcFinalWordNumWordsView
  BY Zenon, <1>4, MessageTurn
     DEF ToolsCalcFinalWordNumWordsView, At, Go, GoStoring, To, ToWith, Back,
         Skipping, Clearing, GoesBack
<1>5. CASE ToolsCalcFinalWordFinalizePromptView
  BY Zenon, <1>5, MessageTurn
     DEF ToolsCalcFinalWordFinalizePromptView, At, Go, Choose, GoStoring, To, ToWith,
         Back, Skipping, Clearing, GoesBack
<1>6. CASE ToolsCalcFinalWordCoinFlipsView
  BY Zenon, <1>6, MessageTurn
     DEF ToolsCalcFinalWordCoinFlipsView, At, Go, ChooseWith, To, ToWith, Back,
         Skipping, Clearing, GoesBack
<1>7. CASE ToolsCalcFinalWordShowFinalWordView
  BY Zenon, <1>7, MessageTurn
     DEF ToolsCalcFinalWordShowFinalWordView, At, GoStoring, ChooseStoring, To,
         ToWith, Back, Skipping, Clearing, GoesBack
<1>8. CASE ToolsCalcFinalWordDoneView
  BY Zenon, <1>8, MessageTurn
     DEF ToolsCalcFinalWordDoneView, At, Go, ChooseStoring, GoStoring, To, ToWith,
         Back, Skipping, Clearing, GoesBack
<1> QED BY Zenon, <1>1, <1>2, <1>3, <1>4, <1>5, <1>6, <1>7, <1>8 DEF NewSeedViews

LEMMA WordsViewsOutsideTheMessage ==
  ASSUME IInv, MessageInv, WordsViews PROVE MessageInv'
<1> USE MessageTemps DEF MessageReview
<1>1. CASE SeedBackupView
  BY Zenon, <1>1, MessageTurn
     DEF SeedBackupView, At, Go, ChooseWith, To, ToWith, Back, Skipping, Clearing,
         GoesBack
<1>2. CASE SeedWordsWarningView
  BY Zenon, <1>2, MessageTurn
     DEF SeedWordsWarningView, At, Go, ChooseSkipping, To, ToWith, Back, Skipping,
         Clearing, GoesBack
<1>3. CASE SeedWordsView
  BY Zenon, <1>3, MessageTurn
     DEF SeedWordsView, At, Go, ChooseWith, To, ToWith, Back, Skipping, Clearing,
         GoesBack
<1>4. CASE BIP85Views
  BY Zenon, <1>4, MessageTurn
     DEF BIP85Views, At, Go, ChooseWith, ChooseSkipping, To, ToWith, Back, Skipping,
         Clearing, GoesBack
<1>5. CASE SeedWordsBackupTestPromptView
  BY Zenon, <1>5, MessageTurn
     DEF SeedWordsBackupTestPromptView, At, Go, BackupDone, TestOf, To, ToWith, Back,
         Skipping, Clearing, GoesBack
<1>6. CASE SeedWordsBackupTestView
  <2>1. view.cls \notin MessageReview /\ view.cls # "MainMenuView"
    BY Zenon, <1>6 DEF At, SeedWordsBackupTestView
  <2> QED BY Zenon, <1>6, <2>1, MessageTurn
             DEF SeedWordsBackupTestView, ChooseWith, Go, TestOf, To, ToWith, Back, Skipping,
                 Clearing, GoesBack
<1>7. CASE SeedWordsBackupTestMistakeView
  BY Zenon, <1>7, MessageTurn
     DEF SeedWordsBackupTestMistakeView, At, ChooseWith, Go, TestOf, To, ToWith, Back,
         Skipping, Clearing, GoesBack
<1>8. CASE SeedWordsBackupTestSuccessView
  BY Zenon, <1>8, MessageTurn
     DEF SeedWordsBackupTestSuccessView, At, Go, BackupDone, To, ToWith, Back,
         Skipping, Clearing, GoesBack
<1> QED BY Zenon, <1>1, <1>2, <1>3, <1>4, <1>5, <1>6, <1>7, <1>8 DEF WordsViews

LEMMA SeedQRViewsOutsideTheMessage ==
  ASSUME IInv, MessageInv, SeedQRViews PROVE MessageInv'
<1> USE MessageTemps DEF MessageReview
<1>1. CASE SeedTranscribeSeedQRFormatView
  BY Zenon, <1>1, MessageTurn
     DEF SeedTranscribeSeedQRFormatView, At, Go, ChooseWith, To, ToWith, Back,
         Skipping, Clearing, GoesBack
<1>2. CASE SeedTranscribeSeedQRWarningView
  BY Zenon, <1>2, MessageTurn
     DEF SeedTranscribeSeedQRWarningView, At, Go, ChooseSkipping, To, ToWith, Back,
         Skipping, Clearing, GoesBack
<1>3. CASE SeedTranscribeSeedQRWholeQRView
  BY Zenon, <1>3, MessageTurn
     DEF SeedTranscribeSeedQRWholeQRView, At, Go, ChooseWith, To, ToWith, Back,
         Skipping, Clearing, GoesBack
<1>4. CASE SeedTranscribeSeedQRZoomedInView
  BY Zenon, <1>4, MessageTurn
     DEF SeedTranscribeSeedQRZoomedInView, At, Go, To, ToWith, Back, Skipping,
         Clearing, GoesBack
<1>5. CASE SeedTranscribeSeedQRConfirmQRPromptView
  BY Zenon, <1>5, MessageTurn
     DEF SeedTranscribeSeedQRConfirmQRPromptView, At, Go, ChooseWith, To, ToWith,
         Back, Skipping, Clearing, GoesBack
<1>6. CASE SeedTranscribeSeedQRConfirmScanView
  BY Zenon, <1>6, MessageTurn
     DEF SeedTranscribeSeedQRConfirmScanView, At, Go, To, ToWith, Back, Skipping,
         Clearing, GoesBack
<1>7. CASE SeedTranscribeSeedQRRejected
  BY Zenon, <1>7, MessageTurn
     DEF SeedTranscribeSeedQRRejected, At, Go, To, ToWith, Back, Skipping, Clearing,
         GoesBack
<1>8. CASE SeedTranscribeSeedQRConfirmSuccessView
  BY Zenon, <1>8, MessageTurn
     DEF SeedTranscribeSeedQRConfirmSuccessView, At, Go, To, ToWith, Back, Skipping,
         Clearing, GoesBack
<1> QED BY Zenon, <1>1, <1>2, <1>3, <1>4, <1>5, <1>6, <1>7, <1>8 DEF SeedQRViews

LEMMA VerificationViewsOutsideTheMessage ==
  ASSUME IInv, MessageInv, VerificationViews PROVE MessageInv'
<1> USE MessageTemps DEF MessageReview
<1>1. CASE ScanAddress
  BY Zenon, <1>1, MessageTurn
     DEF ScanAddress, Go, Scanned, Scanners, ScannerFor, To, ToWith, Back, Skipping,
         Clearing, GoesBack
<1>2. CASE AddressVerificationStartView
  <2>1. view.cls \notin MessageReview /\ view.cls # "MainMenuView"
    BY Zenon, <1>2 DEF AddressVerificationStartView, At
  <2>2. \A kind : MessageHasPlace(Unverified(kind))
    BY Zenon DEF Unverified
  <2>3. ASSUME NEW temps, MessageHasPlace(temps) PROVE MessageHasPlace(VerifyWithDescriptor(temps).temps)
    BY Zenon, <2>3 DEF VerifyWithDescriptor
  <2>4. ASSUME NEW temps
        PROVE  VerifyWithDescriptor(temps).to \in
                 {To("SeedAddressVerificationView"), To("LoadMultisigWalletDescriptorView")}
    BY Zenon DEF VerifyWithDescriptor
  <2>5. \/ GoWith(Skipping(To("AddressVerificationSigTypeView")), Unverified(None))
        \/ GoWith(Skipping(VerifyWithDescriptor(Unverified("ms")).to), VerifyWithDescriptor(Unverified("ms")).temps)
        \/ GoWith(Skipping(VerifyWithSeed), Unverified("ss"))
    BY Zenon, <1>2 DEF AddressVerificationStartView
  <2>6. ASSUME NEW temps, MessageHasPlace(temps),
               \/ GoWith(Skipping(To("AddressVerificationSigTypeView")), temps)
               \/ GoWith(Skipping(To("SeedAddressVerificationView")), temps)
               \/ GoWith(Skipping(To("LoadMultisigWalletDescriptorView")), temps)
               \/ GoWith(Skipping(VerifyWithSeed), temps)
        PROVE  MessageInv'
    BY Zenon, <2>1, <2>6, MessageTurn DEF GoWith, VerifyWithSeed, To, ToWith, Skipping, GoesBack
  <2> QED BY Zenon, <2>2, <2>3, <2>4, <2>5, <2>6
<1>3. CASE AddressVerificationSigTypeView
  BY Zenon, <1>3, MessageTurn
     DEF AddressVerificationSigTypeView, At, GoWith, Raise, RaiseError, Go,
         VerifyWithDescriptor, VerifyWithSeed, To, ToWith, Back, Skipping, Clearing, GoesBack
<1>4. CASE SeedAddressVerificationView
  BY Zenon, <1>4, MessageTurn
     DEF SeedAddressVerificationView, At, Raise, RaiseError, Go, Choose, To, ToWith,
         Back, Skipping, Clearing, GoesBack
<1>5. CASE SeedAddressVerificationSuccessView
  BY Zenon, <1>5, MessageTurn
     DEF SeedAddressVerificationSuccessView, At, Go, To, ToWith, Back, Skipping,
         Clearing, GoesBack
<1>6. CASE ScanDescriptor
  BY Zenon, <1>6, MessageTurn
     DEF ScanDescriptor, GoWith, Scanned, Scanners, ScannerFor, To, ToWith, Back,
         Skipping, Clearing, GoesBack
<1>7. CASE LoadMultisigWalletDescriptorView
  BY Zenon, <1>7, MessageTurn
     DEF LoadMultisigWalletDescriptorView, At, Choose, Go, To, ToWith, Back, Skipping,
         Clearing, GoesBack
<1>8. CASE MultisigWalletDescriptorView
  BY Zenon, <1>8, MessageTurn
     DEF MultisigWalletDescriptorView, At, GoWith, ReturnToFlow, Go, To, ToWith, Back,
         Skipping, Clearing, GoesBack
<1> QED BY Zenon, <1>1, <1>2, <1>3, <1>4, <1>5, <1>6, <1>7, <1>8 DEF VerificationViews

LEMMA PsbtViewsOutsideTheMessage ==
  ASSUME IInv, MessageInv, PsbtViews PROVE MessageInv'
<1> USE MessageTemps DEF MessageReview
<1>1. CASE ScanPsbt
  BY Zenon, <1>1, MessageTurn
     DEF ScanPsbt, GoWith, Scanned, Scanners, ScannerFor, To, ToWith, Back, Skipping,
         Clearing, GoesBack
<1>2. CASE PSBTSelectSeedView
  BY Zenon, <1>2, MessageTurn
     DEF PSBTSelectSeedView, At, Raise, RaiseError, Go, ChooseLeaving, GoWith,
         LoadASeed, To, ToWith, Back, Skipping, Clearing, GoesBack
<1>3. CASE PSBTOverviewView
  BY Zenon, <1>3, MessageTurn
     DEF PSBTOverviewView, At, OverviewScreen, GoWith, ChooseLeaving, Raise,
         RaiseError, Go, Verdict, To, ToWith, Back, Skipping, Clearing, GoesBack
<1>4. CASE PSBTRejected
  BY Zenon, <1>4, MessageTurn
     DEF PSBTRejected, At, Go, To, ToWith, Back, Skipping, Clearing, GoesBack
<1>5. CASE PSBTNoChangeWarningView
  BY Zenon, <1>5, MessageTurn
     DEF PSBTNoChangeWarningView, At, Go, ChooseSkipping, To, ToWith, Back, Skipping,
         Clearing, GoesBack
<1>6. CASE PSBTMathView
  BY Zenon, <1>6, MessageTurn
     DEF PSBTMathView, At, Go, AddressDetails, ChangeDetails, To, ToWith, Back,
         Skipping, Clearing, GoesBack
<1>7. CASE PSBTAddressDetailsView
  <2>1. view.cls \notin MessageReview /\ view.cls # "MainMenuView"
    BY Zenon, <1>7 DEF At, PSBTAddressDetailsView
  <2> QED BY Zenon, <1>7, <2>1, MessageTurn
             DEF PSBTAddressDetailsView, Raise, RaiseError, Go, Show, ShowOnward,
                 AddressDetails, ChangeDetails, AfterChange, To, ToWith, Back, Skipping,
                 Clearing, GoesBack
<1>8. CASE PSBTChangeDetailsView
  <2>1. view.cls \notin MessageReview /\ view.cls # "MainMenuView"
    BY Zenon, <1>8 DEF At, PSBTChangeDetailsView
  <2> QED BY Zenon, <1>8, <2>1, MessageTurn
             DEF PSBTChangeDetailsView, Go, Raise, RaiseError, PSBTChangeDetailsScreen, Show,
                 ShowOnward, ChangeDetails, AfterChange, To, ToWith, Back, Skipping, Clearing,
                 GoesBack
<1>9. CASE PSBTOpReturnView
  <2>1. view.cls \notin MessageReview /\ view.cls # "MainMenuView"
    BY Zenon, <1>9 DEF At, PSBTOpReturnView
  <2> QED BY Zenon, <1>9, <2>1, MessageTurn
             DEF PSBTOpReturnView, Raise, RaiseError, Go, Show, ShowOnward, To, ToWith, Back,
                 Skipping, Clearing, GoesBack
<1>10. CASE PSBTFinalizeView
  BY Zenon, <1>10, MessageTurn
     DEF PSBTFinalizeView, At, Go, Choose, ChooseLeaving, GoWith, To, ToWith, Back,
         Skipping, Clearing, GoesBack
<1>11. CASE PSBTSignedQRDisplayView
  BY Zenon, <1>11, MessageTurn
     DEF PSBTSignedQRDisplayView, At, Go, To, ToWith, Back, Skipping, Clearing,
         GoesBack
<1>12. CASE PSBTSigningErrorView
  BY Zenon, <1>12, MessageTurn
     DEF PSBTSigningErrorView, At, Go, GoWith, To, ToWith, Back, Skipping, Clearing,
         GoesBack
<1> QED BY Zenon, <1>1, <1>2, <1>3, <1>4, <1>5, <1>6, <1>7, <1>8, <1>9, <1>10, <1>11, <1>12
           DEF PsbtViews

\* What runs on top of the stack has been prepared for.
LEMMA ViewIsShown ==
  ASSUME IInv, MessageInv, view.cls \in MessageReview
  PROVE  /\ ShownBefore(view, controller.signData, shown)
         /\ view.cls # "MainMenuView" /\ view # Home
         /\ view.cls = "SeedSignMessageConfirmMessageView" /\ PageOf(view.args) = 0 =>
              \A i \in Places : i < Len(backStack) => backStack[i].cls \notin MessageReview
<1>1. view.cls # "MainMenuView" /\ view # Home
  BY DEF MessageReview, Home, Entry, To
<1>2. /\ Len(backStack) \in Nat /\ Len(backStack) > 0 /\ backStack[Len(backStack)] = view
      /\ Len(backStack) \in Places
  BY <1>1, ViewIsOnTop DEF Places
<1> QED BY <1>1, <1>2 DEF MessageInv

\* A page is shown, and the screen keeps the pages if it has none yet.
LEMMA ConfirmMessageKeeps ==
  ASSUME IInv, MessageInv, SeedSignMessageConfirmMessageView PROVE MessageInv'
<1> DEFINE data == controller.signData
           paged == Paged(data)
           page == <<"page", paged.paged, PageNumber>>
           kept == [controller EXCEPT !.signData = paged]
<1>1. /\ view.cls = "SeedSignMessageConfirmMessageView" /\ view.cls \in MessageReview
      /\ PageNumber = PageOf(view.args)
  BY DEF SeedSignMessageConfirmMessageView, At, MessageReview, PageNumber, PageOf
<1>2. CASE Raise
  <2>1. MessageHasPlace(controller)
    BY Zenon, MessageTemps
  <2> QED BY Zenon, <1>2, <2>1, MessageTurn, ViewIsShown, <1>1
          DEF Raise, RaiseError, Go, ToWith, To, Clearing, GoesBack, MessageReview
<1>3. ASSUME ConfirmMessageScreen(paged), data # None, ~(data.paged = None /\ data.message = None)
      PROVE  MessageInv'
  <2>1. /\ "signData" \in DOMAIN controller /\ "paged" \in DOMAIN data
        /\ PageNumber \in Nat /\ (PageNumber > 0 => data.paged # None)
        /\ \A n \in Nat : n < PageNumber => <<"page", data.paged, n>> \in shown
    BY <1>1, <1>3, ViewIsShown DEF MessageInv, MessageHasPlace, ShownBefore
  <2>2. /\ paged.paged # None /\ "paged" \in DOMAIN paged
        /\ data.paged # None => paged = data
    <3>1. CASE data.paged = None
      <4>1. paged = [data EXCEPT !.paged = data.message] /\ data.message # None
        BY <1>3, <3>1 DEF Paged
      <4> QED BY <2>1, <3>1, <4>1
    <3>2. CASE data.paged # None
      BY <1>3, <2>1, <3>2 DEF Paged
    <3> QED BY <3>1, <3>2
  <2>3. kept.signData = paged /\ MessageHasPlace(kept)
    BY <2>1, <2>2 DEF MessageHasPlace
  <2>4. ConfirmMessageScreen(paged) <=>
          \/ Turn(Back, IF PageNumber = 0 THEN [controller EXCEPT !.resume = None, !.signData = None] ELSE kept,
                  storage, {page})
          \/ /\ Onward((IF PageNumber = paged.paged.pages - 1 THEN To("SeedSignMessageConfirmAddressView")
                        ELSE ToWith("SeedSignMessageConfirmMessageView", [page |-> PageNumber + 1])).cls)
             /\ Turn(IF PageNumber = paged.paged.pages - 1 THEN To("SeedSignMessageConfirmAddressView")
                     ELSE ToWith("SeedSignMessageConfirmMessageView", [page |-> PageNumber + 1]),
                     kept, storage, {page})
    BY DEF ConfirmMessageScreen
  <2> HIDE DEF paged, kept
  <2>5. ASSUME NEW e, e.cls \in MessageReview, ShownBefore(e, data, shown)
        PROVE  ShownBefore(e, kept.signData, shown \union {page})
    BY <2>2, <2>3, <2>5 DEF ShownBefore, MessageReview
  <2>6. CASE Turn(Back, IF PageNumber = 0 THEN [controller EXCEPT !.resume = None, !.signData = None] ELSE kept,
                  storage, {page})
    <3>1. CASE PageNumber = 0
      <4>1. MessageHasPlace([controller EXCEPT !.resume = None, !.signData = None])
        BY Zenon, MessageTemps
      <4>2. \A i \in Places : i < Len(backStack) => backStack[i].cls \notin MessageReview
        BY <1>1, <3>1, ViewIsShown
      <4> QED BY <1>1, <2>6, <3>1, <4>1, <4>2, MessageBack
    <3>2. CASE PageNumber # 0
      <4>1. kept.signData = controller.signData
        BY <2>1, <2>2, <2>3, <3>2
      <4> QED BY <1>1, <2>3, <2>6, <3>2, <4>1, MessageBack
    <3> QED BY <3>1, <3>2
  <2>7. CASE /\ PageNumber = paged.paged.pages - 1
             /\ Turn(To("SeedSignMessageConfirmAddressView"), kept, storage, {page})
    <3> DEFINE d == To("SeedSignMessageConfirmAddressView")
    <3>1. /\ ~GoesBack(d) /\ ~d.skip /\ ~d.clear /\ d.cls \in MessageReview
          /\ d.cls = "SeedSignMessageConfirmAddressView" /\ Entry(d).cls = d.cls
      BY DEF To, GoesBack, MessageReview, Entry
    <3> HIDE DEF d
    <3>2. \A n \in 0..(paged.paged.pages - 1) :
            \/ n \in Nat /\ n < PageNumber /\ PageNumber > 0
            \/ n = PageNumber
      BY <2>1, <2>7
    <3>3. \A n \in 0..(paged.paged.pages - 1) : <<"page", paged.paged, n>> \in shown \union {page}
      BY <2>1, <2>2, <3>2
    <3>4. ShownBefore(Entry(d), kept.signData, shown \union {page})
      BY <2>2, <2>3, <3>1, <3>3 DEF ShownBefore
    <3>5. Turn(d, kept, storage, {page})
      BY <2>7 DEF d
    <3> QED BY Zenon, <1>1, <2>3, <2>5, <3>1, <3>4, <3>5, MessageOnward
  <2>8. CASE Turn(ToWith("SeedSignMessageConfirmMessageView", [page |-> PageNumber + 1]), kept, storage, {page})
    <3> DEFINE d == ToWith("SeedSignMessageConfirmMessageView", [page |-> PageNumber + 1])
    <3>0. PageOf([page |-> PageNumber + 1]) = PageNumber + 1
      <4>1. [page |-> PageNumber + 1] \in [page : Nat]
        BY <2>1
      <4> QED BY <4>1, MessageAssumption DEF PageOf
    <3>1. /\ ~GoesBack(d) /\ ~d.skip /\ ~d.clear /\ d.cls \in MessageReview
          /\ d.cls = "SeedSignMessageConfirmMessageView" /\ Entry(d).cls = d.cls
          /\ Entry(d).args = d.args /\ PageOf(d.args) = PageNumber + 1
      BY <3>0 DEF To, ToWith, GoesBack, MessageReview, Entry
    <3> HIDE DEF d
    <3>2. \A n \in Nat : n < PageNumber + 1 => (n < PageNumber /\ PageNumber > 0) \/ n = PageNumber
      BY <2>1
    <3>3. \A n \in Nat : n < PageNumber + 1 => <<"page", paged.paged, n>> \in shown \union {page}
      BY <2>1, <2>2, <3>2
    <3>4. ShownBefore(Entry(d), kept.signData, shown \union {page})
      BY <2>1, <2>2, <2>3, <3>1, <3>3 DEF ShownBefore
    <3>5. Turn(d, kept, storage, {page})
      BY <2>8 DEF d
    <3>6. PageOf(d.args) > 0
      BY <2>1, <3>1
    <3> QED BY Zenon, <1>1, <2>3, <2>5, <3>1, <3>4, <3>5, <3>6, MessageOnward
  <2> QED BY <1>3, <2>4, <2>6, <2>7, <2>8
<1> QED BY <1>1, <1>2, <1>3 DEF SeedSignMessageConfirmMessageView

\* The address is shown for the message and the seed that are there.
LEMMA ConfirmAddressKeeps ==
  ASSUME IInv, MessageInv, SeedSignMessageConfirmAddressView PROVE MessageInv'
<1> DEFINE data == controller.signData
           address == {<<"address", data.message, data.seed>>}
           signed == To("SeedSignMessageSignedMessageQRView")
<1>1. /\ view.cls = "SeedSignMessageConfirmAddressView" /\ view.cls \in MessageReview
      /\ MessageHasPlace(controller)
  BY Zenon, MessageTemps DEF SeedSignMessageConfirmAddressView, At, MessageReview
<1>2. \/ Raise
      \/ Turn(Back, controller, storage, address)
      \/ data.message # None /\ data.seed # None /\ Turn(signed, controller, storage, address)
  BY DEF SeedSignMessageConfirmAddressView
<1>3. /\ ~GoesBack(signed) /\ ~signed.skip /\ ~signed.clear /\ signed.cls \in MessageReview
      /\ signed.cls = "SeedSignMessageSignedMessageQRView" /\ Entry(signed).cls = signed.cls
  BY DEF To, GoesBack, MessageReview, Entry
<1>4. /\ data.paged # None
      /\ \A n \in 0..(data.paged.pages - 1) : <<"page", data.paged, n>> \in shown
  BY <1>1, ViewIsShown DEF ShownBefore
<1> HIDE DEF signed
<1>5. CASE Raise
  BY Zenon, <1>1, <1>5, MessageTurn, ViewIsShown
     DEF Raise, RaiseError, Go, ToWith, To, Clearing, GoesBack, MessageReview
<1>6. CASE Turn(Back, controller, storage, address)
  BY <1>1, <1>6, MessageBack
<1>7. CASE data.message # None /\ data.seed # None /\ Turn(signed, controller, storage, address)
  <2>1. ShownBefore(Entry(signed), data, shown \union address)
    BY <1>3, <1>4, <1>7 DEF ShownBefore
  <2>2. \A e : ShownBefore(e, data, shown) => ShownBefore(e, data, shown \union address)
    BY DEF ShownBefore
  <2> HIDE DEF data, address
  <2> QED BY Zenon, <1>1, <1>3, <1>7, <2>1, <2>2, MessageOnward DEF data
<1> QED BY <1>2, <1>5, <1>6, <1>7

LEMMA MessageViewsKeepTheMessage ==
  ASSUME IInv, MessageInv, MessageViews PROVE MessageInv'
<1> USE MessageTemps
<1>1. CASE ScanMessage
  BY Zenon, <1>1, MessageTurn
     DEF ScanMessage, Go, Scanned, Scanners, ScannerFor, To, ToWith, Back, Skipping, Clearing,
         GoesBack, MessageReview
<1>2. CASE SeedSignMessageStartView
  <2>1. view.cls \notin MessageReview /\ view.cls # "MainMenuView"
    BY Zenon, <1>2 DEF SeedSignMessageStartView, At, MessageReview
  <2>2. MessageHasPlace([controller EXCEPT !.signData = [Collected EXCEPT !.message = view.args]])
    <3>1. "paged" \in DOMAIN Collected /\ "signData" \in DOMAIN controller
      BY DEF Collected, NoMessage, MessageHasPlace
    <3> QED BY <3>1 DEF MessageHasPlace
  <2> QED BY Zenon, <1>2, <2>1, <2>2, MessageTurn
     DEF SeedSignMessageStartView, GoWith, To, ToWith, Skipping, GoesBack, MessageReview
<1>3. CASE SeedSignMessageSignedMessageQRView
  <2>1. view.cls # "MainMenuView"
    BY Zenon, <1>3 DEF SeedSignMessageSignedMessageQRView, At
  <2>2. Target(Skipping(To("MainMenuView"))) = Home
    BY Zenon DEF Target, Skipping, To, GoesBack, Home, Entry
  <2> QED BY Zenon, <1>3, <2>1, <2>2, MessageTurn
     DEF SeedSignMessageSignedMessageQRView, GoWith, To, Skipping, GoesBack, MessageReview
<1> QED BY Zenon, <1>1, <1>2, <1>3, ConfirmMessageKeeps, ConfirmAddressKeeps DEF MessageViews

LEMMA ExplorerViewsOutsideTheMessage ==
  ASSUME IInv, MessageInv, ExplorerViews PROVE MessageInv'
<1> USE MessageTemps DEF MessageReview
<1>1. CASE SeedExportXpubSigTypeView
  BY Zenon, <1>1, MessageTurn
     DEF SeedExportXpubSigTypeView, At, Go, ChooseWith, To, ToWith, Back, Skipping,
         Clearing, GoesBack
<1>2. CASE SeedExportXpubScriptTypeView
  BY Zenon, <1>2, MessageTurn
     DEF SeedExportXpubScriptTypeView, At, Go, BackFromExplorer, GoWith, ChooseWith,
         AfterScriptType, To, ToWith, Back, Skipping, Clearing, GoesBack
<1>3. CASE SeedExportXpubCustomDerivationView
  BY Zenon, <1>3, MessageTurn
     DEF SeedExportXpubCustomDerivationView, At, Go, AfterScriptType, To, ToWith,
         Back, Skipping, Clearing, GoesBack
<1>4. CASE ExportXpub
  BY Zenon, <1>4, MessageTurn
     DEF ExportXpub, At, Go, ChooseWith, ChooseSkipping, To, ToWith, Back, Skipping,
         Clearing, GoesBack
<1>5. CASE ToolsAddressExplorerSelectSourceView
  BY Zenon, <1>5, MessageTurn
     DEF ToolsAddressExplorerSelectSourceView, At, Go, GoWith, ChooseLeaving,
         LoadASeed, To, ToWith, Back, Skipping, Clearing, GoesBack
<1>6. CASE ToolsAddressExplorerAddressTypeView
  BY Zenon, <1>6, MessageTurn
     DEF ToolsAddressExplorerAddressTypeView, At, GoWith, To, ToWith, Back, GoesBack
<1>7. CASE ToolsAddressExplorerAddressListView
  BY Zenon, <1>7, MessageTurn
     DEF ToolsAddressExplorerAddressListView, At, Raise, RaiseError, Go, ChooseWith,
         ChooseSkipping, To, ToWith, Back, Skipping, Clearing, GoesBack
<1>8. CASE ToolsAddressExplorerAddressView
  BY Zenon, <1>8, MessageTurn
     DEF ToolsAddressExplorerAddressView, At, Go, To, ToWith, Skipping, GoesBack
<1> QED BY Zenon, <1>1, <1>2, <1>3, <1>4, <1>5, <1>6, <1>7, <1>8 DEF ExplorerViews

LEMMA MessageSpec == Spec => [](IInv /\ MessageInv)
<1>1. Init => MessageInv
  <2>1. Len(<< >>) = 0
    OBVIOUS
  <2> QED BY <2>1 DEF Init, MessageInv, MessageHasPlace, FreshController, Places
<1>2. ASSUME IInv, MessageInv, [Next]_vars PROVE MessageInv'
  <2>1. ASSUME UNCHANGED <<view, backStack, controller, shown>> PROVE MessageInv'
    <3>1. Places' = Places /\ backStack' = backStack /\ controller' = controller /\ shown' = shown
      BY <2>1 DEF Places
    <3> QED BY <1>2, <3>1 DEF MessageInv
  <2>2. CASE Views
    BY <1>2, <2>2, SharedViewsOutsideTheMessage, SeedViewsOutsideTheMessage,
       NewSeedViewsOutsideTheMessage, WordsViewsOutsideTheMessage,
       SeedQRViewsOutsideTheMessage, VerificationViewsOutsideTheMessage,
       ExplorerViewsOutsideTheMessage, PsbtViewsOutsideTheMessage, MessageViewsKeepTheMessage DEF Views
  <2> QED BY <1>2, <2>1, <2>2 DEF Next, UserWantsOut, vars
<1> QED BY <1>1, <1>2, InitIInv, NextIInv, PTL DEF Spec

\* A signed message is on the screen only when every page of the text that was paged
\* and the address for the seed that signs have been on it before, wherever BACK and
\* errors led on the way (SeedSignMessageConfirmMessageView and its screen).
THEOREM PagesTheorem == Spec => []PagesAndAddressAreShown
<1>1. IInv /\ MessageInv => PagesAndAddressAreShown
  BY ViewIsShown DEF PagesAndAddressAreShown, ShownBefore, MessageReview
<1> QED BY <1>1, MessageSpec, PTL
=============================================================================
