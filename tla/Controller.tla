----------------------------- MODULE Controller -----------------------------
(***************************************************************************)
(* The Controller's main loop (controller.py) and the Views every flow     *)
(* shares (views/view.py).  One step is one turn of the loop: a View is    *)
(* instantiated and run, the user answers its screen, and the Destination  *)
(* it returns is worked into the back stack.                               *)
(*                                                                         *)
(* A Destination is its View's name and arguments, and the two flags the   *)
(* loop looks at.  What the back stack holds are names and arguments: the  *)
(* flags have had their effect by the time a Destination is pushed.        *)
(***************************************************************************)
EXTENDS Naturals, Sequences, SequencesExt

CONSTANTS
  None,       \* Python's None, and a View without arguments
  Errands     \* bounds: what users have come for, records of the Views they may
              \* choose to go on to (views), how many Views deep (depth), and
              \* what they have at hand to scan other than seeds (scans)

ASSUME ControllerAssumption == \A e \in Errands : e.depth \in Nat \ {0}

VARIABLES
  view,        \* the View being run
  backStack,   \* back_stack, the running View on top
  controller,  \* the attributes of the Controller that outlive a View
  storage,     \* storage: the seeds, and the one being loaded
  shown,       \* history: what the screens have displayed since Home
  leaving,     \* the user's mind: TRUE when every answer is meant to get out
  errand       \* the user's errand, one for a behaviour

vars == <<view, backStack, controller, storage, shown, leaving, errand>>

-----------------------------------------------------------------------------
(* Destinations. *)

To(cls)            == [cls |-> cls, args |-> None, skip |-> FALSE, clear |-> FALSE]
ToWith(cls, args)  == [To(cls) EXCEPT !.args = args]
Skipping(d)        == [d EXCEPT !.skip = TRUE]
Clearing(d)        == [d EXCEPT !.clear = TRUE]
Back               == To("BackStackView")

Entry(d) == [cls |-> d.cls, args |-> d.args]
Home     == Entry(To("MainMenuView"))

\* The attributes as __init__ finds them; the names without an underscore are
\* the code's, shortened.
FreshController ==
  [resume       |-> None,   \* resume_main_flow
   psbt         |-> None,
   parser       |-> None,   \* psbt_parser: the transaction and seed it parsed
   psbtSeed     |-> None,
   descriptor   |-> None,   \* multisig_wallet_descriptor
   unverified   |-> None,   \* unverified_address
   explorer     |-> None,   \* address_explorer_data
   signData     |-> None]   \* sign_message_data

FreshStorage ==
  [seeds |-> {}, pendingSeed |-> None, pendingMnemonic |-> << >>, isElectrum |-> FALSE]

\* What Home clears; sign_message_data and the storage are not among it.
Wiped(temps) == [FreshController EXCEPT !.signData = temps.signData]

-----------------------------------------------------------------------------
(* The second half of a turn: what becomes of the returned Destination. *)

\* skip_current_view: the current View forwards, so it leaves the stack.
AfterSkip(d) == IF d.skip THEN Front(backStack) ELSE backStack

\* pop_prev_from_back_stack: the current View and the one before it.
PreviousIn(stack) == IF Len(stack) < 2 THEN Home ELSE stack[Len(stack) - 1]
Popped(stack)     == IF Len(stack) < 2 THEN << >> ELSE SubSeq(stack, 1, Len(stack) - 2)

GoesBack(d) == d.cls = "BackStackView"
Target(d)   == IF GoesBack(d) THEN PreviousIn(AfterSkip(d)) ELSE Entry(d)

Remaining(d) ==
  IF d.clear THEN << >> ELSE IF GoesBack(d) THEN Popped(AfterSkip(d)) ELSE AfterSkip(d)

\* Equality of Destinations ignores the flags.  A View that has run had its
\* missing arguments replaced by {}, so a new Destination without arguments
\* equals none that is on the stack.
IsOnTop(d) ==
  /\ Remaining(d) # << >>
  /\ Last(Remaining(d)).cls = Target(d).cls
  /\ Last(Remaining(d)).args = Target(d).args
  /\ GoesBack(d) \/ Target(d).args # None

\* Mutant: what was popped is not put back.
Pushed_PoppedStaysOff(d) ==
  IF IsOnTop(d) \/ GoesBack(d) THEN Remaining(d) ELSE Append(Remaining(d), Target(d))

Pushed(d) == IF IsOnTop(d) THEN Remaining(d) ELSE Append(Remaining(d), Target(d))

\* One turn: the View leaves these temps and this storage behind, has displayed
\* these items, and returned d.  Home wipes the stack and its temps before it runs.
Turn(d, temps, stored, displayed) ==
  /\ view' = Target(d)
  /\ storage' = stored
  /\ UNCHANGED errand
  /\ IF Target(d) = Home
     THEN /\ backStack' = << >> /\ controller' = Wiped(temps)
          /\ shown' = {} /\ leaving' = FALSE
     ELSE /\ backStack' = Pushed(d) /\ controller' = temps
          /\ shown' = shown \union displayed /\ UNCHANGED leaving

Go(d)              == Turn(d, controller, storage, {})
GoWith(d, temps)   == Turn(d, temps, storage, {})
GoStoring(d, st)   == Turn(d, controller, st, {})

\* handle_exception: whatever a View raises ends on the error screen.
RaiseError(error) == Go(Clearing(ToWith("UnhandledExceptionView", [error |-> error])))
Raise             == RaiseError("exception")

At(cls) == view.cls = cls

\* A choice that leads further into a flow, where the screen offers a way out.
Onward(cls) == ~leaving /\ Len(backStack) < errand.depth /\ cls \in errand.views

Choose(cls)           == Onward(cls) /\ Go(To(cls))
ChooseWith(cls, args) == Onward(cls) /\ Go(ToWith(cls, args))
ChooseSkipping(cls, args) == Onward(cls) /\ Go(Skipping(ToWith(cls, args)))
ChooseStoring(cls, st)    == Onward(cls) /\ GoStoring(To(cls), st)
ChooseLeaving(cls, temps) == Onward(cls) /\ GoWith(To(cls), temps)

-----------------------------------------------------------------------------
(* Views every flow shares. *)

Init ==
  /\ view = Home
  /\ backStack = << >>
  /\ controller = FreshController
  /\ storage = FreshStorage
  /\ shown = {}
  /\ leaving = FALSE
  /\ errand \in Errands

MainMenuView ==
  /\ At("MainMenuView")
  /\ \E cls \in {"ScanView", "SeedsMenuView", "ToolsMenuView", "PowerOptionsView"} : Choose(cls)

PowerOptionsView ==
  /\ At("PowerOptionsView")
  /\ \/ Go(Back)
     \/ Choose("RestartView")
     \/ Choose("PowerOffView")

PowerOffView == At("PowerOffView") /\ Go(Back)

\* A new process image: "All in-memory data will be wiped."
RestartView ==
  /\ At("RestartView")
  /\ view' = Home /\ backStack' = << >> /\ shown' = {} /\ leaving' = FALSE
  /\ controller' = FreshController /\ storage' = FreshStorage
  /\ UNCHANGED errand

\* A camera error reaches the user through the screen for whatever was raised.
UnhandledExceptionView ==
  /\ At("UnhandledExceptionView")
  /\ Go(IF view.args.error = "camera" THEN Skipping(To("CameraConnectionErrorView"))
                                 ELSE Clearing(To("MainMenuView")))

\* NotYetImplementedView is the one that leaves the history to Home.
WarnAndGoHome ==
  \/ At("NotYetImplementedView") /\ Go(To("MainMenuView"))
  \/ /\ \E cls \in {"CameraConnectionErrorView", "ScanInvalidQRTypeView"} : At(cls)
     /\ Go(Clearing(To("MainMenuView")))

\* ErrorView, as ScanView uses it: acknowledged, it goes back past itself.
ErrorView == At("ErrorView") /\ Go(Skipping(Back))

SharedViews ==
  MainMenuView \/ PowerOptionsView \/ PowerOffView \/ RestartView
  \/ UnhandledExceptionView \/ WarnAndGoHome \/ ErrorView

\* At any time the user may have had enough.
UserWantsOut ==
  /\ view # Home /\ ~leaving
  /\ leaving' = TRUE
  /\ UNCHANGED <<view, backStack, controller, storage, shown, errand>>

-----------------------------------------------------------------------------
(* Properties of the loop. *)

\* The top of the back stack is the View being run, and Home's stack is empty:
\* what is_screensaver_start_allowed takes for granted, and what the pop for
\* skip_current_view, outside of the loop's try, needs in order not to raise.
TopOfStackIsRunning ==
  IF view = Home THEN backStack = << >> ELSE backStack # << >> /\ Last(backStack) = view

\* A user who takes the way out of every screen gets Home, unless it is out of an
\* Electrum mnemonic: BACK from its first word leads to a warning that has no BACK
\* and leads to the first word.
TheWayOutLeadsHome == leaving ~> view = Home \/ storage.isElectrum
=============================================================================
