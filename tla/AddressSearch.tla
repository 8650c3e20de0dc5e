---------------------------- MODULE AddressSearch ----------------------------
(***************************************************************************)
(* The search for the index of an address, on the display: the thread that *)
(* derives addresses, the screen that shows how far it is with a thread of *)
(* its own, and the View that waits for both (SeedAddressVerificationView  *)
(* of views/seed_views.py, SeedAddressVerificationScreen of                *)
(* gui/screens/seed_screens.py).                                           *)
(***************************************************************************)
EXTENDS Display

CONSTANTS
  MaxIndex,   \* bound: the search goes no further
  Targets,    \* where the address may be; beyond MaxIndex it is never found
  SkipStep,   \* 10 in the code
  NoIndex     \* None

ASSUME SearchAssumption ==
  /\ MaxIndex \in Nat /\ SkipStep \in Nat \ {0} /\ NoIndex \notin Nat
  /\ Targets \subseteq [index : 0 .. MaxIndex + 1, change : BOOLEAN]

VARIABLES
  target,    \* where the address really is
  search,    \* the place of the search thread: "off", "reads", "compares", "found", "counts"
  keepSearch,\* its keep_running
  at,        \* its i
  counter,   \* threadsafe_counter
  verified,  \* verified_index
  isChange,  \* verified_index_is_change
  report,    \* controller.unverified_address["verified_index"] and ["..._is_change"]
  checked,   \* history: the indexes that were compared
  skips      \* history: how often Skip 10 was chosen

searchVars == <<target, search, keepSearch, at, counter, verified, isChange, report, checked, skips>>
vars == <<displayVars, searchVars>>

NoTarget == [index |-> MaxIndex + 1, change |-> FALSE]
NoReport == [index |-> NoIndex, change |-> FALSE]

Init ==
  /\ DisplayInit
  /\ target = NoTarget
  /\ search = "off" /\ keepSearch = FALSE /\ at = 0
  /\ counter = 0 /\ verified = NoIndex /\ isChange = NoIndex
  /\ report = NoReport /\ checked = {} /\ skips = 0

SearchIsOver == search = "off" /\ ~keepSearch

-----------------------------------------------------------------------------
(* BruteForceAddressVerificationThread.run *)

StopsSearching ==
  /\ search = "reads" /\ ~keepSearch
  /\ search' = "off"
  /\ UNCHANGED <<displayVars, target, keepSearch, at, counter, verified, isChange, report, checked, skips>>

ReadsCounter ==
  /\ search = "reads" /\ keepSearch /\ counter <= MaxIndex
  /\ search' = "compares" /\ at' = counter
  /\ UNCHANGED <<displayVars, target, keepSearch, counter, verified, isChange, report, checked, skips>>

\* The index is published before the kind of the address is.
Compares ==
  /\ search = "compares"
  /\ checked' = checked \union {at}
  /\ IF at = target.index THEN search' = "found" /\ verified' = at
     ELSE search' = "counts" /\ UNCHANGED verified
  /\ UNCHANGED <<displayVars, target, keepSearch, at, counter, isChange, report, skips>>

PublishesKind ==
  /\ search = "found"
  /\ isChange' = IF target.change THEN 1 ELSE 0
  /\ keepSearch' = FALSE /\ search' = "off"
  /\ UNCHANGED <<displayVars, target, at, counter, verified, report, checked, skips>>

\* Mutant: the counter is set from what was read.
Counts_FromWhatWasRead ==
  /\ search = "counts"
  /\ counter' = at + 1 /\ search' = "reads"
  /\ UNCHANGED <<displayVars, target, keepSearch, at, verified, isChange, report, checked, skips>>

Counts ==
  /\ search = "counts"
  /\ counter' = counter + 1 /\ search' = "reads"
  /\ UNCHANGED <<displayVars, target, keepSearch, at, verified, isChange, report, checked, skips>>

-----------------------------------------------------------------------------
(* The screen: ProgressThread.run and _run_callback. *)

IsFound == verified # NoIndex

\* The thread breaks the screen out of its wait, once, and ends.
BreaksIntoWait ==
  /\ worker = "runs" /\ keepWorker /\ screen = "search" /\ IsFound
  /\ override' = TRUE
  /\ worker' = "off"
  /\ UNCHANGED <<lock, canvas, screen, main, keepWorker, down, saver, toast, current, activates, crossed, searchVars>>

WorkerGoesOn == WorkerLoops /\ (screen = "search" /\ keepWorker => ~IsFound) /\ UNCHANGED searchVars

CallbackReturns ==
  /\ screen = "search" /\ IsFound
  /\ Goes("callback", "leaving")
  /\ UNCHANGED <<lock, canvas, screen, worker, keepWorker, down, override, saver, toast, current, activates, crossed, searchVars>>

CallbackGoesOn == CallbackPasses /\ (screen = "search" => ~IsFound) /\ UNCHANGED searchVars

-----------------------------------------------------------------------------
(* SeedAddressVerificationView.run, between its screens. *)

\* The View starts the thread, then shows its screen.
StartsSearch ==
  /\ NextScreen /\ screen' = "search"
  /\ screen # "search"
  /\ target' \in Targets
  /\ search' = "reads" /\ keepSearch' = TRUE
  /\ UNCHANGED <<at, counter, verified, isChange, report, checked, skips>>

\* The View waits for the thread to end, and is gone with its counters.
OtherScreen ==
  /\ NextScreen /\ screen' # "search"
  /\ screen = "search" => SearchIsOver
  /\ target' = NoTarget /\ at' = 0 /\ counter' = 0 /\ verified' = NoIndex /\ isChange' = NoIndex
  /\ report' = NoReport /\ checked' = {} /\ skips' = 0
  /\ UNCHANGED <<search, keepSearch>>

\* What the user chose is not asked for once there is a result.
Skips ==
  /\ screen = "search" /\ ~IsFound /\ keepSearch
  /\ NextScreen /\ screen' = screen
  /\ counter + SkipStep <= MaxIndex + 1
  /\ counter' = counter + SkipStep /\ skips' = skips + 1
  /\ UNCHANGED <<target, search, keepSearch, at, verified, isChange, report, checked>>

Cancels ==
  /\ screen = "search" /\ main = "between" /\ ~IsFound /\ keepSearch
  /\ keepSearch' = FALSE
  /\ UNCHANGED <<displayVars, target, search, at, counter, verified, isChange, report, checked, skips>>

\* Mutant: the index is where the search has come to.
Reports_TheCounter ==
  /\ screen = "search" /\ main = "between" /\ IsFound /\ report = NoReport
  /\ report' = [index |-> counter, change |-> isChange = 1]
  /\ keepSearch' = FALSE
  /\ UNCHANGED <<displayVars, target, search, at, counter, verified, isChange, checked, skips>>

\* The thread may not have published the kind yet; None is no change.
Reports ==
  /\ screen = "search" /\ main = "between" /\ IsFound /\ report = NoReport
  /\ report' = [index |-> verified, change |-> isChange = 1]
  /\ keepSearch' = FALSE
  /\ UNCHANGED <<displayVars, target, search, at, counter, verified, isChange, checked, skips>>

-----------------------------------------------------------------------------
MainTakesLock == (MainWantsToRender \/ MainWantsToRedraw \/ SaverTakesLock) /\ UNCHANGED searchVars

MainGoesOn ==
  \/ NoTipToShow \/ Renders \/ EntersWait \/ WakesUp \/ KeyPressed
  \/ Redraws \/ RedrawsNothing \/ Selects \/ StopsThreads \/ JoinsThreads
  \/ StartsScreensaver \/ CopiesScreen \/ SaverEnds

View == StartsSearch \/ OtherScreen \/ Skips \/ Cancels \/ Reports
Searches == StopsSearching \/ ReadsCounter \/ Compares \/ PublishesKind \/ Counts
Activates(a) == \E t \in Toasts : ActivatorSteps(a, t)

Next ==
  \/ MainTakesLock
  \/ MainGoesOn /\ UNCHANGED searchVars
  \/ CallbackReturns \/ CallbackGoesOn
  \/ BreaksIntoWait \/ WorkerGoesOn
  \/ (WorkerTakesLock \/ WorkerDraws) /\ UNCHANGED searchVars
  \/ PressOrRelease /\ UNCHANGED searchVars
  \/ \E t \in Toasts : ToastSteps(t) /\ UNCHANGED searchVars
  \/ \E a \in Activators : Activates(a) /\ UNCHANGED searchVars
  \/ View \/ Searches

\* Every thread goes on by itself.  Nobody is kept from a lock for ever that
\* becomes free again and again.
Fairness ==
  /\ SF_vars(MainTakesLock)
  /\ WF_vars((MainGoesOn /\ UNCHANGED searchVars) \/ CallbackReturns \/ CallbackGoesOn \/ View)
  /\ WF_vars(BreaksIntoWait \/ WorkerGoesOn \/ ((WorkerTakesLock \/ WorkerDraws) /\ UNCHANGED searchVars))
  /\ \A t \in Toasts : WF_vars(ToastSteps(t) /\ UNCHANGED searchVars)
  /\ \A a \in Activators : WF_vars(Activates(a) /\ UNCHANGED searchVars)
  /\ WF_vars(Searches)

Spec == Init /\ [][Next]_vars /\ Fairness

TypeOK ==
  /\ DisplayTypeOK
  /\ search \in {"off", "reads", "compares", "found", "counts"} /\ keepSearch \in BOOLEAN
  /\ at \in Nat /\ counter \in Nat /\ skips \in Nat /\ checked \subseteq Nat
  /\ verified \in Nat \union {NoIndex} /\ isChange \in {0, 1, NoIndex}

-----------------------------------------------------------------------------
(* Properties. *)

\* The main thread is never kept from drawing, from its screensaver or from
\* leaving a screen for ever, whatever toasts and background threads do.
MainIsNotShutOut ==
  main \in {"render", "redraw", "saverWants", "joining"} ~> main \in {"drawing", "redrawing", "saving", "between"}

\* What breaks into the wait for a button while the screensaver runs, or is about
\* to, ends it: a toast that was made, an address that was found.
NewsEndsTheSaver ==
  main \in {"copying", "saverWants", "saving"} /\ override ~> main = "waiting"

\* Skipping ahead while the search thread works passes over no more addresses
\* than were skipped, and none is skipped twice or compared in vain.
SearchPassesNoAddress ==
  search = "reads" =>
    /\ counter = Cardinality(checked) + SkipStep * skips
    /\ skips = 0 /\ target.index < counter => IsFound

\* What is reported is where the address is, whenever the View asks; as change
\* only an address that is.  (That it is change may be missed.)
ReportIsOfTheAddress ==
  report # NoReport => report.index = target.index /\ (report.change => target.change)
=============================================================================
