------------------------- MODULE AddressSearchProofs -------------------------
(***************************************************************************)
(* The search for an address: nothing is passed over and what is reported  *)
(* is so, for any bound, any step to skip by, any address and any toasts.  *)
(* The display matters through the kind of the running screen only.        *)
(*                                                                         *)
(* Whoever draws holds the renderer's lock: one lemma for each thread, the *)
(* main thread and its screensaver, the screen's background thread, the    *)
(* threads that start a toast, the toasts.                                 *)
(***************************************************************************)
EXTENDS AddressSearch, FiniteSetTheorems, TLAPS

SearchTypeOK ==
  /\ target \in Targets \union {NoTarget}
  /\ search \in {"off", "reads", "compares", "found", "counts"}
  /\ at \in Nat /\ counter \in Nat /\ skips \in Nat
  /\ checked \in SUBSET Nat /\ IsFiniteSet(checked)

\* Without its screen there is no search, and no trace of one.
NoSearchElsewhere ==
  screen # "search" =>
    /\ search = "off" /\ verified = NoIndex /\ isChange = NoIndex /\ report = NoReport
    /\ counter = 0 /\ checked = {} /\ skips = 0

\* What is published is where the address is; nothing is compared after that.
FindsTheTarget ==
  /\ IsFound => verified = target.index /\ search \in {"found", "off"}
  /\ isChange = 1 => target.change

\* The counter is ahead of what was compared, by the skips and no more.
Counted ==
  /\ search \in {"reads", "compares"} => counter = Cardinality(checked) + SkipStep * skips
  /\ search = "counts" => counter + 1 = Cardinality(checked) + SkipStep * skips
  /\ search = "reads" => \A i \in checked : i < counter
  /\ search = "compares" => at <= counter /\ \A i \in checked : i < at
  /\ search = "counts" => at <= counter /\ \A i \in checked : i <= at

\* Without skips all of it was compared, and the address is not there.
NothingPassed ==
  /\ search \in {"reads", "compares", "counts"} => target.index \notin checked
  /\ skips = 0 =>
       /\ search \in {"compares", "counts"} => at = counter
       /\ search \in {"reads", "compares"} => checked = 0 .. (counter - 1)
       /\ search = "counts" => checked = 0 .. counter

SearchInv ==
  SearchTypeOK /\ NoSearchElsewhere /\ FindsTheTarget /\ Counted /\ NothingPassed /\ ReportIsOfTheAddress

-----------------------------------------------------------------------------
\* Wherever an address is, it has an index.
LEMMA TargetHasIndex ==
  ASSUME SearchTypeOK PROVE target.index \in Nat
  BY SearchAssumption DEF SearchTypeOK, NoTarget

\* The display's threads do not take part in the search.
LEMMA SearchStays ==
  ASSUME SearchInv, UNCHANGED <<screen, searchVars>> PROVE SearchInv'
  BY DEF SearchInv, searchVars, SearchTypeOK, NoSearchElsewhere, FindsTheTarget, IsFound,
         Counted, NothingPassed,
    ReportIsOfTheAddress

\* The search thread.
LEMMA SearchStep ==
  ASSUME SearchInv, Searches PROVE SearchInv'
<1>1. screen' = screen /\ screen = "search"
  BY DEF Searches, StopsSearching, ReadsCounter, Compares, PublishesKind, Counts, displayVars,
         SearchInv, NoSearchElsewhere
<1>2. UNCHANGED <<target, report, skips>>
  BY DEF Searches, StopsSearching, ReadsCounter, Compares, PublishesKind, Counts
<1>3. NoSearchElsewhere' /\ ReportIsOfTheAddress'
  BY <1>1, <1>2 DEF SearchInv, NoSearchElsewhere, ReportIsOfTheAddress
<1>4. CASE StopsSearching
  BY <1>3, <1>4 DEF StopsSearching, SearchInv, SearchTypeOK, FindsTheTarget, IsFound, Counted,
         NothingPassed
<1>5. CASE ReadsCounter
  BY <1>3, <1>5
     DEF ReadsCounter, SearchInv, SearchTypeOK, FindsTheTarget, IsFound, Counted, NothingPassed
<1>6. CASE Compares
  <2>1. at \notin checked
    BY <1>6 DEF Compares, SearchInv, SearchTypeOK, Counted
  <2>2. /\ checked' = checked \union {at} /\ IsFiniteSet(checked')
        /\ Cardinality(checked') = Cardinality(checked) + 1 /\ Cardinality(checked) \in Nat
    BY <1>6, <2>1, FS_AddElement, FS_CardinalityType DEF Compares, SearchInv, SearchTypeOK
  <2>3. UNCHANGED <<at, counter, isChange>> /\ search = "compares"
    BY <1>6 DEF Compares
  <2>4. \/ at = target.index /\ search' = "found" /\ verified' = at
        \/ at # target.index /\ search' = "counts" /\ verified' = verified
    BY <1>6 DEF Compares
  <2>5. SearchTypeOK'
    BY <1>2, <2>2, <2>3, <2>4 DEF SearchInv, SearchTypeOK
  <2>6. FindsTheTarget'
    BY <1>2, <2>3, <2>4 DEF SearchInv, FindsTheTarget, IsFound
  <2>7. Counted'
    <3>1. counter = Cardinality(checked) + SkipStep * skips
      BY <2>3 DEF SearchInv, Counted
    <3>2. SkipStep * skips \in Nat
      BY SearchAssumption DEF SearchInv, SearchTypeOK
    <3>3. counter + 1 = Cardinality(checked') + SkipStep * skips
      BY <2>2, <3>1, <3>2
    <3>4. at <= counter /\ \A i \in checked' : i <= at
      BY <2>2, <2>3 DEF SearchInv, SearchTypeOK, Counted
    <3> QED BY <1>2, <2>3, <2>4, <3>3, <3>4 DEF Counted
  <2>8. NothingPassed'
    BY <1>2, <2>2, <2>3, <2>4 DEF SearchInv, SearchTypeOK, NothingPassed
  <2> QED BY <1>3, <2>5, <2>6, <2>7, <2>8 DEF SearchInv
<1>7. CASE PublishesKind
  BY <1>3, <1>7, SearchAssumption
     DEF PublishesKind, SearchInv, SearchTypeOK, FindsTheTarget, IsFound, Counted,
         NothingPassed
<1>8. CASE Counts
  BY <1>3, <1>8
     DEF Counts, SearchInv, SearchTypeOK, FindsTheTarget, IsFound, Counted, NothingPassed
<1> QED BY <1>4, <1>5, <1>6, <1>7, <1>8 DEF Searches

\* The View, between its screens.
LEMMA ViewStep ==
  ASSUME SearchInv, View PROVE SearchInv'
<1>1. CASE StartsSearch
  <2>1. /\ screen # "search" /\ screen' = "search"
        /\ target' \in Targets /\ search' = "reads"
        /\ UNCHANGED <<at, counter, verified, isChange, report, checked, skips>>
    BY <1>1 DEF StartsSearch
  <2>2. /\ verified = NoIndex /\ isChange = NoIndex /\ report = NoReport
        /\ counter = 0 /\ checked = {} /\ skips = 0
    BY <2>1 DEF SearchInv, NoSearchElsewhere
  <2>3. Cardinality({}) = 0 /\ SkipStep * 0 = 0 /\ 0 .. (0 - 1) = {}
    BY FS_EmptySet, SearchAssumption
  <2>4. isChange # 1
    BY <2>2, SearchAssumption
  <2>5. SearchTypeOK' /\ NoSearchElsewhere' /\ FindsTheTarget' /\ ReportIsOfTheAddress'
    BY <2>1, <2>2, <2>4 DEF SearchInv, SearchTypeOK, NoSearchElsewhere, FindsTheTarget, IsFound,
           ReportIsOfTheAddress
  <2>6. Counted' /\ NothingPassed'
    BY <2>1, <2>2, <2>3 DEF Counted, NothingPassed
  <2> QED BY <2>5, <2>6 DEF SearchInv
<1>2. CASE OtherScreen
  <2>1. /\ screen' # "search" /\ search' = "off" /\ target' = NoTarget
        /\ at' = 0 /\ counter' = 0 /\ verified' = NoIndex /\ isChange' = NoIndex
        /\ report' = NoReport /\ checked' = {} /\ skips' = 0
    BY <1>2 DEF OtherScreen, SearchIsOver, SearchInv, NoSearchElsewhere
  <2>2. IsFiniteSet({}) /\ NoIndex # 1
    BY FS_EmptySet, SearchAssumption
  <2> QED BY <2>1, <2>2
             DEF SearchInv, SearchTypeOK, NoSearchElsewhere, FindsTheTarget, IsFound, Counted,
                 NothingPassed,
    ReportIsOfTheAddress
<1>3. CASE Skips
  <2>1. /\ screen = "search" /\ screen' = screen
        /\ counter' = counter + SkipStep /\ skips' = skips + 1
        /\ UNCHANGED <<target, search, at, verified, isChange, report, checked>>
    BY <1>3 DEF Skips
  <2>2. counter' \in Nat /\ skips' \in Nat /\ skips' # 0 /\ counter <= counter'
    BY <2>1, SearchAssumption DEF SearchInv, SearchTypeOK
  <2>3. SkipStep * (skips + 1) = SkipStep * skips + SkipStep /\ SkipStep * skips \in Nat
    BY SearchAssumption DEF SearchInv, SearchTypeOK
  <2>4. Cardinality(checked) \in Nat
    BY FS_CardinalityType DEF SearchInv, SearchTypeOK
  <2>5. SearchTypeOK' /\ NoSearchElsewhere' /\ FindsTheTarget' /\ ReportIsOfTheAddress'
    BY <2>1, <2>2 DEF SearchInv, SearchTypeOK, NoSearchElsewhere, FindsTheTarget, IsFound,
           ReportIsOfTheAddress
  <2>6. Counted'
    BY <2>1, <2>2, <2>3, <2>4, SearchAssumption DEF SearchInv, SearchTypeOK, Counted
  <2>7. NothingPassed'
    BY <2>1, <2>2 DEF SearchInv, NothingPassed
  <2> QED BY <2>5, <2>6, <2>7 DEF SearchInv
<1>4. CASE Cancels
  BY <1>4 DEF Cancels, displayVars, SearchInv, SearchTypeOK, NoSearchElsewhere, FindsTheTarget,
         IsFound, Counted,
    NothingPassed, ReportIsOfTheAddress
<1>5. CASE Reports
  <2>1. /\ screen' = screen /\ screen = "search" /\ IsFound
        /\ report' = [index |-> verified, change |-> isChange = 1]
        /\ UNCHANGED <<target, search, at, counter, verified, isChange, checked, skips>>
    BY <1>5 DEF Reports, displayVars
  <2> QED BY <2>1
             DEF SearchInv, SearchTypeOK, NoSearchElsewhere, FindsTheTarget, IsFound, Counted,
                 NothingPassed,
    ReportIsOfTheAddress
<1> QED BY <1>1, <1>2, <1>3, <1>4, <1>5 DEF View

-----------------------------------------------------------------------------
\* At the start there is no search.
LEMMA InitSearch ==
  ASSUME Init PROVE SearchInv
<1>1. IsFiniteSet({}) /\ NoIndex # 1
  BY FS_EmptySet, SearchAssumption
<1> QED BY <1>1
           DEF Init, DisplayInit, SearchInv, SearchTypeOK, NoSearchElsewhere, FindsTheTarget,
               IsFound, Counted,
  NothingPassed, ReportIsOfTheAddress

\* Every step keeps the invariant.
LEMMA NextSearch ==
  ASSUME SearchInv, [Next]_vars PROVE SearchInv'
<1>1. ASSUME UNCHANGED searchVars, MainTakesLock \/ MainGoesOn \/ WorkerTakesLock \/ WorkerDraws \/ PressOrRelease
      PROVE  SearchInv'
  BY <1>1, SearchStays
     DEF MainTakesLock, MainWantsToRender, MainWantsToRedraw, SaverTakesLock, MainGoesOn,
         NoTipToShow,
    Renders, EntersWait, WakesUp, KeyPressed, Redraws, RedrawsNothing, Selects, StopsThreads, JoinsThreads,
    StartsScreensaver, CopiesScreen, SaverEnds, WorkerTakesLock, WorkerDraws, PressOrRelease
<1>2. CASE CallbackReturns \/ CallbackGoesOn \/ BreaksIntoWait \/ WorkerGoesOn
  BY <1>2, SearchStays
     DEF CallbackReturns, CallbackGoesOn, CallbackPasses, BreaksIntoWait, WorkerGoesOn,
         WorkerLoops
<1>3. ASSUME NEW t \in Toasts, UNCHANGED searchVars, ToastSteps(t) PROVE SearchInv'
  BY <1>3, SearchStays
     DEF ToastSteps, DelayIsOver, ToastTakesLock, ToastEnds, Yields, SeesLockTaken, ShowsToast,
         Resumes
<1>4. ASSUME NEW a \in Activators, UNCHANGED searchVars, Activates(a) PROVE SearchInv'
  BY <1>4, SearchStays
     DEF Activates, ActivatorSteps, MakesToast, StopsSaver, StopsPrevious, NotesToast, StartsToast,
         FailsToStart
<1>5. CASE UNCHANGED vars
  BY <1>5, SearchStays DEF vars, displayVars
<1>6. CASE View \/ Searches
  BY <1>6, ViewStep, SearchStep
<1>7. CASE Next
  <2>1. MainTakesLock => UNCHANGED searchVars
    BY DEF MainTakesLock
  <2> QED BY <1>1, <1>2, <1>3, <1>4, <1>6, <1>7, <2>1 DEF Next
<1> QED BY <1>5, <1>7

\* The counters of the search and of Skip 10 agree whatever their threads do in
\* between (ThreadsafeCounter; BruteForceAddressVerificationThread.run).
THEOREM NoAddressIsPassed == Spec => []SearchPassesNoAddress
<1>1. Init => SearchInv
  BY InitSearch
<1>2. SearchInv /\ [Next]_vars => SearchInv'
  BY NextSearch
<1>3. SearchInv => SearchPassesNoAddress
  BY TargetHasIndex DEF SearchInv, SearchTypeOK, Counted, NothingPassed, SearchPassesNoAddress
<1> QED BY <1>1, <1>2, <1>3, PTL DEF Spec

\* The View reports the index the address has, and as change only what is change,
\* however little of its find the thread has published (SeedAddressVerificationView.run).
THEOREM ReportIsRight == Spec => []ReportIsOfTheAddress
<1>1. Init => SearchInv
  BY InitSearch
<1>2. SearchInv /\ [Next]_vars => SearchInv'
  BY NextSearch
<1>3. SearchInv => ReportIsOfTheAddress
  BY DEF SearchInv
<1> QED BY <1>1, <1>2, <1>3, PTL DEF Spec

-----------------------------------------------------------------------------
(* The renderer's lock. *)

ImageType == [fresh : BOOLEAN, over : Toasts \union {NoToast}]
ToastType == [at : ToastPlaces, keep : BOOLEAN, toggle : BOOLEAN, rendered : BOOLEAN, previous : ImageType]
ActivationType == [t : Toasts \union {NoToast}, at : {"idle", "made", "stops", "starts", "noted", "failed"}]

TypeInv ==
  /\ DisplayTypeOK
  /\ saver \in [running : BOOLEAN, last : ImageType]
  /\ toast \in [Toasts -> ToastType]
  /\ activates \in [Activators -> ActivationType]

\* Who is about to start the toast that is noted finds one there, if not its own;
\* the main thread starts one before its first screen only.
StartsInOrder ==
  /\ \A a \in Activators : activates[a].at = "noted" => current \in Toasts
  /\ activates["main"].at \notin {"idle", "failed"} => main = "boot"

IInv == TypeInv /\ StartsInOrder /\ LockIsHeldByTheDrawer

-----------------------------------------------------------------------------
\* What a step of any other thread may do to the toasts, as far as their places go.
PlacesStay ==
  /\ toast' \in [Toasts -> ToastType]
  /\ \A t \in Toasts : toast'[t].at = toast[t].at

\* Old copies do not move the toasts.
LEMMA StaleCopiesMoveNothing ==
  ASSUME TypeInv, StaleCopies PROVE PlacesStay
<1> SUFFICES ASSUME NEW t \in Toasts PROVE toast'[t] \in ToastType /\ toast'[t].at = toast[t].at
  BY DEF PlacesStay, StaleCopies
<1>1. toast[t] \in ToastType
  BY DEF TypeInv
<1>2. Stale(toast[t].previous) \in ImageType
  BY <1>1 DEF Stale, ToastType, ImageType
<1>3. toast'[t] = IF toast[t].rendered THEN [toast[t] EXCEPT !.previous = Stale(toast[t].previous)] ELSE toast[t]
  BY DEF StaleCopies
<1> QED BY <1>1, <1>2, <1>3 DEF ToastType

\* Nor does a note in one of them.
LEMMA NotesMoveNothing ==
  ASSUME TypeInv, NEW t \in Toasts, NEW b \in BOOLEAN,
         \/ toast' = [toast EXCEPT ![t].toggle = b]
         \/ toast' = [toast EXCEPT ![t].keep = b]
         \/ UNCHANGED toast
  PROVE  PlacesStay
  BY DEF TypeInv, PlacesStay, ToastType

-----------------------------------------------------------------------------
(* The main thread. *)

\* The steps that leave the toasts where they are, and do not lock.
LEMMA MainKeepsLock ==
  ASSUME IInv,
         \/ NoTipToShow \/ CallbackPasses \/ CallbackReturns \/ EntersWait \/ WakesUp \/ KeyPressed
         \/ StopsThreads \/ JoinsThreads \/ NextScreen \/ StartsScreensaver \/ CopiesScreen
  PROVE  IInv'
<1>1. PlacesStay
  <2>1. CASE StartsScreensaver
    <3>1. CASE current # NoToast /\ Alive(current)
      <4>1. current \in Toasts
        BY <3>1 DEF IInv, TypeInv, DisplayTypeOK
      <4>2. toast' = [toast EXCEPT ![current].toggle = TRUE]
        BY <2>1, <3>1 DEF StartsScreensaver
      <4> QED BY <4>1, <4>2, NotesMoveNothing DEF IInv
    <3>2. CASE ~(current # NoToast /\ Alive(current))
      BY <2>1, <3>2 DEF StartsScreensaver, IInv, TypeInv, PlacesStay
    <3> QED BY <3>1, <3>2
  <2>2. CASE ~StartsScreensaver
    BY <2>2 DEF NoTipToShow, CallbackPasses, CallbackReturns, EntersWait, WakesUp, KeyPressed,
      StopsThreads, JoinsThreads, NextScreen, CopiesScreen, IInv, TypeInv, PlacesStay
  <2> QED BY <2>1, <2>2
<1>2. /\ UNCHANGED <<lock, canvas, worker, down, current, activates>>
      /\ screen' \in Kinds /\ keepWorker' \in BOOLEAN /\ override' \in BOOLEAN /\ crossed' \in BOOLEAN
  BY DisplayAssumption
     DEF NoTipToShow, CallbackPasses, CallbackReturns, EntersWait, WakesUp, KeyPressed,
         StopsThreads,
    JoinsThreads, NextScreen, StartsScreensaver, CopiesScreen, IInv, TypeInv, DisplayTypeOK
<1>3. /\ main \notin {"drawing", "redrawing", "saving"}
      /\ main' \in MainPlaces \ {"boot", "drawing", "redrawing", "saving"}
      /\ main = "boot" => activates["main"] = Idle
  BY DEF NoTipToShow, CallbackPasses, CallbackReturns, EntersWait, WakesUp, KeyPressed,
         StopsThreads, JoinsThreads,
    NextScreen, StartsScreensaver, CopiesScreen, Goes, MainPlaces
<1>4. saver' \in [running : BOOLEAN, last : ImageType]
  <2>1. CASE CopiesScreen
    BY <2>1 DEF CopiesScreen, IInv, TypeInv, DisplayTypeOK, ImageType
  <2>2. CASE ~CopiesScreen
    BY <2>2 DEF NoTipToShow, CallbackPasses, CallbackReturns, EntersWait, WakesUp, KeyPressed,
           StopsThreads, JoinsThreads,
      NextScreen, StartsScreensaver, IInv, TypeInv
  <2> QED BY <2>1, <2>2
<1>5. TypeInv'
  BY <1>1, <1>2, <1>3, <1>4 DEF IInv, TypeInv, DisplayTypeOK, PlacesStay, ToastType
<1>6. StartsInOrder'
  BY <1>1, <1>2, <1>3 DEF IInv, StartsInOrder, PlacesStay, Idle
<1>7. LockIsHeldByTheDrawer'
  BY <1>1, <1>2, <1>3 DEF IInv, LockIsHeldByTheDrawer, PlacesStay, Holds
<1> QED BY <1>5, <1>6, <1>7 DEF IInv

\* The steps that lock.
LEMMA MainLocks ==
  ASSUME IInv, MainWantsToRender \/ MainWantsToRedraw \/ SaverTakesLock PROVE IInv'
<1>1. /\ lock = "free" /\ lock' = "main"
      /\ main \notin {"boot"} /\ main' \in {"drawing", "redrawing", "saving"}
      /\ UNCHANGED <<canvas, screen, worker, keepWorker, down, override, saver, toast, current,
                     activates, crossed>>
  BY DEF MainWantsToRender, MainWantsToRedraw, SaverTakesLock, Goes, TakesLock
<1>2. TypeInv'
  BY <1>1 DEF IInv, TypeInv, DisplayTypeOK, MainPlaces
<1>3. StartsInOrder'
  BY <1>1 DEF IInv, StartsInOrder
<1>4. LockIsHeldByTheDrawer'
  BY <1>1, DisplayAssumption DEF IInv, TypeInv, DisplayTypeOK, LockIsHeldByTheDrawer, Holds
<1> QED BY <1>2, <1>3, <1>4 DEF IInv

\* The steps that draw, or restore, and unlock.
LEMMA MainUnlocks ==
  ASSUME IInv, Renders \/ Redraws \/ RedrawsNothing \/ Selects \/ SaverEnds PROVE IInv'
<1>1. PlacesStay
  <2>1. CASE Renders \/ Redraws
    BY <2>1, StaleCopiesMoveNothing DEF Renders, Redraws, IInv
  <2>2. CASE RedrawsNothing \/ Selects \/ SaverEnds
    BY <2>2 DEF RedrawsNothing, Selects, SaverEnds, IInv, TypeInv, PlacesStay
  <2> QED BY <2>1, <2>2
<1>2. /\ lock' = "free" /\ UNCHANGED <<screen, down, override, current, activates>>
      /\ main \in {"drawing", "redrawing", "saving"} /\ main' \in {"callback", "leaving", "waiting"}
  BY DEF Renders, Redraws, RedrawsNothing, Selects, SaverEnds, Goes
<1>3. lock = "main"
  BY <1>2 DEF IInv, LockIsHeldByTheDrawer
<1>4. worker # "draws" /\ worker' \in {"off", "runs", "wants"} /\ keepWorker' \in BOOLEAN /\ crossed' \in BOOLEAN
  BY <1>3
     DEF Renders, Redraws, RedrawsNothing, Selects, SaverEnds, IInv, TypeInv, DisplayTypeOK,
         LockIsHeldByTheDrawer
<1>5. canvas' \in ImageType /\ saver' \in [running : BOOLEAN, last : ImageType]
  <2>1. CASE Renders
    BY <2>1 DEF Renders, Clean, Image, ImageType, IInv, TypeInv
  <2>2. CASE SaverEnds
    BY <2>2 DEF SaverEnds, Clean, Image, ImageType, IInv, TypeInv
  <2>3. CASE Redraws \/ RedrawsNothing \/ Selects
    BY <2>3 DEF Redraws, RedrawsNothing, Selects, ImageType, IInv, TypeInv, DisplayTypeOK
  <2> QED BY <2>1, <2>2, <2>3
<1>6. TypeInv'
  BY <1>1, <1>2, <1>4, <1>5
     DEF IInv, TypeInv, DisplayTypeOK, PlacesStay, ToastType, MainPlaces, ImageType
<1>7. StartsInOrder'
  BY <1>1, <1>2 DEF IInv, StartsInOrder, PlacesStay
<1>8. LockIsHeldByTheDrawer'
  BY <1>1, <1>2, <1>3, <1>4, DisplayAssumption
     DEF IInv, LockIsHeldByTheDrawer, PlacesStay, Holds
<1> QED BY <1>6, <1>7, <1>8 DEF IInv

-----------------------------------------------------------------------------
(* The background thread of a screen, the user. *)

\* It locks, draws and unlocks, and ends.
LEMMA WorkerStep ==
  ASSUME IInv, WorkerLoops \/ BreaksIntoWait \/ WorkerTakesLock \/ WorkerDraws PROVE IInv'
<1>1. /\ UNCHANGED <<screen, main, keepWorker, down, saver, toast, current, activates, crossed>>
      /\ override' \in BOOLEAN
  BY DEF WorkerLoops, BreaksIntoWait, WorkerTakesLock, WorkerDraws, IInv, TypeInv, DisplayTypeOK
<1>2. canvas' \in ImageType
  <2>1. canvas \in ImageType
    BY DEF IInv, TypeInv, DisplayTypeOK, ImageType
  <2>2. Clean \in ImageType
    BY DEF Clean, Image, ImageType
  <2> QED BY <2>1, <2>2 DEF WorkerLoops, BreaksIntoWait, WorkerTakesLock, WorkerDraws
<1>3. \/ lock' = lock /\ worker # "draws" /\ worker' \in {"off", "wants"}
      \/ lock = "free" /\ lock' = "worker" /\ worker' = "draws"
      \/ worker = "draws" /\ lock' = "free" /\ worker' = "runs"
  BY DEF WorkerLoops, BreaksIntoWait, WorkerTakesLock, WorkerDraws, WorkerGoes, TakesLock
<1>4. TypeInv'
  BY <1>1, <1>2, <1>3 DEF IInv, TypeInv, DisplayTypeOK, ImageType
<1>5. StartsInOrder'
  BY <1>1 DEF IInv, StartsInOrder
<1>6. LockIsHeldByTheDrawer'
  BY <1>1, <1>3, DisplayAssumption DEF IInv, LockIsHeldByTheDrawer, Holds
<1> QED BY <1>4, <1>5, <1>6 DEF IInv

\* A button does not draw.
LEMMA UserStep ==
  ASSUME IInv, PressOrRelease PROVE IInv'
  BY DEF PressOrRelease, IInv, TypeInv, DisplayTypeOK, StartsInOrder, LockIsHeldByTheDrawer,
         Holds

-----------------------------------------------------------------------------
(* Starting a toast. *)

\* The threads that start toasts get in nobody's way.
LEMMA ActivatorStep ==
  ASSUME IInv, NEW a \in Activators, NEW t \in Toasts, ActivatorSteps(a, t) PROVE IInv'
<1>1. UNCHANGED <<lock, canvas, screen, worker, keepWorker, down, crossed>>
  BY DEF ActivatorSteps, MakesToast, StopsSaver, StopsPrevious, NotesToast, StartsToast, FailsToStart,
         ActivatorGoes
<1>2. CASE MakesToast(a, t)
  <2>1. /\ UNCHANGED <<main, saver, toast, current>> /\ override' \in BOOLEAN
        /\ activates' = [activates EXCEPT ![a] = [t |-> t, at |-> "made"]]
        /\ a = "main" => main = "boot"
    BY <1>2 DEF MakesToast
  <2>2. TypeInv'
    BY <1>1, <2>1 DEF IInv, TypeInv, DisplayTypeOK, ActivationType
  <2>3. StartsInOrder'
    BY <2>1 DEF IInv, TypeInv, StartsInOrder, Activators
  <2>4. LockIsHeldByTheDrawer'
    BY <1>1, <2>1 DEF IInv, LockIsHeldByTheDrawer, Holds
  <2> QED BY <2>2, <2>3, <2>4 DEF IInv
<1>3. CASE StopsSaver(a, t) \/ StopsPrevious(a, t) \/ NotesToast(a, t)
  <2>1. PlacesStay
    <3>1. CASE StopsSaver(a, t)
      BY <3>1 DEF StopsSaver, IInv, TypeInv, PlacesStay
    <3>2. CASE StopsPrevious(a, t) /\ current # NoToast /\ Alive(current)
      <4>1. current \in Toasts
        BY <3>2 DEF IInv, TypeInv, DisplayTypeOK
      <4>2. toast' = [toast EXCEPT ![current].keep = FALSE]
        BY <3>2 DEF StopsPrevious
      <4> QED BY <4>1, <4>2, NotesMoveNothing DEF IInv
    <3>3. CASE StopsPrevious(a, t) /\ ~(current # NoToast /\ Alive(current))
      BY <3>3 DEF StopsPrevious, IInv, TypeInv, PlacesStay
    <3>4. CASE NotesToast(a, t)
      BY <3>4 DEF NotesToast, IInv, TypeInv, PlacesStay
    <3> QED BY <1>3, <3>1, <3>2, <3>3, <3>4
  <2>2. /\ UNCHANGED <<main, override>>
        /\ activates[a].at \in {"made", "stops", "starts"}
        /\ \/ current' = current
              /\ \E q \in {"stops", "starts"} : activates' = [activates EXCEPT ![a] = [t |-> t, at |-> q]]
           \/ current' = t /\ activates' = [activates EXCEPT ![a] = [t |-> t, at |-> "noted"]]
    BY <1>3 DEF StopsSaver, StopsPrevious, NotesToast, ActivatorGoes
  <2>3. saver' \in [running : BOOLEAN, last : ImageType]
    BY <1>3 DEF StopsSaver, StopsPrevious, NotesToast, IInv, TypeInv
  <2>4. TypeInv'
    <3>1. activates' \in [Activators -> ActivationType] /\ current' \in Toasts \union {NoToast}
      <4>1. \E q \in {"stops", "starts", "noted"} : activates' = [activates EXCEPT ![a] = [t |-> t, at |-> q]]
        BY <2>2
      <4>2. \A q \in {"stops", "starts", "noted"} : [t |-> t, at |-> q] \in ActivationType
        BY DEF ActivationType
      <4> QED BY <2>2, <4>1, <4>2 DEF IInv, TypeInv, DisplayTypeOK
    <3> QED BY <1>1, <2>1, <2>2, <2>3, <3>1 DEF IInv, TypeInv, DisplayTypeOK, PlacesStay, ToastType
  <2>5. StartsInOrder'
    BY <2>2 DEF IInv, TypeInv, StartsInOrder, Activators
  <2>6. LockIsHeldByTheDrawer'
    BY <1>1, <2>1, <2>2 DEF IInv, LockIsHeldByTheDrawer, PlacesStay, Holds
  <2> QED BY <2>4, <2>5, <2>6 DEF IInv
<1>4. CASE StartsToast(a, t) \/ FailsToStart(a, t)
  <2>1. /\ UNCHANGED <<override, saver, current>> /\ activates[a].at = "noted"
        /\ \E next \in {Idle, [t |-> t, at |-> "failed"]} : activates' = [activates EXCEPT ![a] = next]
        /\ main' \in IF a = "main" THEN {"render", "ended"} ELSE {main}
    BY <1>4 DEF StartsToast, FailsToStart, ActivatorGoes
  <2>2. current \in Toasts /\ (a = "main" => main = "boot")
    BY <2>1 DEF IInv, StartsInOrder
  <2>3. toast[current] \in ToastType
    BY <2>2 DEF IInv, TypeInv
  <2>4. /\ toast' \in [Toasts -> ToastType]
        /\ \A u \in Toasts : toast'[u].at = toast[u].at \/ (toast[u].at = "new" /\ toast'[u].at = "delay")
    <3>1. CASE StartsToast(a, t)
      <4>1. /\ toast[current].at = "new"
            /\ toast' = [toast EXCEPT ![current] = [toast[current] EXCEPT !.at = "delay", !.keep = TRUE]]
        BY <3>1 DEF StartsToast
      <4> QED BY <2>2, <2>3, <4>1 DEF IInv, TypeInv, ToastType, ToastPlaces
    <3>2. CASE FailsToStart(a, t)
      <4>1. toast' = [toast EXCEPT ![current] = [toast[current] EXCEPT !.keep = TRUE]]
        BY <3>2 DEF FailsToStart
      <4> QED BY <2>2, <2>3, <4>1 DEF IInv, TypeInv, ToastType
    <3> QED BY <1>4, <3>1, <3>2
  <2>5. TypeInv'
    BY <1>1, <2>1, <2>4
       DEF IInv, TypeInv, DisplayTypeOK, ToastType, ActivationType, Idle, MainPlaces
  <2>6. StartsInOrder'
    BY <2>1 DEF IInv, TypeInv, StartsInOrder, Activators, Idle
  <2>7. LockIsHeldByTheDrawer'
    BY <1>1, <2>1, <2>2, <2>4 DEF IInv, LockIsHeldByTheDrawer, Holds
  <2> QED BY <2>5, <2>6, <2>7 DEF IInv
<1> QED BY <1>2, <1>3, <1>4 DEF ActivatorSteps

-----------------------------------------------------------------------------
(* The toasts. *)

\* A toast locks, draws, restores, and gives the lock away, in that order.
LEMMA ToastStep ==
  ASSUME IInv, NEW t \in Toasts, ToastSteps(t) PROVE IInv'
<1> DEFINE was == toast[t].at
           is  == toast'[t].at
<1>1. UNCHANGED <<screen, main, worker, keepWorker, down, override, saver, current, activates, crossed>>
  BY DEF ToastSteps, DelayIsOver, ToastTakesLock, ToastGoes, ToastEnds, Yields, SeesLockTaken,
         ShowsToast, Resumes
<1>2. toast[t] \in ToastType /\ canvas \in ImageType
  BY DEF IInv, TypeInv, DisplayTypeOK, ImageType
<1>3. Thread("done") \in ToastType
  BY DEF Thread, ToastType, ToastPlaces, Clean, Image, ImageType
<1>4. toast' \in [Toasts -> ToastType] /\ \A u \in Toasts \ {t} : toast'[u] = toast[u]
  <2>1. CASE DelayIsOver(t)
    <3>1. toast' = [toast EXCEPT ![t] = Thread("done")] \/ toast' = [toast EXCEPT ![t].at = "wants"]
      BY <2>1 DEF DelayIsOver
    <3> QED BY <3>1, <1>3 DEF IInv, TypeInv, ToastType, ToastPlaces
  <2>2. CASE ToastTakesLock(t) \/ SeesLockTaken(t) \/ Resumes(t)
    BY <2>2 DEF ToastTakesLock, ToastGoes, SeesLockTaken, Resumes, IInv, TypeInv, ToastType,
           ToastPlaces
  <2>3. CASE ToastEnds(t)
    BY <2>3, <1>3 DEF ToastEnds, IInv, TypeInv
  <2>4. CASE Yields(t)
    BY <2>4 DEF Yields, IInv, TypeInv, ToastType, ToastPlaces
  <2>5. CASE ShowsToast(t)
    BY <2>5, <1>2 DEF ShowsToast, IInv, TypeInv, ToastType, ToastPlaces
  <2> QED BY <2>1, <2>2, <2>3, <2>4, <2>5 DEF ToastSteps
<1>5. canvas' \in ImageType
  <2>1. CASE ToastEnds(t)
    BY <2>1, <1>2 DEF ToastEnds, ToastType
  <2>2. CASE ShowsToast(t)
    BY <2>2, <1>2 DEF ShowsToast, ImageType
  <2>3. CASE ~ToastEnds(t) /\ ~ShowsToast(t)
    BY <2>3, <1>2 DEF ToastSteps, DelayIsOver, ToastTakesLock, Yields, SeesLockTaken, Resumes
  <2> QED BY <2>1, <2>2, <2>3
<1>6. /\ was \notin {"new"} /\ is \notin {"new"}
      /\ \/ lock' = lock /\ was \notin {"holds", "again"} /\ is \notin {"holds", "again"}
         \/ lock' = lock /\ was \in {"holds", "again"} /\ is \in {"holds", "again"}
         \/ lock = "free" /\ lock' = t /\ is \in {"holds", "again"}
         \/ lock' = "free" /\ was \in {"holds", "again"} /\ is \notin {"holds", "again"}
  <2>1. CASE DelayIsOver(t)
    BY <2>1 DEF DelayIsOver, IInv, TypeInv, ToastType, Thread
  <2>2. CASE ToastTakesLock(t)
    BY <2>2 DEF ToastTakesLock, TakesLock, ToastGoes, IInv, TypeInv, ToastType
  <2>3. CASE SeesLockTaken(t) \/ Resumes(t)
    BY <2>3 DEF ToastGoes, SeesLockTaken, Resumes, IInv, TypeInv, ToastType
  <2>4. CASE ToastEnds(t)
    BY <2>4 DEF ToastEnds, IInv, TypeInv, Thread
  <2>5. CASE Yields(t)
    BY <2>5 DEF Yields, IInv, TypeInv, ToastType
  <2>6. CASE ShowsToast(t)
    BY <2>6 DEF ShowsToast, IInv, TypeInv, ToastType
  <2> QED BY <2>1, <2>2, <2>3, <2>4, <2>5, <2>6 DEF ToastSteps
<1>7. TypeInv'
  BY <1>1, <1>4, <1>5, <1>6 DEF IInv, TypeInv, DisplayTypeOK, ToastType, ImageType
<1>8. StartsInOrder'
  BY <1>1, <1>4, <1>6 DEF IInv, StartsInOrder
<1>9. LockIsHeldByTheDrawer'
  BY <1>1, <1>4, <1>6, DisplayAssumption
     DEF IInv, TypeInv, DisplayTypeOK, LockIsHeldByTheDrawer, Holds
<1> QED BY <1>7, <1>8, <1>9 DEF IInv

-----------------------------------------------------------------------------
\* What the search thread and the View do between screens does not draw.
LEMMA DisplayStays ==
  ASSUME IInv, UNCHANGED displayVars PROVE IInv'
  BY DEF displayVars, IInv, TypeInv, DisplayTypeOK, StartsInOrder, LockIsHeldByTheDrawer, Holds

\* At the start nobody draws.
LEMMA InitInv ==
  ASSUME Init PROVE IInv
<1>1. TypeInv
  BY DisplayAssumption
     DEF Init, DisplayInit, TypeInv, DisplayTypeOK, ToastType, ActivationType, ImageType,
         Clean, Image,
    Thread, Idle, ToastPlaces, MainPlaces
<1>2. StartsInOrder
  BY DEF Init, DisplayInit, StartsInOrder, Idle, Activators
<1>3. LockIsHeldByTheDrawer
  BY DisplayAssumption DEF Init, DisplayInit, LockIsHeldByTheDrawer, Holds, Thread
<1> QED BY <1>1, <1>2, <1>3 DEF IInv

\* Every step of every thread keeps the invariant.
LEMMA NextInv ==
  ASSUME IInv, [Next]_vars PROVE IInv'
<1>1. CASE MainTakesLock
  BY <1>1, MainLocks DEF MainTakesLock
<1>2. CASE MainGoesOn \/ CallbackReturns \/ CallbackGoesOn
  BY <1>2, MainKeepsLock, MainUnlocks DEF MainGoesOn, CallbackGoesOn
<1>3. CASE BreaksIntoWait \/ WorkerGoesOn \/ WorkerTakesLock \/ WorkerDraws
  BY <1>3, WorkerStep DEF WorkerGoesOn
<1>4. CASE PressOrRelease
  BY <1>4, UserStep
<1>5. CASE \E t \in Toasts : ToastSteps(t)
  BY <1>5, ToastStep
<1>6. CASE \E a \in Activators : Activates(a)
  BY <1>6, ActivatorStep DEF Activates
<1>7. CASE View
  <2>1. CASE StartsSearch \/ OtherScreen \/ Skips
    BY <2>1, MainKeepsLock DEF StartsSearch, OtherScreen, Skips
  <2>2. CASE Cancels \/ Reports
    BY <2>2, DisplayStays DEF Cancels, Reports
  <2> QED BY <1>7, <2>1, <2>2 DEF View
<1>8. CASE Searches
  BY <1>8, DisplayStays
     DEF Searches, StopsSearching, ReadsCounter, Compares, PublishesKind, Counts
<1>9. CASE UNCHANGED vars
  BY <1>9, DisplayStays DEF vars
<1> QED BY <1>1, <1>2, <1>3, <1>4, <1>5, <1>6, <1>7, <1>8, <1>9 DEF Next

\* Nobody draws without the lock and nobody releases another's, for any toasts and
\* any screens that follow one another (Renderer.lock of gui/renderer.py).
THEOREM LockIsTheDrawers == Spec => []LockIsHeldByTheDrawer
<1>1. Init => IInv
  BY InitInv
<1>2. IInv /\ [Next]_vars => IInv'
  BY NextInv
<1>3. IInv => LockIsHeldByTheDrawer
  BY DEF IInv
<1> QED BY <1>1, <1>2, <1>3, PTL DEF Spec

-----------------------------------------------------------------------------
(* What is under the toasts. *)

\* The toast was told to give the lock away and has not come back to drawing; it
\* has done so with something of it on the screen.
Gives(t)    == toast[t].toggle \/ toast[t].at \in {"yielded", "wantsAgain", "again"}
GaveAway(t) == toast[t].rendered /\ toast[t].at \in {"yielded", "wantsAgain"}

\* A toast has something on the screen only between its first drawing and its end.
NotesOK ==
  \A t \in Toasts :
    /\ toast[t].rendered => toast[t].at \in {"holds", "yielded", "wantsAgain", "again"}
    /\ toast[t].toggle => Alive(t)

\* Until the screensaver has its copy, one toast at most was told.
OneGives ==
  /\ \A t \in Toasts : Gives(t) => main = "copying"
  /\ \A t, u \in Toasts : Gives(t) /\ Gives(u) => t = u

\* What the next to restore something puts back is the screen, or a toast that will
\* put back the screen.
CopiesOK ==
  /\ \A t \in Toasts : toast[t].rendered =>
       toast[t].previous = Clean \/ \E u \in Toasts \ {t} : GaveAway(u)
  /\ (\A t \in Toasts : ~toast[t].rendered) => canvas = Clean
  /\ main \in {"saverWants", "saving"} => saver.last = Clean

RestoreInv == NotesOK /\ (~crossed => OneGives /\ CopiesOK)

-----------------------------------------------------------------------------
\* A toast that is on the screen without the lock is the one that gave it away; it
\* was there first.
LEMMA WithoutTheLock ==
  ASSUME IInv, RestoreInv, ~crossed, NEW t \in Toasts, toast[t].rendered, lock # t
  PROVE  GaveAway(t) /\ main = "copying" /\ toast[t].previous = Clean
<1>1. ~Holds(t)
  BY DEF IInv, LockIsHeldByTheDrawer
<1>2. GaveAway(t)
  BY <1>1 DEF RestoreInv, NotesOK, Holds, GaveAway
<1>3. main = "copying"
  BY <1>2 DEF RestoreInv, OneGives, Gives, GaveAway
<1>4. toast[t].previous = Clean
  BY <1>2 DEF RestoreInv, OneGives, CopiesOK, Gives, GaveAway
<1> QED BY <1>2, <1>3, <1>4

\* So nothing of a toast is on the screen while another draws, except then.
LEMMA NothingOver ==
  ASSUME IInv, RestoreInv, ~crossed, lock \notin Toasts, main # "copying"
  PROVE  canvas = Clean /\ \A t \in Toasts : ~toast[t].rendered
<1>1. \A t \in Toasts : ~toast[t].rendered
  BY WithoutTheLock
<1> QED BY <1>1 DEF RestoreInv, CopiesOK

-----------------------------------------------------------------------------
\* Steps that draw nothing and tell no toast anything.
LEMMA CalmStep ==
  ASSUME IInv, RestoreInv, NotesOK',
         UNCHANGED <<canvas, crossed>>, saver'.last = saver.last,
         main = "copying" => main' = "copying",
         main' \in {"saverWants", "saving"} => main \in {"saverWants", "saving"},
         \A t \in Toasts : /\ toast'[t].rendered = toast[t].rendered
                           /\ toast[t].rendered => toast'[t].previous = toast[t].previous
                           /\ Gives(t)' => Gives(t),
         lock = "free" \/ \A t \in Toasts : GaveAway(t) => GaveAway(t)'
  PROVE  RestoreInv'
<1> SUFFICES ASSUME ~crossed PROVE OneGives' /\ CopiesOK'
  BY DEF RestoreInv
<1>1. OneGives'
  BY DEF RestoreInv, OneGives
<1>2. ASSUME NEW t \in Toasts, toast[t].rendered
      PROVE  toast[t].previous = Clean \/ \E u \in Toasts \ {t} : GaveAway(u)'
  <2>1. CASE lock = "free"
    <3>1. lock # t
      BY <2>1, DisplayAssumption
    <3> QED BY <1>2, <3>1, WithoutTheLock
  <2>2. CASE \A u \in Toasts : GaveAway(u) => GaveAway(u)'
    BY <1>2, <2>2 DEF RestoreInv, CopiesOK
  <2> QED BY <2>1, <2>2
<1>3. CopiesOK'
  BY <1>2 DEF RestoreInv, CopiesOK
<1> QED BY <1>1, <1>3

\* In particular the ones that leave the toasts alone.
LEMMA CalmWithoutToasts ==
  ASSUME IInv, RestoreInv, UNCHANGED <<canvas, crossed, toast>>, saver'.last = saver.last,
         main = "copying" => main' = "copying",
         main' \in {"saverWants", "saving"} => main \in {"saverWants", "saving"}
  PROVE  RestoreInv'
<1>1. NotesOK'
  BY DEF RestoreInv, NotesOK, Alive
<1>2. \A t \in Toasts : Gives(t)' = Gives(t) /\ GaveAway(t)' = GaveAway(t)
  BY DEF Gives, GaveAway
<1> QED BY <1>1, <1>2, CalmStep

-----------------------------------------------------------------------------
\* A note for the current toast is all that another thread leaves.
LEMMA NotesTellOne ==
  ASSUME TypeInv,
         IF current # NoToast /\ Alive(current)
         THEN \/ toast' = [toast EXCEPT ![current].toggle = TRUE]
              \/ toast' = [toast EXCEPT ![current].keep = FALSE]
         ELSE UNCHANGED toast,
         NEW t \in Toasts
  PROVE  /\ toast'[t].at = toast[t].at /\ toast'[t].rendered = toast[t].rendered
         /\ toast'[t].previous = toast[t].previous
         /\ toast'[t].toggle = toast[t].toggle \/ (t = current /\ Alive(t))
<1>1. /\ \A u \in Toasts : toast[u] \in ToastType
      /\ DOMAIN toast = Toasts
  BY DEF TypeInv
<1>2. CASE current # NoToast /\ Alive(current)
  <2>1. current \in Toasts
    BY <1>2 DEF TypeInv, DisplayTypeOK
  <2>2. \/ toast' = [toast EXCEPT ![current].toggle = TRUE]
        \/ toast' = [toast EXCEPT ![current].keep = FALSE]
    BY <1>2
  <2> QED BY <1>1, <1>2, <2>1, <2>2 DEF ToastType
<1>3. CASE ~(current # NoToast /\ Alive(current))
  BY <1>3
<1> QED BY <1>2, <1>3

\* The main thread copies the screen before its screensaver draws, and has the lock
\* when it draws.
LEMMA MainRestores ==
  ASSUME IInv, RestoreInv,
         Renders \/ Redraws \/ StartsScreensaver \/ CopiesScreen \/ SaverEnds
  PROVE  RestoreInv'
<1>1. CASE Renders \/ Redraws
  <2>1. lock = "main" /\ main # "copying" /\ main' = "callback" /\ StaleCopies
    BY <1>1 DEF Renders, Redraws, Goes, IInv, LockIsHeldByTheDrawer
  <2>2. \A t \in Toasts : toast[t] \in ToastType
    BY DEF IInv, TypeInv
  <2>3. \A t \in Toasts : /\ toast'[t].at = toast[t].at /\ toast'[t].toggle = toast[t].toggle
                          /\ toast'[t].rendered = toast[t].rendered
                          /\ ~toast[t].rendered => toast'[t] = toast[t]
    BY <2>1, <2>2 DEF StaleCopies, ToastType
  <2>4. NotesOK'
    BY <2>3 DEF RestoreInv, NotesOK, Alive
  <2>5. ASSUME ~crossed' PROVE OneGives' /\ CopiesOK'
    <3>1. \A t \in Toasts : ~toast[t].rendered /\ ~Gives(t)
      <4>1. CASE crossed
        <5>1. \A t \in Toasts : ~Alive(t)
          BY <1>1, <2>5, <4>1 DEF Renders, Redraws
        <5> QED BY <5>1 DEF RestoreInv, NotesOK, Alive, Gives
      <4>2. CASE ~crossed
        <5>1. lock \notin Toasts
          BY <2>1, DisplayAssumption
        <5> QED BY <2>1, <4>2, <5>1, NothingOver DEF RestoreInv, OneGives
      <4> QED BY <4>1, <4>2
    <3>2. \A t \in Toasts : ~toast'[t].rendered /\ ~Gives(t)'
      BY <2>3, <3>1 DEF Gives
    <3>3. canvas' = Clean
      <4>1. CASE Renders
        BY <4>1 DEF Renders
      <4>2. CASE Redraws
        BY <2>5, <3>1, <4>2 DEF Redraws, RestoreInv, CopiesOK
      <4> QED BY <1>1, <4>1, <4>2
    <3> QED BY <2>1, <3>2, <3>3 DEF OneGives, CopiesOK
  <2> QED BY <2>4, <2>5 DEF RestoreInv
<1>2. CASE StartsScreensaver
  <2>1. /\ main = "waiting" /\ main' = "copying" /\ UNCHANGED <<canvas, crossed, saver>>
    BY <1>2 DEF StartsScreensaver, Goes
  <2>2. \A t \in Toasts : /\ toast'[t].at = toast[t].at /\ toast'[t].rendered = toast[t].rendered
                          /\ toast'[t].previous = toast[t].previous
                          /\ toast'[t].toggle = toast[t].toggle \/ (t = current /\ Alive(t))
    BY <1>2, NotesTellOne DEF StartsScreensaver, IInv
  <2>3. NotesOK'
    BY <2>2 DEF RestoreInv, NotesOK, Alive
  <2>4. ASSUME ~crossed PROVE OneGives' /\ CopiesOK'
    <3>1. \A t \in Toasts : ~Gives(t) /\ ~GaveAway(t)
      BY <2>1, <2>4 DEF RestoreInv, OneGives, Gives, GaveAway
    <3>2. \A t \in Toasts : Gives(t)' => t = current
      BY <2>2, <3>1 DEF Gives
    <3>3. \A t \in Toasts : toast'[t].rendered => toast'[t].previous = Clean
      BY <2>2, <2>4, <3>1 DEF RestoreInv, CopiesOK
    <3>4. (\A t \in Toasts : ~toast'[t].rendered) => canvas' = Clean
      BY <2>1, <2>2, <2>4 DEF RestoreInv, CopiesOK
    <3> QED BY <2>1, <3>2, <3>3, <3>4 DEF OneGives, CopiesOK
  <2> QED BY <2>1, <2>3, <2>4 DEF RestoreInv
<1>3. CASE CopiesScreen
  <2>1. /\ main' = "saverWants" /\ UNCHANGED <<canvas, toast>> /\ saver'.last = canvas
        /\ crossed' = (crossed \/ \E t \in Toasts : Alive(t))
    BY <1>3 DEF CopiesScreen, Goes
  <2>2. NotesOK'
    BY <2>1 DEF RestoreInv, NotesOK, Alive
  <2>3. ASSUME ~crossed' PROVE OneGives' /\ CopiesOK'
    <3>1. ~crossed /\ \A t \in Toasts : ~Alive(t)
      BY <2>1, <2>3
    <3>2. \A t \in Toasts : ~toast[t].rendered /\ ~Gives(t)
      BY <3>1 DEF RestoreInv, NotesOK, Alive, Gives
    <3>3. canvas = Clean
      BY <3>1, <3>2 DEF RestoreInv, CopiesOK
    <3> QED BY <2>1, <3>2, <3>3 DEF OneGives, CopiesOK, Gives
  <2> QED BY <2>2, <2>3 DEF RestoreInv
<1>4. CASE SaverEnds
  <2>1. /\ main = "saving" /\ main' = "waiting" /\ UNCHANGED <<crossed, toast>> /\ canvas' = saver.last
        /\ lock = "main"
    BY <1>4 DEF SaverEnds, Goes, IInv, LockIsHeldByTheDrawer
  <2>2. NotesOK'
    BY <2>1 DEF RestoreInv, NotesOK, Alive
  <2>3. ASSUME ~crossed PROVE OneGives' /\ CopiesOK'
    <3>1. \A t \in Toasts : ~toast[t].rendered /\ ~Gives(t)
      BY <2>1, <2>3, NothingOver, DisplayAssumption DEF RestoreInv, OneGives
    <3>2. canvas' = Clean
      BY <2>1, <2>3 DEF RestoreInv, CopiesOK
    <3> QED BY <2>1, <3>1, <3>2 DEF OneGives, CopiesOK, Gives
  <2> QED BY <2>1, <2>2, <2>3 DEF RestoreInv
<1> QED BY <1>1, <1>2, <1>3, <1>4

\* What the background thread of a QR code's screen draws is the screen.
LEMMA WorkerRestores ==
  ASSUME IInv, RestoreInv, WorkerDraws PROVE RestoreInv'
<1>1. UNCHANGED <<main, saver, toast, crossed>> /\ (canvas' = Clean \/ canvas' = canvas)
  BY DEF WorkerDraws
<1>2. NotesOK'
  BY <1>1 DEF RestoreInv, NotesOK, Alive
<1>3. ASSUME ~crossed PROVE OneGives' /\ CopiesOK'
  BY <1>1, <1>3 DEF RestoreInv, OneGives, CopiesOK, Gives, GaveAway
<1> QED BY <1>1, <1>2, <1>3 DEF RestoreInv

\* A toast that is started has drawn nothing, and one that is stopped keeps its note.
LEMMA StartRestores ==
  ASSUME IInv, RestoreInv, NEW a \in Activators, NEW t \in Toasts, ActivatorSteps(a, t)
  PROVE  RestoreInv'
<1>1. CASE MakesToast(a, t) \/ StopsSaver(a, t) \/ NotesToast(a, t)
  <2>1. UNCHANGED <<canvas, crossed, toast, main>> /\ saver'.last = saver.last
    BY <1>1 DEF MakesToast, StopsSaver, NotesToast, IInv, TypeInv
  <2> QED BY <2>1, CalmWithoutToasts
<1>2. CASE StopsPrevious(a, t) \/ StartsToast(a, t) \/ FailsToStart(a, t)
  <2>1. /\ UNCHANGED <<canvas, crossed, saver>>
        /\ main' = main \/ (main = "boot" /\ main' \in {"render", "ended"})
    <3>1. CASE StopsPrevious(a, t)
      BY <3>1 DEF StopsPrevious
    <3>2. CASE StartsToast(a, t) \/ FailsToStart(a, t)
      <4>1. activates[a].at = "noted" /\ UNCHANGED <<canvas, crossed, saver>>
        BY <3>2 DEF StartsToast, FailsToStart, ActivatorGoes
      <4>2. main' = main \/ (a = "main" /\ main' \in {"render", "ended"})
        BY <3>2 DEF StartsToast, FailsToStart
      <4> QED BY <4>1, <4>2 DEF IInv, StartsInOrder
    <3> QED BY <1>2, <3>1, <3>2
  <2>2. \A u \in Toasts : /\ toast'[u].rendered = toast[u].rendered /\ toast'[u].toggle = toast[u].toggle
                          /\ toast'[u].previous = toast[u].previous
                          /\ toast'[u].at = toast[u].at \/ (toast[u].at = "new" /\ toast'[u].at = "delay")
    <3>1. CASE StopsPrevious(a, t)
      <4>1. (\A u \in Toasts : toast[u] \in ToastType) /\ DOMAIN toast = Toasts
        BY DEF IInv, TypeInv
      <4>2. CASE toast' = [toast EXCEPT ![current].keep = FALSE]
        BY <4>1, <4>2 DEF ToastType
      <4> QED BY <3>1, <4>2 DEF StopsPrevious
    <3>2. CASE StartsToast(a, t) \/ FailsToStart(a, t)
      <4>1. current \in Toasts
        BY <3>2 DEF StartsToast, FailsToStart, ActivatorGoes, IInv, StartsInOrder
      <4>2. toast[current] \in ToastType /\ DOMAIN toast = Toasts
        BY <4>1 DEF IInv, TypeInv
      <4>3. \/ /\ toast[current].at = "new"
               /\ toast' = [toast EXCEPT ![current] = [toast[current] EXCEPT !.at = "delay", !.keep = TRUE]]
            \/ toast' = [toast EXCEPT ![current] = [toast[current] EXCEPT !.keep = TRUE]]
        BY <3>2 DEF StartsToast, FailsToStart
      <4>4. \A u \in Toasts \ {current} : toast'[u] = toast[u]
        BY <4>2, <4>3
      <4>5. /\ toast'[current].rendered = toast[current].rendered
            /\ toast'[current].toggle = toast[current].toggle
            /\ toast'[current].previous = toast[current].previous
            /\ \/ toast'[current].at = toast[current].at
               \/ toast[current].at = "new" /\ toast'[current].at = "delay"
        <5>1. \/ /\ toast[current].at = "new"
                 /\ toast'[current] = [toast[current] EXCEPT !.at = "delay", !.keep = TRUE]
              \/ toast'[current] = [toast[current] EXCEPT !.keep = TRUE]
          BY <4>1, <4>2, <4>3
        <5>2. DOMAIN toast[current] = {"at", "keep", "toggle", "rendered", "previous"}
          BY <4>2 DEF ToastType
        <5> QED BY <5>1, <5>2
      <4> QED BY <4>4, <4>5
    <3> QED BY <1>2, <3>1, <3>2
  <2>3. NotesOK'
    BY <2>2 DEF RestoreInv, NotesOK, Alive
  <2>4. \A u \in Toasts : (Gives(u)' => Gives(u)) /\ (GaveAway(u) => GaveAway(u)')
    BY <2>2 DEF Gives, GaveAway
  <2> QED BY <2>1, <2>2, <2>3, <2>4, CalmStep
<1> QED BY <1>1, <1>2 DEF ActivatorSteps

-----------------------------------------------------------------------------
\* A toast copies what is there before it draws, and puts that back.
LEMMA ToastRestores ==
  ASSUME IInv, RestoreInv, NEW t \in Toasts, ToastSteps(t) PROVE RestoreInv'
<1>1. UNCHANGED <<main, saver, crossed>>
  BY DEF ToastSteps, DelayIsOver, ToastTakesLock, ToastGoes, ToastEnds, Yields, SeesLockTaken,
         ShowsToast, Resumes
<1>2. (\A u \in Toasts : toast[u] \in ToastType) /\ DOMAIN toast = Toasts
  BY DEF IInv, TypeInv
<1>3. CASE DelayIsOver(t) \/ ToastTakesLock(t) \/ Yields(t) \/ SeesLockTaken(t) \/ Resumes(t)
  <2>1. UNCHANGED canvas /\ \A u \in Toasts \ {t} : toast'[u] = toast[u]
    BY <1>2, <1>3 DEF DelayIsOver, ToastTakesLock, ToastGoes, Yields, SeesLockTaken, Resumes
  <2>2. /\ toast'[t].rendered = toast[t].rendered
        /\ toast[t].rendered => toast'[t].previous = toast[t].previous
        /\ toast'[t].rendered => toast'[t].at \in {"holds", "yielded", "wantsAgain", "again"}
        /\ toast'[t].toggle => toast'[t].at \notin {"new", "done"}
        /\ toast'[t].toggle \/ toast'[t].at \in {"yielded", "wantsAgain", "again"} => Gives(t)
        /\ lock = "free" \/ (GaveAway(t) => GaveAway(t)')
    <3>1. CASE DelayIsOver(t)
      <4>1. toast[t].at = "delay" /\ ~toast[t].rendered
        BY <3>1 DEF DelayIsOver, RestoreInv, NotesOK
      <4>2. toast'[t] = Thread("done") \/ toast'[t] = [toast[t] EXCEPT !.at = "wants"]
        BY <1>2, <3>1 DEF DelayIsOver
      <4>3. CASE toast'[t] = Thread("done")
        <5>1. toast'[t].at = "done" /\ toast'[t].toggle = FALSE /\ toast'[t].rendered = FALSE
          BY <4>3 DEF Thread
        <5>2. toast[t].rendered = FALSE
          BY <1>2, <4>1 DEF ToastType
        <5> QED BY <4>1, <5>1, <5>2 DEF GaveAway
      <4>4. CASE toast'[t] = [toast[t] EXCEPT !.at = "wants"]
        BY <1>2, <4>1, <4>4 DEF ToastType, Gives, GaveAway
      <4> QED BY <4>2, <4>3, <4>4
    <3>2. CASE ToastTakesLock(t)
      <4>1. toast[t].at = "wants" => ~toast[t].rendered
        BY DEF RestoreInv, NotesOK
      <4> QED BY <1>2, <3>2, <4>1 DEF ToastTakesLock, TakesLock, ToastGoes, ToastType, Gives
    <3>3. CASE Yields(t)
      BY <1>2, <3>3 DEF Yields, ToastType, Gives, GaveAway
    <3>4. CASE SeesLockTaken(t)
      BY <1>2, <3>4 DEF SeesLockTaken, ToastGoes, ToastType, Gives, GaveAway
    <3>5. CASE Resumes(t)
      BY <1>2, <3>5 DEF Resumes, ToastGoes, ToastType, Gives, GaveAway
    <3> QED BY <1>3, <3>1, <3>2, <3>3, <3>4, <3>5
  <2>3. NotesOK'
    BY <2>1, <2>2 DEF RestoreInv, NotesOK, Alive
  <2>4. \A u \in Toasts : Gives(u)' => Gives(u)
    BY <2>1, <2>2 DEF Gives
  <2>5. lock = "free" \/ \A u \in Toasts : GaveAway(u) => GaveAway(u)'
    BY <2>1, <2>2 DEF GaveAway
  <2> QED BY <1>1, <2>1, <2>2, <2>3, <2>4, <2>5, CalmStep
<1>4. CASE ToastEnds(t) \/ ShowsToast(t)
  <2>1. lock = t
    BY <1>4 DEF ToastEnds, ShowsToast, IInv, LockIsHeldByTheDrawer, Holds
  <2>2. \A u \in Toasts \ {t} : toast'[u] = toast[u]
    BY <1>2, <1>4 DEF ToastEnds, ShowsToast
  <2>3. \/ ToastEnds(t) /\ toast'[t] = Thread("done")
        \/ /\ ShowsToast(t) /\ toast'[t].at = "holds" /\ toast'[t].toggle = toast[t].toggle
           /\ toast'[t].rendered /\ toast'[t].previous = canvas
    BY <1>2, <1>4 DEF ToastEnds, ShowsToast, ToastType
  <2>4. NotesOK'
    BY <2>2, <2>3 DEF RestoreInv, NotesOK, Alive, Thread
  <2>5. ASSUME ~crossed PROVE OneGives' /\ CopiesOK'
    <3>1. \A u \in Toasts : Gives(u)' => Gives(u)
      BY <2>2, <2>3 DEF Gives, Thread
    <3>2. \A u \in Toasts \ {t} : toast[u].rendered => GaveAway(u) /\ toast[u].previous = Clean
      BY <2>1, <2>5, WithoutTheLock
    <3>3. \A u \in Toasts \ {t} : GaveAway(u)' = GaveAway(u)
      BY <2>2 DEF GaveAway
    <3>4. OneGives'
      BY <1>1, <2>5, <3>1 DEF RestoreInv, OneGives
    <3>5. CASE ToastEnds(t)
      <4>1. ~toast'[t].rendered
        BY <3>5, <2>3, <1>2 DEF ShowsToast, ToastEnds, Thread
      <4>2. canvas' = IF toast[t].rendered THEN toast[t].previous ELSE canvas
        BY <3>5 DEF ToastEnds
      <4>3. (\A u \in Toasts : ~toast'[u].rendered) => canvas' = Clean
        BY <2>2, <2>5, <4>2 DEF RestoreInv, CopiesOK, GaveAway
      <4>4. CopiesOK'
        BY <1>1, <2>2, <2>5, <3>2, <4>1, <4>3 DEF RestoreInv, CopiesOK
      <4> QED BY <3>4, <4>4
    <3>6. CASE ShowsToast(t)
      <4>1. ~toast[t].rendered
        BY <3>6 DEF ShowsToast
      <4>2. toast'[t].rendered /\ toast'[t].previous = canvas
        BY <1>2, <3>6 DEF ShowsToast, ToastType
      <4>3. canvas = Clean \/ \E u \in Toasts \ {t} : GaveAway(u)'
        BY <2>5, <3>2, <3>3, <4>1 DEF RestoreInv, CopiesOK
      <4>4. CopiesOK'
        BY <1>1, <2>2, <2>5, <3>2, <4>2, <4>3 DEF RestoreInv, CopiesOK
      <4> QED BY <3>4, <4>4
    <3> QED BY <1>4, <3>5, <3>6
  <2> QED BY <1>1, <2>4, <2>5 DEF RestoreInv
<1> QED BY <1>3, <1>4 DEF ToastSteps

-----------------------------------------------------------------------------
\* At the start there is only the screen.
LEMMA InitRestore ==
  ASSUME Init PROVE RestoreInv
  BY DEF Init, DisplayInit, RestoreInv, NotesOK, OneGives, CopiesOK, Gives, Thread

\* Every step of every thread keeps what is to be restored.
LEMMA NextRestore ==
  ASSUME IInv, RestoreInv, [Next]_vars PROVE RestoreInv'
<1>1. CASE \/ NoTipToShow \/ CallbackPasses \/ CallbackReturns \/ EntersWait \/ WakesUp \/ KeyPressed
           \/ StopsThreads \/ JoinsThreads \/ NextScreen \/ RedrawsNothing \/ Selects
           \/ MainWantsToRender \/ MainWantsToRedraw \/ SaverTakesLock
  <2>1. /\ UNCHANGED <<canvas, crossed, toast, saver>> /\ main # "copying"
        /\ main' \in {"saverWants", "saving"} => main \in {"saverWants", "saving"}
    BY <1>1 DEF NoTipToShow, CallbackPasses, CallbackReturns, EntersWait, WakesUp, KeyPressed,
         StopsThreads, JoinsThreads, NextScreen, RedrawsNothing, Selects, MainWantsToRender,
         MainWantsToRedraw, SaverTakesLock, Goes
  <2> QED BY <2>1, CalmWithoutToasts
<1>2. CASE Renders \/ Redraws \/ StartsScreensaver \/ CopiesScreen \/ SaverEnds
  BY <1>2, MainRestores
<1>3. CASE WorkerLoops \/ BreaksIntoWait \/ WorkerTakesLock \/ PressOrRelease \/ UNCHANGED displayVars
  <2>1. UNCHANGED <<canvas, crossed, toast, saver, main>>
    BY <1>3 DEF WorkerLoops, BreaksIntoWait, WorkerTakesLock, PressOrRelease, displayVars
  <2> QED BY <2>1, CalmWithoutToasts
<1>4. CASE WorkerDraws
  BY <1>4, WorkerRestores
<1>5. CASE \E t \in Toasts : ToastSteps(t)
  BY <1>5, ToastRestores
<1>6. CASE \E a \in Activators : Activates(a)
  BY <1>6, StartRestores DEF Activates
<1>7. CASE View \/ Searches \/ UNCHANGED vars
  <2>1. NextScreen \/ UNCHANGED displayVars
    BY <1>7 DEF View, StartsSearch, OtherScreen, Skips, Cancels, Reports, Searches, StopsSearching,
         ReadsCounter, Compares, PublishesKind, Counts, vars
  <2> QED BY <1>1, <1>3, <2>1
<1> QED BY <1>1, <1>2, <1>3, <1>4, <1>5, <1>6, <1>7
        DEF Next, MainTakesLock, MainGoesOn, CallbackGoesOn, WorkerGoesOn

\* After any toasts and the screensaver the canvas is what the screen drew last,
\* unless the screensaver started over a toast (gui/toast.py, views/screensaver.py).
THEOREM ScreenIsRestored == Spec => []RestoredUnlessCrossed
<1> DEFINE Inv == IInv /\ RestoreInv
<1>1. Init => Inv
  BY InitInv, InitRestore
<1>2. Inv /\ [Next]_vars => Inv'
  BY NextInv, NextRestore
<1>3. Inv => RestoredUnlessCrossed
  BY DEF RestoreInv, NotesOK, CopiesOK, RestoredUnlessCrossed
<1> QED BY <1>1, <1>2, <1>3, PTL DEF Spec
==============================================================================
