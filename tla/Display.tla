------------------------------- MODULE Display -------------------------------
(***************************************************************************)
(* Who draws on the one display: the screen that runs in the main thread,  *)
(* its background thread, toasts and the screensaver, and the flag that    *)
(* breaks into the wait for a button (gui/renderer.py, gui/toast.py,       *)
(* gui/screens/screen.py, gui/components.py, hardware/buttons.py,          *)
(* views/screensaver.py, the toasts and the screensaver of controller.py). *)
(*                                                                         *)
(* An image is what matters of the canvas: is it what the running screen   *)
(* drew last, and which toast is drawn over it.  What a background thread  *)
(* draws is a region of its own that it draws again and again; only the    *)
(* one of a QR code draws the whole canvas.  Time is left out: a timer may *)
(* run out at any moment.                                                  *)
(***************************************************************************)
EXTENDS Integers, FiniteSets

CONSTANTS
  Toasts,     \* toast threads that may be started
  Kinds,      \* kinds of screens among the ones below
  Follows,    \* bound: the kinds of screens that may follow one of a kind
  ToastsOn,   \* bound: the toasts that may be started on a screen of a kind
  NoToast

Activators == {"main", "microsd"}
AllKinds == {"menu", "scrolling", "qr", "search", "usb"}

ASSUME DisplayAssumption ==
  /\ NoToast \notin Toasts /\ Kinds \subseteq AllKinds
  /\ Follows \in [Kinds -> SUBSET Kinds] /\ ToastsOn \in [Kinds -> SUBSET Toasts]
  /\ Toasts \intersect {"free", "main", "worker"} = {}

VARIABLES
  lock,      \* Renderer.lock: "free", "main", "worker" or a toast
  canvas,    \* Renderer.canvas, an image
  screen,    \* the kind of the running screen
  main,      \* where the main thread is
  worker,    \* where the screen's background thread is
  keepWorker,\* its keep_running
  down,      \* is a button down?
  override,  \* HardwareButtons.override_ind
  saver,     \* the ScreensaverScreen: is_running and last_screen
  toast,     \* of each toast: its place, keep_running, the toggle, has_rendered, previous_screen_state
  current,   \* Controller.toast_notification_thread
  activates, \* of each activator: the toast it is about to activate, and how far it is
  crossed    \* history: the screensaver started over a toast that is still alive

displayVars == <<lock, canvas, screen, main, worker, keepWorker, down, override, saver, toast,
                 current, activates, crossed>>

Image(fresh, over) == [fresh |-> fresh, over |-> over]
Clean == Image(TRUE, NoToast)

ToastPlaces  == {"new", "delay", "wants", "holds", "yielded", "wantsAgain", "again", "done"}
MainPlaces   == {"boot", "ended", "render", "drawing", "callback", "enters", "waiting", "redraw", "redrawing",
                 "leaving", "joining", "between", "copying", "saverWants", "saving"}

DisplayTypeOK ==
  /\ lock \in {"free", "main", "worker"} \union Toasts
  /\ canvas \in [fresh : BOOLEAN, over : Toasts \union {NoToast}]
  /\ screen \in Kinds /\ main \in MainPlaces /\ worker \in {"off", "runs", "wants", "draws"}
  /\ keepWorker \in BOOLEAN /\ down \in BOOLEAN /\ override \in BOOLEAN /\ crossed \in BOOLEAN
  /\ saver.running \in BOOLEAN
  /\ \A t \in Toasts : toast[t].at \in ToastPlaces
  /\ current \in Toasts \union {NoToast}

Alive(t)  == toast[t].at \notin {"new", "done"}
Holds(t)  == toast[t].at \in {"holds", "again"}

Idle == [t |-> NoToast, at |-> "idle"]

\* A thread that was not started yet, or has ended: what it noted no longer matters.
Thread(place) == [at |-> place, keep |-> FALSE, toggle |-> FALSE, rendered |-> FALSE, previous |-> Clean]

DisplayInit ==
  /\ lock = "free" /\ canvas = Clean
  /\ screen \in Kinds \ {"search"} /\ main = "boot"
  /\ worker = "off" /\ keepWorker = FALSE
  /\ down = FALSE /\ override = FALSE
  /\ saver = [running |-> FALSE, last |-> Clean]
  /\ toast = [t \in Toasts |-> Thread("new")]
  /\ current = NoToast /\ activates = [a \in Activators |-> Idle]
  /\ crossed = FALSE

\* Copies of the canvas are old once the main thread has drawn something.
Stale(image) == [image EXCEPT !.fresh = FALSE]
StaleCopies  ==
  toast' = [t \in Toasts |-> IF toast[t].rendered THEN [toast[t] EXCEPT !.previous = Stale(@)] ELSE toast[t]]

-----------------------------------------------------------------------------
(* The main thread: BaseScreen.display, the _run loops, wait_for. *)

Goes(a, b) == main = a /\ main' = b

TakesLock(who) == lock = "free" /\ lock' = who

\* Controller.start, without the tip to remove the card, up to its first screen.
NoTipToShow ==
  /\ Goes("boot", "render") /\ activates["main"] = Idle
  /\ UNCHANGED <<lock, canvas, screen, worker, keepWorker, down, override, saver, toast, current, activates, crossed>>

MainWantsToRender ==
  /\ Goes("render", "drawing") /\ TakesLock("main")
  /\ UNCHANGED <<canvas, screen, worker, keepWorker, down, override, saver, toast, current, activates, crossed>>

\* The whole screen is drawn; then its background threads are started.
Renders ==
  /\ Goes("drawing", "callback")
  /\ canvas' = Clean /\ StaleCopies /\ lock' = "free"
  /\ worker' = (IF screen = "menu" THEN "off" ELSE "runs") /\ keepWorker' = (screen # "menu")
  /\ crossed' = (crossed /\ \E t \in Toasts : Alive(t))
  /\ UNCHANGED <<screen, down, override, saver, current, activates>>

\* ButtonListScreen._run_callback has nothing to say.
CallbackPasses ==
  /\ Goes("callback", "enters")
  /\ UNCHANGED <<lock, canvas, screen, worker, keepWorker, down, override, saver, toast, current, activates, crossed>>

\* wait_for forgets an override that was set before.
EntersWait ==
  /\ Goes("enters", "waiting") /\ override' = FALSE
  /\ UNCHANGED <<lock, canvas, screen, worker, keepWorker, down, saver, toast, current, activates, crossed>>

\* For a QR code any input but UP and DOWN is the end, an override too.
WakesUp ==
  /\ override /\ override' = FALSE
  /\ Goes("waiting", IF screen = "qr" THEN "leaving" ELSE "redraw")
  /\ UNCHANGED <<lock, canvas, screen, worker, keepWorker, down, saver, toast, current, activates, crossed>>

\* For a QR code UP and DOWN change the brightness.
KeyPressed ==
  /\ ~override /\ down
  /\ \/ screen # "qr" /\ Goes("waiting", "redraw")
     \/ screen = "qr" /\ Goes("waiting", "enters")
     \/ screen = "qr" /\ Goes("waiting", "leaving")
  /\ UNCHANGED <<lock, canvas, screen, worker, keepWorker, down, override, saver, toast, current, activates, crossed>>

MainWantsToRedraw ==
  /\ Goes("redraw", "redrawing") /\ TakesLock("main")
  /\ UNCHANGED <<canvas, screen, worker, keepWorker, down, override, saver, toast, current, activates, crossed>>

\* The buttons that changed are drawn; or nothing changed; or one was selected.
Redraws ==
  /\ Goes("redrawing", "callback")
  /\ StaleCopies /\ lock' = "free"
  /\ UNCHANGED <<canvas, screen, worker, keepWorker, down, override, saver, current, activates, crossed>>

RedrawsNothing ==
  /\ Goes("redrawing", "callback")
  /\ lock' = "free"
  /\ UNCHANGED <<canvas, screen, worker, keepWorker, down, override, saver, toast, current, activates, crossed>>

\* Mutant: the lock is kept until the threads have ended.
Selects_KeepsLock ==
  /\ Goes("redrawing", "leaving")
  /\ UNCHANGED <<lock, canvas, screen, worker, keepWorker, down, override, saver, toast, current, activates, crossed>>

Selects ==
  /\ Goes("redrawing", "leaving")
  /\ lock' = "free"
  /\ UNCHANGED <<canvas, screen, worker, keepWorker, down, override, saver, toast, current, activates, crossed>>

\* The end of BaseScreen.display: threads are stopped and waited for.
StopsThreads ==
  /\ Goes("leaving", "joining")
  /\ keepWorker' = FALSE
  /\ UNCHANGED <<lock, canvas, screen, worker, down, override, saver, toast, current, activates, crossed>>

JoinsThreads ==
  /\ Goes("joining", "between") /\ worker = "off"
  /\ UNCHANGED <<lock, canvas, screen, worker, keepWorker, down, override, saver, toast, current, activates, crossed>>

NextScreen ==
  /\ Goes("between", "render")
  /\ screen' \in Follows[screen]
  /\ UNCHANGED <<lock, canvas, worker, keepWorker, down, override, saver, toast, current, activates, crossed>>

-----------------------------------------------------------------------------
(* The screensaver, in the main thread's wait_for. *)

\* A toast that is alive is told to give the lock away.
StartsScreensaver ==
  /\ Goes("waiting", "copying")
  /\ ~override /\ screen # "usb" /\ ~saver.running
  /\ IF current # NoToast /\ Alive(current)
     THEN toast' = [toast EXCEPT ![current].toggle = TRUE]
     ELSE UNCHANGED toast
  /\ UNCHANGED <<lock, canvas, screen, worker, keepWorker, down, override, saver, current, activates, crossed>>

\* The copy is taken before the lock is.
CopiesScreen ==
  /\ Goes("copying", "saverWants")
  /\ saver' = [running |-> TRUE, last |-> canvas]
  /\ crossed' = (crossed \/ \E t \in Toasts : Alive(t))
  /\ UNCHANGED <<lock, canvas, screen, worker, keepWorker, down, override, toast, current, activates>>

SaverTakesLock ==
  /\ Goes("saverWants", "saving") /\ TakesLock("main")
  /\ UNCHANGED <<canvas, screen, worker, keepWorker, down, override, saver, toast, current, activates, crossed>>

\* Mutant: only a button ends it, and stop().
SaverEnds_ByInput ==
  /\ Goes("saving", "waiting")
  /\ down \/ ~saver.running
  /\ saver' = [running |-> FALSE, last |-> Clean]
  /\ canvas' = saver.last /\ lock' = "free"
  /\ UNCHANGED <<screen, worker, keepWorker, down, override, toast, current, activates, crossed>>

SaverEnds ==
  /\ Goes("saving", "waiting")
  /\ down \/ override \/ ~saver.running
  /\ saver' = [running |-> FALSE, last |-> Clean]
  /\ canvas' = saver.last /\ lock' = "free"
  /\ UNCHANGED <<screen, worker, keepWorker, down, override, toast, current, activates, crossed>>

-----------------------------------------------------------------------------
(* The background thread of the screen. *)

WorkerGoes(a, b) == worker = a /\ worker' = b

WorkerLoops ==
  /\ WorkerGoes("runs", IF keepWorker THEN "wants" ELSE "off")
  /\ UNCHANGED <<lock, canvas, screen, main, keepWorker, down, override, saver, toast, current, activates, crossed>>

WorkerTakesLock ==
  /\ WorkerGoes("wants", "draws") /\ TakesLock("worker")
  /\ UNCHANGED <<canvas, screen, main, keepWorker, down, override, saver, toast, current, activates, crossed>>

WorkerDraws ==
  /\ WorkerGoes("draws", "runs")
  /\ canvas' = (IF screen = "qr" THEN Clean ELSE canvas)
  /\ lock' = "free"
  /\ UNCHANGED <<screen, main, keepWorker, down, override, saver, toast, current, activates, crossed>>

-----------------------------------------------------------------------------
(* Starting a toast: its constructor, then Controller.activate_toast.  The *)
(* main thread starts one before its first screen, MicroSD at any time,    *)
(* and each of them may do a step of it between two of the other's.        *)

ActivatorGoes(a, t, p, q) ==
  /\ activates[a] = [t |-> t, at |-> p]
  /\ activates' = [activates EXCEPT ![a] = [t |-> t, at |-> q]]

MakesToast(a, t) ==
  /\ activates[a] = Idle /\ toast[t].at = "new" /\ t \in ToastsOn[screen]
  /\ a = "main" => main = "boot"
  /\ \A b \in Activators : activates[b].t # t
  /\ activates' = [activates EXCEPT ![a] = [t |-> t, at |-> "made"]]
  /\ override' = TRUE
  /\ UNCHANGED <<lock, canvas, screen, main, worker, keepWorker, down, saver, toast, current, crossed>>

StopsSaver(a, t) ==
  /\ ActivatorGoes(a, t, "made", "stops")
  /\ saver' = [saver EXCEPT !.running = FALSE]
  /\ UNCHANGED <<lock, canvas, screen, main, worker, keepWorker, down, override, toast, current, crossed>>

StopsPrevious(a, t) ==
  /\ ActivatorGoes(a, t, "stops", "starts")
  /\ IF current # NoToast /\ Alive(current)
     THEN toast' = [toast EXCEPT ![current].keep = FALSE]
     ELSE UNCHANGED toast
  /\ UNCHANGED <<lock, canvas, screen, main, worker, keepWorker, down, override, saver, current, crossed>>

NotesToast(a, t) ==
  /\ ActivatorGoes(a, t, "starts", "noted")
  /\ current' = t
  /\ UNCHANGED <<lock, canvas, screen, main, worker, keepWorker, down, override, saver, toast, crossed>>

\* What is started is the toast that is noted by now, not the activator's own.
StartsToast(a, t) ==
  /\ activates[a] = [t |-> t, at |-> "noted"] /\ toast[current].at = "new"
  /\ activates' = [activates EXCEPT ![a] = Idle]
  /\ toast' = [toast EXCEPT ![current].at = "delay", ![current].keep = TRUE]
  /\ main' = IF a = "main" THEN "render" ELSE main
  /\ UNCHANGED <<lock, canvas, screen, worker, keepWorker, down, override, saver, current, crossed>>

\* A thread that the other activator has started already: keep_running is set once
\* more, then the RuntimeError ends the activator, and with the main thread the
\* program.  What the others still do until then is left in.
FailsToStart(a, t) ==
  /\ ActivatorGoes(a, t, "noted", "failed") /\ toast[current].at # "new"
  /\ toast' = [toast EXCEPT ![current].keep = TRUE]
  /\ main' = IF a = "main" THEN "ended" ELSE main
  /\ UNCHANGED <<lock, canvas, screen, worker, keepWorker, down, override, saver, current, crossed>>

-----------------------------------------------------------------------------
(* BaseToastOverlayManagerThread.run *)

ToastGoes(t, p, q) == toast[t].at = p /\ toast' = [toast EXCEPT ![t].at = q]

DelayIsOver(t) ==
  /\ toast[t].at = "delay"
  /\ toast' = [toast EXCEPT ![t] = IF down THEN Thread("done") ELSE [@ EXCEPT !.at = "wants"]]
  /\ UNCHANGED <<lock, canvas, screen, main, worker, keepWorker, down, override, saver, current, activates, crossed>>

\* Mutant: a toast that yielded the lock goes on without it.
ToastTakesLock_Once(t) ==
  /\ \/ ToastGoes(t, "wants", "holds") /\ TakesLock(t)
     \/ ToastGoes(t, "wantsAgain", "again") /\ UNCHANGED lock
  /\ UNCHANGED <<canvas, screen, main, worker, keepWorker, down, override, saver, current, activates, crossed>>

ToastTakesLock(t) ==
  /\ \/ ToastGoes(t, "wants", "holds")
     \/ ToastGoes(t, "wantsAgain", "again")
  /\ TakesLock(t)
  /\ UNCHANGED <<canvas, screen, main, worker, keepWorker, down, override, saver, current, activates, crossed>>

MayGoOn(t) == toast[t].keep /\ ~down

\* Mutant: a toast that another one replaces does not restore the screen.
ToastEnds_LeavesItself(t) ==
  /\ toast[t].at = "holds"
  /\ toast' = [toast EXCEPT ![t] = Thread("done")]
  /\ canvas' = IF toast[t].rendered /\ toast[t].keep THEN toast[t].previous ELSE canvas
  /\ lock' = "free"
  /\ UNCHANGED <<screen, main, worker, keepWorker, down, override, saver, current, activates, crossed>>

\* The loop is left: it was stopped, a button is down, its time is over or what
\* it says is no longer so.  What it was drawn over is restored.
ToastEnds(t) ==
  /\ toast[t].at = "holds"
  /\ toast' = [toast EXCEPT ![t] = Thread("done")]
  /\ canvas' = IF toast[t].rendered THEN toast[t].previous ELSE canvas
  /\ lock' = "free"
  /\ UNCHANGED <<screen, main, worker, keepWorker, down, override, saver, current, activates, crossed>>

\* The lock is given away, and not wanted again before somebody has it.
Yields(t) ==
  /\ MayGoOn(t) /\ toast[t].toggle
  /\ toast[t].at = "holds"
  /\ toast' = [toast EXCEPT ![t].at = "yielded", ![t].toggle = FALSE]
  /\ lock' = "free"
  /\ UNCHANGED <<canvas, screen, main, worker, keepWorker, down, override, saver, current, activates, crossed>>

SeesLockTaken(t) ==
  /\ ToastGoes(t, "yielded", "wantsAgain") /\ lock # "free"
  /\ UNCHANGED <<lock, canvas, screen, main, worker, keepWorker, down, override, saver, current, activates, crossed>>

\* keep_running and the buttons are not asked again after the lock was yielded.
ShowsToast(t) ==
  /\ \/ toast[t].at = "holds" /\ MayGoOn(t) /\ ~toast[t].toggle
     \/ toast[t].at = "again"
  /\ ~toast[t].rendered
  /\ toast' = [toast EXCEPT ![t].at = "holds", ![t].rendered = TRUE, ![t].previous = canvas]
  /\ canvas' = [canvas EXCEPT !.over = t]
  /\ UNCHANGED <<lock, screen, main, worker, keepWorker, down, override, saver, current, activates, crossed>>

Resumes(t) ==
  /\ ToastGoes(t, "again", "holds") /\ toast[t].rendered
  /\ UNCHANGED <<lock, canvas, screen, main, worker, keepWorker, down, override, saver, current, activates, crossed>>

-----------------------------------------------------------------------------
(* The user. *)

PressOrRelease ==
  /\ down' = ~down
  /\ UNCHANGED <<lock, canvas, screen, main, worker, keepWorker, override, saver, toast, current, activates, crossed>>

MainSteps ==
  \/ NoTipToShow \/ MainWantsToRender \/ Renders \/ CallbackPasses \/ EntersWait \/ WakesUp \/ KeyPressed
  \/ MainWantsToRedraw \/ Redraws \/ RedrawsNothing \/ Selects \/ StopsThreads \/ JoinsThreads
  \/ NextScreen \/ StartsScreensaver \/ CopiesScreen \/ SaverTakesLock \/ SaverEnds

WorkerSteps == WorkerLoops \/ WorkerTakesLock \/ WorkerDraws

ActivatorSteps(a, t) == \/ MakesToast(a, t) \/ StopsSaver(a, t) \/ StopsPrevious(a, t)
                      \/ NotesToast(a, t) \/ StartsToast(a, t) \/ FailsToStart(a, t)

ToastSteps(t) ==
  \/ DelayIsOver(t) \/ ToastTakesLock(t) \/ ToastEnds(t) \/ Yields(t) \/ SeesLockTaken(t)
  \/ ShowsToast(t) \/ Resumes(t)

DisplayNext ==
  \/ MainSteps \/ WorkerSteps \/ PressOrRelease
  \/ \E t \in Toasts : ToastSteps(t) \/ \E a \in Activators : ActivatorSteps(a, t)

-----------------------------------------------------------------------------
(* Properties. *)

\* Whoever draws on the canvas holds the lock, nobody else thinks it does, and
\* nobody releases it for another.
LockIsHeldByTheDrawer ==
  /\ lock = "main" <=> main \in {"drawing", "redrawing", "saving"}
  /\ lock = "worker" <=> worker = "draws"
  /\ \A t \in Toasts : lock = t <=> Holds(t)

\* After the toasts and the screensaver the canvas is what the screen drew last,
\* with nothing left over it, unless the screensaver started over a toast: then
\* each may restore what the other has drawn.
RestoredUnlessCrossed ==
  ~crossed /\ main # "boot" /\ (\A t \in Toasts : toast[t].rendered => toast[t].at = "done")
  => canvas = Clean
=============================================================================
