---------------------------- MODULE SettingsStore ----------------------------
(***************************************************************************)
(* The settings, the file they persist in and the MicroSD card the file is *)
(* on: models/settings.py, models/settings_definition.py,                  *)
(* hardware/microsd.py and the Views of views/settings_views.py.           *)
(*                                                                         *)
(* The main thread changes settings one at a time (a View) or all of them  *)
(* (a SettingsQR, the file at boot); the MicroSD thread is told when a     *)
(* card comes or goes and changes the same dict and the same file.  Both   *)
(* save through Settings.save, which checks, truncates and then writes.    *)
(* The power may be cut and the card may be pulled between any two steps.  *)
(*                                                                         *)
(* Four of the 25 entries stand for the kinds there are: the one that      *)
(* switches persistence, a multiselect, a single select, a hidden one.     *)
(* A value is the set of the options it selects, {v} for a single value.   *)
(*                                                                         *)
(* The mount point follows the card at once, as seedsigner-os has it; to   *)
(* open or write the file of a card that is gone raises.                   *)
(***************************************************************************)
EXTENDS Integers, Sequences, FiniteSets, SequencesExt

CONSTANTS
  Cards,         \* MicroSD cards at hand
  NoCard, NoFile, Torn,   \* nothing in the slot; no file; a file json cannot read
  SettingsQRs,   \* SettingsQRs the user may scan, see QrEntry
  MaxChanges,    \* bound: changes the user makes
  MaxCardMoves,  \* bound: cards put in or pulled out
  MaxPowerCuts   \* bound: times the power is cut

ASSUME SettingsAssumption ==
  /\ MaxChanges \in Nat /\ MaxCardMoves \in Nat /\ MaxPowerCuts \in Nat
  /\ NoCard \notin Cards
  /\ \A qr \in SettingsQRs : qr \in Seq(Range(qr))

-----------------------------------------------------------------------------
(* SettingsDefinition. *)

\* In the order of settings_entries.
Entries == <<"persistent_settings", "sig_types", "microsd_toast_timer", "qr_brightness">>
Attrs   == Range(Entries)

P     == "persistent_settings"
Timer == "microsd_toast_timer"

Enabled  == {"E"}
Disabled == {"D"}

IsMultiselect(a) == a = "sig_types"
IsHidden(a)      == a = "qr_brightness"

Options(a) == CASE a = "sig_types" -> {"ss", "ms"}
                [] a = Timer       -> {"5s", "inf"}
                [] OTHER           -> {"lo", "hi"}

Default(a) == CASE a = P           -> Disabled
                [] a = "sig_types" -> {"ss", "ms"}
                [] a = Timer       -> {"5s"}
                [] OTHER           -> {"lo"}

get_defaults == [a \in Attrs |-> Default(a)]

Values(a) == SUBSET IF a = P THEN {"E", "D"} ELSE Options(a)
Settings  == {d \in [Attrs -> UNION {Values(a) : a \in Attrs}] : \A a \in Attrs : d[a] \in Values(a)}

ASSUME FileAssumption == NoFile \notin Settings /\ Torn \notin Settings \union {NoFile}

\* An entry of a SettingsQR: abbreviation=value, or text without "=".
QrEntry(a, v) == [attr |-> a, value |-> v, split |-> TRUE]

-----------------------------------------------------------------------------
VARIABLES
  power,     \* "off", "booting", "on", or "failed": get_instance raised
  data,      \* Settings._data
  persistOptions, \* selection_options of the persistence entry, in order
  inserted,  \* the card in the slot
  file,      \* settings.json of each card
  todo,      \* set_value calls the main thread still has to make
  saver,     \* per thread: where it is in set_value and save
  handle,    \* per thread: the card whose file it has open
  sd,        \* the MicroSD thread: "start", "exists", "enable", "saving", ...
  fifoMade,  \* has it made its FIFO
  fifo,      \* events mdev has for it
  view,      \* the View on the screen
  \* History, not in the code:
  saved,     \* per card: the settings in force when all was last at rest
  bootCut,   \* per card: was a start from it cut short since
  unheard,   \* did an event never reach the MicroSD thread
  crossed,   \* since the file was last opened by one thread alone: had both it open,
             \* or was a card pulled while the main thread was enabling persistence
  job,       \* the latest change: of a SettingsQR, what it was meant to do
  raised,    \* did a save of the main thread raise
  count      \* changes, card moves and power cuts so far

mainVars == <<todo, saver, handle, view, job, raised>>
sdVars   == <<sd, fifoMade, fifo, unheard>>
vars == <<power, data, persistOptions, inserted, file, mainVars, sdVars,
          saved, bootCut, crossed, count>>

Threads == {"main", "sd"}
NoJob   == [qr |-> FALSE]

Menu           == [name |-> "menu"]
Blocked        == [name |-> "blocked"]
Required(a)    == [name |-> "required", attr |-> a]
\* shown: the options the buttons were made from; blocking: opened from Blocked.
EntryView(a, shown, d, blocking) ==
  [name |-> "entry", attr |-> a, shown |-> shown, initial |-> d[a], blocking |-> blocking]

BothOptions == <<"E", "D">>
OnlyDisabled == <<"D">>

\* selection_options as the buttons list them.
OptionList(a, opts) == CASE a = P           -> opts
                         [] a = "sig_types" -> <<"ss", "ms">>
                         [] a = Timer       -> <<"5s", "inf">>

Init ==
  /\ power = "off"
  /\ data = get_defaults /\ persistOptions = BothOptions
  /\ inserted \in Cards \union {NoCard}
  /\ file = [c \in Cards |-> NoFile]
  /\ todo = << >>
  /\ saver = [t \in Threads |-> "idle"] /\ handle = [t \in Threads |-> NoCard]
  /\ sd = "off" /\ fifoMade = FALSE /\ fifo = << >>
  /\ view = Menu
  /\ saved = [c \in Cards |-> NoFile] /\ bootCut = [c \in Cards |-> FALSE]
  /\ unheard = FALSE /\ crossed = FALSE
  /\ job = NoJob /\ raised = FALSE
  /\ count = [changes |-> 0, moves |-> 0, cuts |-> 0]

-----------------------------------------------------------------------------
(* Settings.update and the parsing of a SettingsQR. *)

\* Mutant: a hidden setting that is not given gets its default.
Complete_ForgetsHidden(given, d) ==
  [a \in Attrs |-> IF a \in DOMAIN given
                   THEN IF IsMultiselect(a) /\ given[a] = {} THEN Default(a) ELSE given[a]
                   ELSE Default(a)]

\* Mutant: a hidden setting is never taken from what is given.
Complete_KeepsHidden(given, d) ==
  [a \in Attrs |-> IF a \in DOMAIN given /\ ~IsHidden(a)
                   THEN IF IsMultiselect(a) /\ given[a] = {} THEN Default(a) ELSE given[a]
                   ELSE IF IsHidden(a) THEN d[a] ELSE Default(a)]

\* What update makes of a dict that need not have every key.
Complete(given, d) ==
  [a \in Attrs |-> IF a \in DOMAIN given
                   THEN IF IsMultiselect(a) /\ given[a] = {} THEN Default(a) ELSE given[a]
                   ELSE IF IsHidden(a) THEN d[a] ELSE Default(a)]

\* The calls of set_value, one for each setting, in the order of the dict: place
\* says where a key is in it.
UpdateCalls(place, given, d) ==
  [i \in 1 .. Len(Entries) |->
     LET a == CHOOSE b \in Attrs : Cardinality({c \in Attrs : place[c] < place[b]}) = i - 1
     IN  <<a, Complete(given, d)[a]>>]

\* The order of settings_entries, which is also that of the file.
EntryPlace == [a \in Attrs |-> CHOOSE i \in DOMAIN Entries : Entries[i] = a]

\* Persistence cannot be enabled without a card, so it is disabled instead.
CannotEnable(e, opts) ==
  e.attr = P /\ "E" \in e.value /\ e.value \in Values(P) /\ "E" \notin Range(opts)

EntryRaises(e, opts) ==
  \/ ~e.split
  \/ e.value = {}
  \/ /\ e.attr \in Attrs
     /\ ~CannotEnable(e, opts)
     /\ IsHidden(e.attr) \/ ~(e.value \subseteq IF e.attr = P THEN Range(opts) ELSE Options(e.attr))

Given(qr) == {qr[i].attr : i \in DOMAIN qr} \intersect Attrs

\* The first and the latest entry for a setting.
First(qr, a)  == CHOOSE i \in DOMAIN qr :
                   qr[i].attr = a /\ \A j \in DOMAIN qr : qr[j].attr = a => i <= j
Latest(qr, a) == CHOOSE i \in DOMAIN qr :
                   qr[i].attr = a /\ \A j \in DOMAIN qr : qr[j].attr = a => j <= i

\* A later entry for the same setting replaces the value, not the place; what is
\* not given comes after all that is.
QrPlace(qr) == [a \in Attrs |-> IF a \in Given(qr) THEN First(qr, a) ELSE Len(qr) + EntryPlace[a]]

Parsed(qr, opts) ==
  [a \in Given(qr) |->
     LET e == qr[Latest(qr, a)] IN IF CannotEnable(e, opts) THEN Disabled ELSE e.value]

-----------------------------------------------------------------------------
(* What there is to bring back; every step updates it. *)

Idle == todo = << >> /\ \A t \in Threads : saver[t] = "idle"
AtRest   == power = "on" /\ Idle /\ sd = "waiting" /\ fifo = << >>
Starting == power = "booting" \/ (power = "on" /\ ~fifoMade)

\* History: what the file of each card is there to bring back.  A change, or a
\* card that is put in, calls off what was remembered until all is at rest.
Remember ==
  /\ saved' = [c \in Cards |->
       IF c # inserted' \/ power' \in {"off", "failed"} THEN saved[c]
       ELSE IF AtRest' THEN IF data'[P] = Enabled /\ ~crossed' /\ ~unheard' THEN data' ELSE NoFile
       ELSE IF Starting' /\ inserted = c /\ (power' = "on" => todo' = << >>) THEN saved[c]
       ELSE NoFile]
  /\ bootCut' = [c \in Cards |->
       IF c = inserted' /\ AtRest' THEN FALSE
       ELSE bootCut[c] \/ (Starting /\ c = inserted /\ (power' = "off" \/ inserted' # c))]

-----------------------------------------------------------------------------
(* set_value and save, one step at a time.                                 *)

\* Where the main thread is when its last set_value returns.
AfterSet ==
  IF power = "booting" THEN IF data[Timer] = {"inf"} THEN Blocked ELSE Menu
  ELSE IF view.name # "entry" THEN view
  ELSE IF view.blocking
       THEN IF data[view.attr] = view.initial THEN Blocked ELSE Menu
       ELSE EntryView(view.attr, OptionList(view.attr, persistOptions), data, FALSE)

\* One set_value of the main thread returned.
Returns ==
  /\ saver' = [saver EXCEPT !["main"] = "idle"]
  /\ todo' = Tail(todo)
  /\ IF Len(todo) > 1 THEN UNCHANGED <<power, sd, view>>
     ELSE /\ power' = "on"
          /\ sd' = IF power = "booting" THEN "start" ELSE sd
          /\ view' = AfterSet

\* An exception ends the View of the main thread, or the boot, or the MicroSD thread.
Raises(t) ==
  /\ saver' = [saver EXCEPT ![t] = "idle"]
  /\ handle' = [handle EXCEPT ![t] = NoCard]
  /\ IF t = "sd"
     THEN /\ sd' = "dead"
          /\ UNCHANGED <<power, todo, view, raised, job>>
     ELSE /\ todo' = << >> /\ view' = Menu /\ raised' = TRUE /\ job' = NoJob
          /\ power' = IF power = "booting" THEN "failed" ELSE power
          /\ UNCHANGED sd

\* Disabling persistence removes the file first, if there is one to remove.
RemoveFile ==
  /\ todo # << >> /\ saver["main"] = "idle"
  /\ Head(todo) = <<P, Disabled>>
  /\ file' = IF inserted = NoCard THEN file ELSE [file EXCEPT ![inserted] = NoFile]
  /\ saver' = [saver EXCEPT !["main"] = "assign"]
  /\ UNCHANGED <<power, data, persistOptions, inserted, todo, handle, view, job,
                 raised, sdVars, crossed, count>>
  /\ Remember

Assign ==
  /\ todo # << >>
  /\ saver["main"] = IF Head(todo) = <<P, Disabled>> THEN "assign" ELSE "idle"
  /\ data' = [data EXCEPT ![Head(todo)[1]] = Head(todo)[2]]
  /\ saver' = [saver EXCEPT !["main"] = "check"]
  /\ UNCHANGED <<power, persistOptions, inserted, file, todo, handle, view, job,
                 raised, sdVars, crossed, count>>
  /\ Remember

\* The MicroSD thread is done with an event.  It had the FIFO open all the while;
\* events written before it was closed are dropped, those written later wait.
Handled ==
  /\ sd' = IF fifoMade THEN "waiting" ELSE "fifo"
  /\ \/ UNCHANGED <<fifo, unheard>>
     \/ /\ fifoMade /\ unheard' = TRUE
        /\ \E n \in 1 .. Len(fifo) : fifo' = SubSeq(fifo, n + 1, Len(fifo))

\* save returns at once if settings do not persist or no card is in.
SaveCheck(t) ==
  /\ saver[t] = "check"
  /\ IF data[P] = Enabled /\ inserted # NoCard
     THEN /\ saver' = [saver EXCEPT ![t] = "open"]
          /\ UNCHANGED <<power, todo, sd, view, fifo, unheard>>
     ELSE IF t = "main" THEN Returns /\ UNCHANGED <<fifo, unheard>>
     ELSE /\ saver' = [saver EXCEPT ![t] = "idle"]
          /\ Handled
          /\ UNCHANGED <<power, todo, view>>
  /\ UNCHANGED <<data, persistOptions, inserted, file, handle, job, raised,
                 fifoMade, crossed, count>>
  /\ Remember

\* open(..., 'w') empties the file.
SaveOpen(t) ==
  /\ saver[t] = "open"
  /\ IF inserted = NoCard
     THEN Raises(t) /\ UNCHANGED <<file, crossed>>
     ELSE /\ file' = [file EXCEPT ![inserted] = Torn]
          /\ handle' = [handle EXCEPT ![t] = inserted]
          /\ saver' = [saver EXCEPT ![t] = "write"]
          /\ crossed' = \E u \in Threads \ {t} : handle[u] = inserted
          /\ UNCHANGED <<power, todo, sd, view, raised, job>>
  /\ UNCHANGED <<data, persistOptions, inserted, fifoMade, fifo, unheard, count>>
  /\ Remember

\* dump, flush and fsync.  Two writers leave the end of the longer text behind.
SaveWrite(t) ==
  /\ saver[t] = "write"
  /\ IF handle[t] = NoCard
     THEN Raises(t) /\ UNCHANGED <<file, fifo, unheard>>
     ELSE /\ \E content \in {data} \union IF crossed THEN {Torn} ELSE {} :
               file' = [file EXCEPT ![handle[t]] = content]
          /\ handle' = [handle EXCEPT ![t] = NoCard]
          /\ UNCHANGED <<raised, job>>
          /\ IF t = "main" THEN Returns /\ UNCHANGED <<fifo, unheard>>
             ELSE /\ saver' = [saver EXCEPT ![t] = "idle"]
                  /\ Handled
                  /\ UNCHANGED <<power, todo, view>>
  /\ UNCHANGED <<data, persistOptions, inserted, fifoMade, crossed, count>>
  /\ Remember

-----------------------------------------------------------------------------
(* The MicroSD thread: MicroSD.run and handle_microsd_state_change.        *)

Inserted == /\ persistOptions' = BothOptions
            /\ sd' = "exists"
            /\ UNCHANGED <<data, crossed>>

\* Mutant: a card that is pulled leaves persistence as it was.
Removed_KeepsPersistence ==
  /\ persistOptions' = OnlyDisabled
  /\ sd' = IF fifoMade THEN "waiting" ELSE "fifo"
  /\ UNCHANGED <<data, crossed>>

Removed == /\ data' = [data EXCEPT ![P] = Disabled]
           /\ persistOptions' = OnlyDisabled
           /\ sd' = IF fifoMade THEN "waiting" ELSE "fifo"
           /\ crossed' = (crossed \/ <<P, Enabled>> \in Range(todo))

\* At its start the thread looks for itself whether a card is in.
SdStart ==
  /\ sd = "start"
  /\ IF inserted # NoCard THEN Inserted ELSE Removed
  /\ UNCHANGED <<power, inserted, file, mainVars, fifoMade, fifo, unheard, count>>
  /\ Remember

\* The FIFO is made anew; whatever was written under its name before is lost.
SdMakesFifo ==
  /\ sd = "fifo"
  /\ fifoMade' = TRUE /\ fifo' = << >>
  /\ unheard' = (unheard \/ fifo # << >>)
  /\ sd' = "waiting"
  /\ UNCHANGED <<power, data, persistOptions, inserted, file, mainVars, crossed, count>>
  /\ Remember

\* read returns all that was written until every writer has closed: two events
\* that were both waiting are one text, which is no action and ends the thread.
\* What is written after that, and before a removal is dealt with, is dropped.
SdReads ==
  /\ sd = "waiting"
  /\ \E n \in 1 .. Len(fifo) :
       /\ fifo' = SubSeq(fifo, n + 1, Len(fifo))
       /\ unheard' = (unheard \/ n > 1)
       /\ \/ n = 1 /\ fifo[1] = "add" /\ Inserted
          \/ fifo[1] = "remove" /\ Removed
          \/ n > 1 /\ sd' = "dead" /\ UNCHANGED <<data, persistOptions, crossed>>
  /\ UNCHANGED <<power, inserted, file, mainVars, fifoMade, count>>
  /\ Remember

\* A card that has a settings file turns persistence on.
SdLooksForFile ==
  /\ sd = "exists"
  /\ IF inserted # NoCard /\ file[inserted] # NoFile
     THEN sd' = "enable" /\ UNCHANGED <<fifo, unheard>>
     ELSE Handled
  /\ UNCHANGED <<power, data, persistOptions, inserted, file, mainVars, fifoMade, crossed, count>>
  /\ Remember

SdEnables ==
  /\ sd = "enable"
  /\ data' = [data EXCEPT ![P] = Enabled]
  /\ sd' = "saving"
  /\ saver' = [saver EXCEPT !["sd"] = "check"]
  /\ UNCHANGED <<power, persistOptions, inserted, file, todo, handle, view, job, raised,
                 fifoMade, fifo, unheard, crossed, count>>
  /\ Remember

-----------------------------------------------------------------------------
(* What a SettingsQR means, said without the parser: nothing if an entry is *)
(* malformed; else each setting it names has the value given last, hidden    *)
(* settings keep theirs and all others get their defaults.                   *)

Malformed(qr) ==
  \E i \in DOMAIN qr :
    \/ ~qr[i].split \/ qr[i].value = {}
    \/ /\ qr[i].attr \in Attrs
       /\ IsHidden(qr[i].attr) \/ qr[i].value \notin Values(qr[i].attr)

GivenLast(qr, a, v) ==
  \E i \in DOMAIN qr :
    /\ qr[i].attr = a /\ qr[i].value = v
    /\ \A j \in DOMAIN qr : j > i => qr[j].attr # a

Meant(qr, d) ==
  IF Malformed(qr) THEN d
  ELSE [a \in Attrs |->
          IF \E i \in DOMAIN qr : qr[i].attr = a
          THEN CHOOSE v \in {qr[i].value : i \in DOMAIN qr} : GivenLast(qr, a, v)
          ELSE IF IsHidden(a) THEN d[a] ELSE Default(a)]

-----------------------------------------------------------------------------
(* The Views.  A View acts while no set_value of the main thread is under way. *)

MainIsFree == power = "on" /\ todo = << >>
\* What the user's actions leave alone.
Untouched == UNCHANGED <<power, data, persistOptions, inserted, file, saver, handle, sdVars, crossed>>
Changing == /\ count.changes < MaxChanges
            /\ count' = [count EXCEPT !.changes = @ + 1]

OpenEntry(a) ==
  /\ MainIsFree /\ view = Menu
  /\ view' = EntryView(a, OptionList(a, persistOptions), data, FALSE)
  /\ UNCHANGED <<todo, job, raised, count>> /\ Untouched
  /\ Remember

\* The i-th button: what it stands for is looked up after the click.
Toggled(a, v) == IF v \in view.initial THEN view.initial \ {v} ELSE view.initial \union {v}

Pick(i) ==
  /\ MainIsFree /\ view.name = "entry" /\ i \in DOMAIN view.shown
  /\ LET a    == view.attr
         opts == OptionList(a, persistOptions)
     IN  IF i \notin DOMAIN opts  \* IndexError
         THEN view' = Menu /\ UNCHANGED <<todo, count>>
         ELSE IF ~IsMultiselect(a) /\ {opts[i]} = view.initial /\ ~view.blocking
         THEN view' = Menu /\ UNCHANGED <<todo, count>>
         ELSE /\ todo' = <<<<a, IF IsMultiselect(a) THEN Toggled(a, opts[i]) ELSE {opts[i]}>>>>
              /\ Changing
              /\ UNCHANGED view
  /\ job' = NoJob
  /\ UNCHANGED raised /\ Untouched
  /\ Remember

BackFromEntry ==
  /\ MainIsFree /\ view.name = "entry"
  /\ view' = IF IsMultiselect(view.attr) /\ view.initial = {} THEN Required(view.attr)
             ELSE IF view.blocking THEN Blocked ELSE Menu
  /\ UNCHANGED <<todo, job, raised, count>> /\ Untouched
  /\ Remember

\* The only button of SettingsSelectionRequiredWarningView.
ReturnToSetting ==
  /\ MainIsFree /\ view.name = "required"
  /\ view' = EntryView(view.attr, OptionList(view.attr, persistOptions), data, FALSE)
  /\ UNCHANGED <<todo, job, raised, count>> /\ Untouched
  /\ Remember

\* A QR screen saves the brightness it was left with.
SaveBrightness(v) ==
  /\ MainIsFree /\ view = Menu
  /\ todo' = <<<<"qr_brightness", {v}>>>> /\ Changing
  /\ job' = NoJob
  /\ UNCHANGED <<view, raised>> /\ Untouched
  /\ Remember

\* A malformed SettingsQR raises before anything is set.
ScanSettingsQR(qr) ==
  /\ MainIsFree /\ view = Menu
  /\ Changing
  /\ IF \E i \in DOMAIN qr : EntryRaises(qr[i], persistOptions)
     THEN UNCHANGED todo
     ELSE todo' = UpdateCalls(QrPlace(qr), Parsed(qr, persistOptions), data)
  /\ job' = [qr |-> TRUE, meant |-> Meant(qr, data)]
  /\ UNCHANGED <<view, raised>> /\ Untouched
  /\ Remember

\* RemoveMicroSDWarningView.
Continue ==
  /\ MainIsFree /\ view = Blocked
  /\ inserted = NoCard
  /\ view' = Menu
  /\ UNCHANGED <<todo, job, raised, count>> /\ Untouched
  /\ Remember

SettingsOfBlocked ==
  /\ MainIsFree /\ view = Blocked
  /\ view' = EntryView(Timer, OptionList(Timer, persistOptions), data, TRUE)
  /\ UNCHANGED <<todo, job, raised, count>> /\ Untouched
  /\ Remember

-----------------------------------------------------------------------------
(* Cards and power. *)

Tells(event) ==
  IF power # "on" THEN UNCHANGED <<fifo, unheard>>
  ELSE IF sd \in {"dead", "off"} THEN unheard' = TRUE /\ UNCHANGED fifo
  ELSE fifo' = Append(fifo, event) /\ UNCHANGED unheard

CardMoves == /\ count.moves < MaxCardMoves
             /\ count' = [count EXCEPT !.moves = @ + 1]
             /\ UNCHANGED <<power, data, persistOptions, file, todo, saver, view, job, raised,
                            sd, fifoMade, crossed>>

InsertCard(c) ==
  /\ inserted = NoCard /\ CardMoves
  /\ inserted' = c
  /\ Tells("add")
  /\ UNCHANGED handle
  /\ Remember

PullCard ==
  /\ inserted # NoCard /\ CardMoves
  /\ inserted' = NoCard
  /\ handle' = [t \in Threads |-> NoCard]
  /\ Tells("remove")
  /\ Remember

\* Settings.get_instance: defaults, then the file of the card that is in.
Boot ==
  /\ power = "off"
  /\ data' = get_defaults /\ persistOptions' = BothOptions
  /\ LET content == IF inserted = NoCard THEN NoFile ELSE file[inserted]
     IN  CASE content = Torn   -> power' = "failed" /\ UNCHANGED <<todo, sd>>
           [] content = NoFile -> power' = "on" /\ sd' = "start" /\ UNCHANGED todo
           [] OTHER            -> /\ power' = "booting"
                                  /\ todo' = UpdateCalls(EntryPlace, content, get_defaults)
                                  /\ UNCHANGED sd
  /\ view' = Menu /\ job' = NoJob /\ raised' = FALSE
  /\ unheard' = FALSE /\ crossed' = FALSE
  /\ UNCHANGED <<inserted, file, saver, handle, fifoMade, fifo, count>>
  /\ Remember

CutPower ==
  /\ power # "off" /\ count.cuts < MaxPowerCuts
  /\ count' = [count EXCEPT !.cuts = @ + 1]
  /\ power' = "off" /\ sd' = "off" /\ fifoMade' = FALSE /\ fifo' = << >>
  /\ todo' = << >> /\ saver' = [t \in Threads |-> "idle"]
  /\ handle' = [t \in Threads |-> NoCard]
  /\ view' = Menu /\ job' = NoJob /\ raised' = FALSE
  /\ data' = get_defaults /\ persistOptions' = BothOptions
  /\ UNCHANGED <<inserted, file, unheard, crossed>>
  /\ Remember

-----------------------------------------------------------------------------
MainStep == RemoveFile \/ Assign \/ SaveCheck("main") \/ SaveOpen("main") \/ SaveWrite("main")
SdStep   == \/ SdStart \/ SdMakesFifo \/ SdReads \/ SdLooksForFile \/ SdEnables
            \/ SaveCheck("sd") \/ SaveOpen("sd") \/ SaveWrite("sd")
UserStep == \/ \E a \in {b \in Attrs : ~IsHidden(b)} : OpenEntry(a)
            \/ \E i \in 1 .. 2 : Pick(i)
            \/ BackFromEntry \/ ReturnToSetting \/ Continue \/ SettingsOfBlocked
            \/ \E v \in Options("qr_brightness") : SaveBrightness(v)
            \/ \E qr \in SettingsQRs : ScanSettingsQR(qr)
WorldStep == (\E c \in Cards : InsertCard(c)) \/ PullCard \/ Boot \/ CutPower

Next == MainStep \/ SdStep \/ UserStep \/ WorldStep

Spec == Init /\ [][Next]_vars

-----------------------------------------------------------------------------
(* Properties. *)

\* A call of set_value.
Calls == UNION {{a} \X Values(a) : a \in Attrs}

ViewOK ==
  /\ view.name \in {"menu", "entry", "required", "blocked"}
  /\ view.name \in {"entry", "required"} => view.attr \in Attrs /\ ~IsHidden(view.attr)
  /\ view.name = "entry" => view.initial \in Values(view.attr)

TypeOK ==
  /\ power \in {"off", "booting", "on", "failed"}
  /\ data \in Settings
  /\ persistOptions \in {BothOptions, OnlyDisabled}
  /\ inserted \in Cards \union {NoCard}
  /\ file \in [Cards -> Settings \union {NoFile, Torn}]
  /\ todo \in Seq(Calls)
  /\ saver \in [Threads -> {"idle", "assign", "check", "open", "write"}]
  /\ handle \in [Threads -> Cards \union {NoCard}]
  /\ sd \in {"off", "start", "fifo", "waiting", "exists", "enable", "saving", "dead"}
  /\ fifoMade \in BOOLEAN /\ fifo \in Seq({"add", "remove"})
  /\ ViewOK
  /\ unheard \in BOOLEAN /\ crossed \in BOOLEAN

\* When neither thread has anything left to do, settings persist and a card is
\* in, the card's file holds exactly the settings in force: whichever threads
\* saved, in whatever order, and whichever card it is.  Unless an event never
\* reached the MicroSD thread, or the threads crossed: both had the file open, or
\* persistence was enabled while the thread was told that the card is gone.
FileHoldsTheSettings ==
  AtRest /\ data[P] = Enabled /\ inserted # NoCard /\ ~unheard =>
    file[inserted] = data \/ crossed

\* A boot from a card brings back every setting that was in force when all was
\* last at rest with that card in, and never fails over its file; unless a start
\* from it was cut short since.  (A multiselect that was empty gets its default.)
Restored(d) == [a \in Attrs |-> IF IsMultiselect(a) /\ d[a] = {} THEN Default(a) ELSE d[a]]

BootRestores ==
  [][inserted # NoCard /\ saved[inserted] # NoFile /\ ~bootCut[inserted] =>
       /\ power \in {"off", "booting"} => power' # "failed" \/ inserted' = NoCard
       /\ power = "booting" /\ power' = "on" => data' = Restored(saved[inserted])]_vars

\* Settings.update after parse_settingsqr: a SettingsQR changes everything it
\* says or nothing at all, unless the card is pulled while it is being saved;
\* a malformed one changes nothing.  (Persistence itself may follow the card.)
QrIsAllOrNothing ==
  power = "on" /\ todo = << >> /\ job.qr =>
    \A a \in Attrs \ {P} : data[a] = job.meant[a]

\* tests/test_settings.py: "Settings should load previously saved persistent
\* settings from disk, if any exist": what was saved and at rest is there after
\* the next complete boot, however many boots were cut short before it.
SavedSettingsSurvive ==
  [][/\ power = "booting" /\ power' = "on"
     /\ inserted # NoCard /\ saved[inserted] # NoFile
     => data' = Restored(saved[inserted])]_vars
=============================================================================
