# SabiSigner in TLA+

SabiSigner is an air-gapped bitcoin signer: a Raspberry Pi with a camera, a
screen and a joystick, whose Python program holds seeds in memory and signs
psbts shown to it as QR codes. This fork adds a USB session through which a
wallet on a computer may, once the user has allowed it, have coinjoin rounds
signed without a question for each. Paths below are relative to
`src/src/seedsigner/`.

Four parts of the program are modelled.

* **USB.** Several actors (a host, a child process, the app's one thread, the user)
  act on one another, and a mistake costs money.
* **Navigation.** The Controller, its back stack and every flow the user walks through
  with it. The hard part is what a flow that was left half way, or a screen that BACK
  leads to again, does to the next one.
* **What comes in.** Codes seen in any order, repeated and mixed, put together into a
  message, and the transaction in it, written by somebody else, classified for a seed.
* **Threads and cards.** Toasts, the screensaver and background threads that share one
  display; a search thread that shares counters with its screen; a MicroSD thread that
  shares the settings and their file, with the power cut at any point.

## 1. Inventory

| Component | Source | State | Operations | What makes it hard | What makes it correct |
|---|---|---|---|---|---|
| Coinjoin policy | `usb/policy.py` | the authorization: limits, rounds used, fee spent | validate, sign, consume | long sequences of rounds that cost or earn; refusal after signing | budget, coverage, refusals are free |
| USB protocol session | `usb/protocol.py` | the authorization of the session | five request handlers, `handle_message` | handlers suspended on a prompt | only the user grants; an authorization is the approved one |
| HID framing | `usb/hidframe.py` | bytes so far, length declared | `encode`, `Decoder.push` | interrupted and malformed messages, chunk boundaries | whole messages arrive whole, bounded memory |
| Session runner | `usb/session.py` | state, channel, socket, is the gadget bound | start, attach, pump, complete_pairing, stop | calls that end the session from inside; stop twice | nothing before pairing, nothing after the end |
| Gateway process | `usb/gateway.py` | a blocking loop | spawn, loop, stop | dies at any time; may not die when told | lock step with the app |
| USB view | `views/usb_views.py`, `gui/screens/usb_screens.py` | the runner, what is on the screen | run, _pump, _confirm | the same thread draws, waits for the user and serves | off the bus when left |
| Secure channel | `usb/crypto.py` | keys, two counters | handshake, seal, open | an unreliable cable; counters at their limit | what is accepted was sent, in order; no nonce twice |
| Controller, back stack | `controller.py`, `views/view.py` | stack of destinations, storage, pending psbt | run view, pop, clear, error view | exceptions, background import | no dead end, no stale flow |
| Seed storage and seed flows | `models/seed_storage.py`, `models/seed.py`, `views/seed_views.py` | seeds, the pending seed or mnemonic | load, finalize, discard, verify | flows left half way | a pending seed never mixes with another |
| PSBT review | `views/psbt_views.py` | the controller's psbt and parser | overview, amounts, change checks, sign | back and forth through screens | nothing is signed unseen |
| Tools, scan views | `views/tools_views.py`, `views/scan_views.py` | flow state in the controller | entry points of the flows | dispatch on what was scanned | each kind of code reaches its flow |
| QR decoding | `models/decode_qr.py`, `helpers/ur2/`, `gui/screens/scan_screens.py` | type, segments or fragments so far | add_data, fountain reduction, the scan loop | parts in any order, repeated, mixed; a type guessed from the first frame | the message or an error |
| PSBT parser, ownership of scopes | `models/psbt_parser.py` | amounts, change, policy | parse, classify outputs, hint | claims nobody vouches for; multisig | what is shown as change is the wallet's |
| Settings, MicroSD | `models/settings.py`, `hardware/microsd.py`, `views/settings_views.py` | values, options, the file | boot, set, update, save, card events | two threads, card swapped, power cut | what is saved is what is set |
| Renderer, toasts, screensaver, buttons | `gui/renderer.py`, `gui/toast.py`, `views/screensaver.py`, `hardware/buttons.py`, `models/threads.py` | the lock, the canvas, the override flag | draw, interrupt, restore, wait | threads sharing one display | one drawer at a time, nothing stale left |
| Address search | `views/seed_views.py`, `gui/screens/seed_screens.py` | counter, index found | search, skip, report | three threads, one counter, results in two variables | nothing passed over, the right index |
| QR encoding | `models/encode_qr.py`, `helpers/ur2/fountain_encoder.py` | next part | next_part | - | what is shown decodes |
| Screens, keyboard, components | `gui/` | selection, scroll | draw, wait for input | the lock | - |
| Display drivers, camera | `hardware/displays`, `hardware/camera.py` | the panel | write pixels, read frames | pure I/O | - |
| Mnemonic, key arithmetic | `helpers/mnemonic_generation.py`, `helpers/embit_utils.py` | none | numeric | - | - |

How the USB parts call one another:

    host ==HID reports==> gateway process ==socketpair==> app's only thread
            HidFraming      (UsbLink)        (UsbLink)     UsbSessionView._pump
                                                             runner.pump
                                                               channel.open      SecureChannel
                                                               handle_message    UsbProtocol
                                                                 _confirm -> user
                                                                 sign_coinjoin_round  CoinjoinPolicy
                                                               channel.seal      SecureChannel

How navigation's parts call one another:

    Controller.start:  Destination.run() --> a View --> the user's answer
          ^                                   |  reads and writes
          |                                   v
          +---- Destination <---- seeds, pending seed and mnemonic   (storage)
                 skip, BACK,      resume_main_flow, psbt, parser, ... (controller)
                 clear, Home

A flow that needs a seed or a descriptor first leaves its name in
`resume_main_flow`; `SeedOptionsView` and `MultisigWalletDescriptorView` look at
it and send the user back.

From the camera to the review:

    camera --frame--> ScanScreen loop --> DecodeQR.add_data --> a decoder's add
                                              |  (QrScan)         UR: URDecoder, FountainDecoder
                                              v                   BBQR, Specter, base43, ...
                         ScanView: seed, psbt, settings, address, message, descriptor
                                              |
                       PSBTSelectSeedView (hint) --> PSBTOverviewView: PSBTParser.parse

Who is on the display, and who else runs:

    main thread: View -> Screen: [lock: draw] callback, wait_for ---- screensaver, inside of wait_for
    background:  the screen's thread (scroll, QR frames, progress)  [lock: draw]
                 toasts, started by Views or by the MicroSD thread   [lock: copy, draw, restore]
                 the address search (no display)
                 the MicroSD thread: settings, the file, toasts

## 2. Modules

| Module | Models | Extends / instantiates |
|---|---|---|
| `CoinjoinPolicy` | the rules of `usb/policy.py` as operators: no variables | - |
| `SpendingAllowance` | abstract specification: an allowance of rounds and satoshis | - |
| `UsbProtocol` | the request handlers as a state machine | extends `CoinjoinPolicy`, refines `SpendingAllowance` |
| `HidFraming` | sender, wire and `Decoder` | - |
| `UsbLink` | view + runner + gateway + host + user | instantiates `UsbProtocol` |
| `SecureChannel` | both ends of the channel and the cable | - |
| `Controller` | the main loop, Destinations, the back stack, Home, the shared views | - |
| `SeedFlow` | `SeedStorage`, the scanners, loading and discarding seeds | extends `Controller` |
| `BackupFlow` | new seeds, words, backup test, BIP-85, SeedQR transcription | extends `SeedFlow` |
| `AddressFlow` | address verification, descriptors, xpub export, address explorer | extends `BackupFlow` |
| `PsbtFlow` | choose a signer, review, sign | extends `AddressFlow` |
| `MessageFlow` | review and sign a message | extends `AddressFlow` |
| `SeedSigner` | the Controller running all of the flows, and their properties | extends `PsbtFlow`, `MessageFlow` |
| `ErasureCode` | abstract specification: what a receiver of a fountain code promises | - |
| `FountainDecoder` | the parts of the fountain encoder and the decoder's queue | refines `ErasureCode` (in `Scan`, proved in `ScanProofs`) |
| `QrScan` | the scan loop, `DecodeQR` and the scan views | extends `FountainDecoder` |
| `PsbtParser` | the parser, the hint and the choice of a seed | - |
| `Scan` | from the camera to the parsed transaction | extends `QrScan`, `PsbtParser` |
| `SettingsStore` | settings, their file, cards, the MicroSD thread, power cuts | - |
| `Display` | who draws: screens, their threads, toasts, the screensaver | - |
| `AddressSearch` | the search, its screen and its View, on the display | extends `Display` |
| `UsbProtocolProofs`, `UsbLinkProofs`, `HidFramingProofs`, `SecureChannelProofs`, `SettingsStoreProofs`, `AddressSearchProofs`, `ScanProofs` | theorems | the module they are named after, TLAPS |
| `SeedSignerInvariants` | what is true in between: the inductive invariants about the flows | `SeedSigner` |
| `SeedSignerProofs` | theorems: the loop, seeds, what the flows have shown | `SeedSignerInvariants`, TLAPS |
| `MC*` | small instances for TLC | the module they are named after |

Operators whose name is another operator's with a suffix (`Consume_CreditsGains`
for `Consume`) are mutants: the slip a programmer could make there. They are
used nowhere in a specification. For every property `PROJECT.json` names the
mutant that must break it.

### CoinjoinPolicy and UsbProtocol

A psbt is the record of what the policy reads from it: per input its outpoint,
the key claims of its scope, sighash, where its amount comes from, its value,
and whether a signature is already there. Amounts are integers; the derivation
of a key is a Boolean on the claim ("re-deriving this path gives this key"). Of an output
the record also says whether its script pays the key it claims (`pays_claim`). The policy does not
read that: what comes back to us is, for the code, what claims to (`OurOutputSat`). The properties are about what
a round really costs (`RealCostSat`).
`Validates` is `validate_coinjoin_psbt`, conjunct by conjunct. The code raises
at the first check that fails; since no check changes anything, the order only
chooses a text. embit's `sign_with` is external and modelled as free: it may
sign any subset of the inputs, or raise. Its signatures go to the fields the check after signing reads
(`listed`: `partial_sigs`, `taproot_sigs`) or, for the key path of a taproot input, to
`final_scriptwitness` (`key_path`), which it does not read.

A message is handled in one step, up to the `confirm()` that draws a prompt:
from there the handler is suspended in `prompt` until the user answers, and no
other message is handled, because the runner, the view and the prompt share one
thread. Every refusal and exception becomes an error reply (`Refuse`). `approved`
and `signed` are history: what the user said yes to, and what was signed since.

### HidFraming

Real report contents (bytes in sequences), chunk sizes as constants. The sender
may abandon a message at any report and start another (a host program that was
interrupted), and may also write reports of the wrong size, with unknown tags,
continuations out of place and starts that declare any length. History marks
each report that is the last one of an uninterrupted message, and whether any
report was written that is no encoding's (`junk`): only until then can the decoder
promise that nothing but whole messages comes out.
The gateway in the code exits at the first error; `HidFraming` keeps pushing
after an error, so that what it shows of the decoder does not depend on that.
The exit is in `UsbLink` (`Broken`).

### UsbLink

`pc` is where the app's thread is: in the menu, in `start()`, in the screen loop,
in front of the pairing screen or of a prompt, or in `stop()` waiting for the
child. Everything between two such places is one step. The gateway is a loop of
three blocking calls (`reading`, `awaiting`, `writing`) and may die at any of
them. `stop()` is two steps, because the gateway runs on while it is being
waited for; the child may also survive both timeouts (`lost`).

`attached = FALSE` is the app. `attached = TRUE` is the runner on a bare socket
(`attach()`), where the driver decides when to call `complete_pairing()`: the
test suite, or a developer's emulator. Only there can `pump()` run while the
session awaits pairing, so only there are early requests "dropped, not queued"
(`tests/usb/test_session.py`); in the app they wait in the gateway and are
answered after the yes. The choice is made once, in `Init`.

The requests a host makes are the constant `HostRequests`. Outside the model: the
user choosing a seed, the start prompt, the texts of the screens, dropping
privileges, and a bind that fails (it changes nothing).

### SecureChannel

Keys are symbols that are equal exactly when the shared point and both public
keys are. A record opens only under the keys and the direction it was sealed for;
HKDF, HMAC and the keystream are assumed perfect and the six digits to differ for
different transcripts (in the code they agree once in a million). The cable
keeps every key and record ever sent, delivers any of them at any time any number
of times, and may answer a hello with a key of its own, in which case it can seal
records for that channel. The user accepts only digits both ends show. The host
is the reference one, `handshake_initiator` plus `SessionChannel`. Where the code
would fail to pack an expected counter beyond 2^64 - 1 (an internal error, which
ends the session), the model finds no record with that counter, which ends it too.

### Controller and the flows

One step is one turn of `Controller.start`'s loop: a View runs, the user answers its
screen, and the Destination it returns is worked into the stack (`Turn`): skip the
current View, pop for BACK, clear, push unless it is on top, wipe if it is Home.
Each View is one action, named after it, guarded by `At`; a turn that only
redirects (`set_redirect`) is a turn like any other. A view is identified by its
class and arguments. `IsOnTop` follows `Destination.__eq__` with one twist of the code:
running a View replaces missing arguments by `{}`, so a new Destination without
arguments never equals the one below it.

`controller` holds the attributes that outlive a View, `storage` is `SeedStorage`,
`shown` is history (which items screens have displayed since Home), and `leaving` is
the user's mind: once TRUE, every answer is the one that gets out of the screen.
`errand` is what the user has come for, chosen once in `Init` from the constant
`Errands`, and holds the bounds: the views the user may choose to go on to, a length of
the stack, and the codes at hand to scan. `Choose` and its variants are the
answers that lead further in, and only they are guarded by the errand. It never
limits a way out, so a behaviour stays in a sub-graph of the app that can always
be left.
A View that raises goes where `handle_exception` sends it (`Raise`).

What data is: a mnemonic is a sequence of words with a set of valid ones standing
for the checksum; a seed is its words, kind and passphrase (compared by value, as
`Seed.__eq__` does); a transaction is what the parser finds in it for each seed:
numbers of addresses and of change outputs, whom they name, who derives them; a
message is its number of pages and what kind of path it asks for; an address is
its type and what derives it. The camera is a choice among codes, decoded.

Left out of the flows: outputs of value zero, redirects for a network mismatch
and for disabled options, `PSBTUnsupportedScriptTypeWarningView` (the parser
returns no transaction without a policy), the settings menu as screens (what it
changes is `SettingsStore`), and the USB entry of the main menu, which is
`UsbLink`. The address search is one step here; `AddressSearch` has its threads.

### ErasureCode, FountainDecoder, QrScan

A part carries the exclusive or of some fragments of one message. Data is symbolic:
a piece of data is the set of the fragments that went into it, and exclusive or is
the symmetric difference, which is all the decoder relies on. `ReceivePart` is
`receive_part` up to the queue; `ProcessQueueItem` is one `process_queue_item`, the
reductions it makes in the mixed parts included; the decoder is `Resting` when the
queue is empty. Which fragments a part mixes is drawn at random in the code and is
any set here; CRC-32 is perfect, so a result is the message or `BadChecksum`.

`ErasureCode` says what is promised without saying how: `Known`, the combinations of
fragments one can work out from what was received, only grows, by what each part
tells; a result comes only when every fragment is in it. The refinement maps `Known`
to the span of simple, mixed and queued parts together (`Span`), so it holds at each item of
the queue, and not only between frames.

In `QrScan`, what can be in front of the camera is a scenario: the codes in view, which
of them come round again for ever (`steady`), and the one message they are of, when they
are of one (`alone`). A code is a record: the formats its text can be taken for
(`looks`; the code tries them in an order, and so does `detect_segment_type`), its
message, and its place among the segments. Each code is given its format by itself, so the codes
of one sender may be taken for different ones, as a piece of a Specter wallet made of base64 characters
only is. What the pieces of two messages in one decoder make is left open: anything, or nothing that can be
read (`Verdicts`, `Inside`). A frame that is missed is a frame that
is not read. An exception in `add_data` is the state `raised`.

### PsbtParser and Scan

A psbt is what somebody else wrote: the claims of a scope (a fingerprint, a public
key, a path), the scripts, and the script that is really paid, in which keys are
hashed. A key is a root, a path and a parity, so that to re-derive a key is to
compare records; a script hash is its script. `parse` is one step: each of its
rejections, the policy of each input, the cosigners, the amounts, and for each output
whether it is change. `psbt` is a variable because the parser fills in derivations
that name nobody (four zero bytes), and the next seed's parser finds them filled in.

`Scan` puts both together: a scan whose outcome is a psbt leads to any transaction of
`Psbts`, the seed selection with its hint, the parser, back to the selection, and so on.

### SettingsStore

`data` is the dict, `file` the settings file of each card. A View's change, a settings
QR and a boot all become a list of `set_value` calls (`todo`), and each of these is
taken apart where the two threads or a power cut can come between: remove the file,
assign, check, open (which truncates), write. The MicroSD thread goes through a boot
of its own, makes its FIFO, reads events and handles them with the same steps; it has the FIFO open all the
while, so an event that comes before it is closed is dropped (`Handled`).
Four of the 25 settings stand for the kinds there are. `saved`, `bootCut`, `unheard`
and `crossed` are history.

### Display and AddressSearch

The lock has one owner. Everything between two acquisitions or releases of it, or
between two looks at a variable of another thread, is one step. `main` is where the
main thread is: drawing a screen, in its callback, on its way into the wait, in the
wait, in the screensaver (which runs inside of the wait), joining its thread. A toast goes
from its delay through copying the canvas, drawing over it, waiting, possibly yielding the
lock to a View that asks for it, to restoring what it copied. `activates` is a thread
in the middle of `activate_toast`, the main thread or the one that hears of cards: it stops the
screensaver, stops the toast before, notes its own, and starts the one that is noted, which may by then be
the other thread's. If it has been started already, the second start raises: in the main thread
that ends the program (`main` is "ended"), in the other one the thread.

The canvas is what matters of it: whether it is what the running screen drew last and
which toast is over it. Time is left out: a delay may end at any moment, and the
screensaver may start whenever the main thread waits.

`AddressSearch` adds the search thread, whose loop reads the shared counter, compares
addresses, publishes the index, publishes whether it is change, and counts; Skip 10 in
the main thread; and the View, which reads what was published while the thread may be
between the two. The progress thread is the background thread of `Display`.

## 3. Runs

| Run | Shows | Bounds and why they suffice |
|---|---|---|
| `usb` | `BudgetIsKept`, `AuthorizationIsTheApprovedOne`, `SignedRoundsAreCovered`, refinement of `SpendingAllowance` | fees -1..2 (and 3, of a round whose output is not ours) against limits 0, 2, 3 and up to 3 rounds: exactly on, one over and one under every limit, and a gain between two costs. Limits outside what is accepted (0 and 4 rounds, per-round above total) are included. One psbt for each check of the policy that fails only that one, one with an output of somebody else under a claim of ours and one that is all taproot, 2 to 3 inputs, 1 foreign input needed. The state space is finite without a constraint: the budget itself bounds it |
| `hid` | `MemoryIsBounded`, `UninterruptedMessagesArrive`, `FragmentsAreDropped` | messages of 0 to 8 bytes over chunks of 2 and 3 bytes: below, on and above each boundary and the size limit; every malformed report; 6 reports, enough for two interruptions and a whole 3-report message |
| `link` | `NothingBeforePairing`, `AnswersComeInOrder`, `EndedMeansForgotten`, `GatewayIsAnswered`, `LossIsNoticed` | the app and the bare socket; two sessions (so that something can leak from one to the next), five messages (a hello each, and three requests: grant, sign, anything), two waiting at the endpoint; unbinding may fail |
| `channel` | `EachHearsTheOther`, `PairingExcludesTheCable`, `NoncesAreUnique` | two sessions at each end, restarted independently; counters 0..2, so the limit is reached |
| `nav` | `TopOfStackIsRunning`, `WorkInProgressIsThere`, `SeedsAreValid`, `PassphrasesAreReviewed`, `BackupIsVerified`, `ExplorerShowsItsSource`, `ReviewIsCurrent`, `SignedIsReviewed`, `DescriptorVerifiesAll`, `PagesAndAddressAreShown`, `TheWayOutLeadsHome` | eight errands, below |
| `settings` | `FileHoldsTheSettings`, `QrIsAllOrNothing`, `BootRestores` | two cards, two changes, two card moves (a swap) and one power cut, at any step: a setting changed, persisted, cut off and booted again, and each of the two threads in the middle of the other's save. Settings QRs that are whole, partial, repeat a setting, name an unknown one, or go wrong in the second entry |
| `scan` | `EachScanIsUnderstood` (`OneSenderIsUnderstood` and `CompletesWithWhatWasShown`), `CompletesInTheEnd`, refinement of `ErasureCode`; `ChangeIsOurs`, `HintIsRight` | messages of three and four fragments: with three, every part there is, of which only three, one simple and two mixed, are steady (a reduction of a mixed part by a mixed one, and then a cascade); two senders; segments of two psbts and of another total; a Specter wallet one piece of which is taken for a psbt's; one of each single code, right and wrong, in each View. About 10000 transactions: eleven inputs (taken one and two at a time) and fourteen outputs (one and two), each true or false in one respect, with three sets of xpubs, for two seeds |
| `display` | `LockIsHeldByTheDrawer`, `RestoredUnlessCrossed`, `MainIsNotShutOut`, `NewsEndsTheSaver`, `SearchPassesNoAddress`, `ReportIsOfTheAddress` | two toasts over a QR code (whose thread draws the whole canvas), one over a menu and over the search started from it; addresses 0 and 1, Skip of 2, and an address found as change, found as receive, never found |
| `usb_dressed`, `nav_wiped`, `nav_paged`, `settings_boot` (violations) | see findings | the part concerned; `usb_dressed` has the bounds of `usb`, `settings_boot` has one card, one change and two cuts |

Navigation's instances have two words, mnemonics of two words, one valid last word
for each first one, hence two seeds. Two are what it takes for the wrong seed to be
taken. Each errand offers the views of its flow and the ways of loading a seed that
it resumes from; depth is enough for the flow from Home to its end, with a second
lap of its longest loop. A passphrase may be given but need not be (that it must be leads to the
same screens). The errands of `nav`:

* seeds (`WorkInProgressIsThere`, `SeedsAreValid`, `PassphrasesAreReviewed`): one Electrum
  mnemonic, one passphrase, all ways of getting a seed;
* copies (`BackupIsVerified`): made of entropy or derived, two pages of words, two words to
  confirm and a mistake on each; depth 9 reaches the last screen of both errands from
  Home, with a mistake in the backup test on the way;
* both of these together, six Views deep;
* addresses (`ExplorerShowsItsSource`): one of each way
  to decide the kind of signature, a descriptor, two script types of which one is
  custom;
* payments (`ReviewIsCurrent`, `SignedIsReviewed`): two true ones
  and a forgery, with two destinations, an OP_RETURN, change, and for each refusal of
  the parser one seed it refuses;
* multisig (`DescriptorVerifiesAll`): two change outputs, so that the descriptor can be
  loaded at the second, a deceit whose change is not the wallet's, and mixed policies;
* messages (`PagesAndAddressAreShown`): of one and two pages, one whose path is
  refused at once, and one refused by the address screen only;
* a message, a transaction and a descriptor, one while waiting for the other
  (`ReviewIsCurrent`), five Views deep.

An errand per behaviour, rather than everything on offer at once, keeps the state
space to the sum of the flows. What it leaves out is long sittings of all of them
at once; the flows meet only in the storage, the descriptor and
`resume_main_flow`, which each errand changes by itself. The theorems of `SeedSignerProofs` are
about any errands, so also about those.

`TypeOK` of a module says what its variables range over. It is no run's property; for
`UsbProtocol`, `UsbLink`, `HidFraming`, `SecureChannel`, `SettingsStore`, `Display` and
`AddressSearch` it is proved, by itself or as part of the inductive invariants.
Navigation has none, because a view's arguments have as many shapes as there are
views, and TLC stops at the first one that is not what its view expects.

Deadlock is checked in the protocol run and in navigation; elsewhere the behaviour ends when a
bound is used up, and the cfg says so. The cards of `SettingsStore` are symmetric: no
definition tells one from another, and its temporal property is one of single steps.

### What the weaker-sounding properties leave out

`RestoredUnlessCrossed` and `FileHoldsTheSettings` name in their hypothesis what the code
does not promise, because the model shows that it does not: a screensaver that starts over a
toast (each of the two then restores what the other has drawn), two threads with the settings
file open at once, a card event that is not heard because the FIFO does not exist yet or is closed over it, and persistence enabled
while its removal is being handled. `BootRestores` leaves out the cut-short boot, which
is the finding `settings_boot`. `ChangeIsOurs` says what is shown as change of a multisig
only when its cosigners can be told: without xpubs in the psbt any script of the same policy
passes, which the code marks as still to be done and the user is asked to verify with a descriptor.
It compares with the inputs that come with their own script: the parser does not check that, and an
input with another one makes a transaction the network refuses.
`ReviewIsCurrent` excepts a change screen without a transaction or a seed, which can be reached (section
4) and then shows nothing and leads Home. `TheWayOutLeadsHome` excepts a user who is typing an
Electrum mnemonic, which has no way out (section 4). `PagesAndAddressAreShown` is about the pages that were
made, which need not be those of the message that is signed (the finding `nav_paged`).
`BudgetIsKept` and the cost in `SignedRoundsAreCovered` are about rounds whose outputs pay what they
claim, without which `usb_dressed` shows the contrary, and the latter says nothing of signatures for a taproot key
path, which the code does not check (section 4). `OneSenderIsUnderstood` allows the scan to raise when codes of one sender are taken
for different formats, and when a single-frame decoder raises. `CompletesWithWhatWasShown` allows pieces of two
messages of the same format and length to be put together: the code cannot tell them apart. `WorkInProgressIsThere` leaves
`SeedMnemonicEntryView` out: BACK from the first word of an invalid mnemonic discards the
mnemonic, and Review & Edit then asks for the words of none. `ReportIsOfTheAddress` is about the index, and
allows the kind to be missed (section 4).

### Fairness

Fairness is assumed in `UsbLink`, `SeedSigner`, `Scan` and `AddressSearch`.

* `UsbLink`: weak fairness of the gateway's steps, of
  the app's `pump`, of `start()` and of `stop()`. The first two are loops that
  never wait on anything but their socket, the endpoint or the user; `stop()` has
  timeouts. No fairness is assumed of the host or the user, nor that a gateway ever
  dies. So the liveness properties say "unless the user is being waited for": while
  a prompt or the pairing digits are on the screen, the app does not look at its
  socket at all.
* `SeedSigner`: weak fairness of the views together. The loop runs a View as
  soon as the last one has returned, and the user answers the screen. Nothing is
  assumed of which answer is given: `TheWayOutLeadsHome` holds because every answer
  a user bent on leaving can give gets nearer to Home.
* `Scan`: weak fairness of working off the queue, which is a loop, and of its end; strong
  fairness of seeing a steady code that is news (`SeesNews`): an animation that comes round
  again and again is eventually caught at each of its frames, while other codes may come
  between them without end. Without a steady set that determines the message nothing is
  claimed. (The condition on `WorksOff` is weak fairness written out: its ENABLED would be evaluated
  over all queues.)
* `AddressSearch`: weak fairness of each thread by itself, since each runs whatever the others do;
  strong fairness of the main thread's acquisition of the lock alone. `threading.Lock` is not
  fair by its contract, but a background thread sleeps between two drawings for far
  longer than a waiting thread takes to wake up. So `MainIsNotShutOut` is about the lock being
  given back, whoever has it. No button is ever assumed to be pressed:
  `NewsEndsTheSaver` holds on an unattended device.

## 4. Findings

* `usb_dressed`: a coinjoin output is ours, for the policy, when its scope names a key that this
  seed re-derives. That the script of the output pays the key is not checked, so value that goes to
  somebody else can be counted as coming back, although a comment says that this is excluded.
* `nav_wiped`: a seed that is noted in `sign_message_data` signs after it was wiped: Home
  and discarding wipe a list of attributes, and `sign_message_data` is not on it.
* `nav_paged`: the screen that pages a message does so once, and keeps the pages in
  `sign_message_data`. A message whose path is clean but of no known script is reviewed and then
  refused by the address screen with an exception; Home leaves the pages where they are, and the message
  scanned next is signed after the pages of the first were shown.
* `settings_boot`: a boot puts the saved settings in place one at a time, and each
  `set_value` saves. From the moment persistence is in place, those saves write a file whose remaining
  settings have their defaults. If the power is cut there, what was saved is lost. The run:
  a settings QR changes two settings and switches persistence on; the power is cut, in the
  boot that follows it is cut again after the first save, and the next boot has the defaults.

What else was met on the way, and has no run of its own:

* USB. "A signature anywhere else discards the whole round" (`usb/policy.py:293`) is true of `partial_sigs`
  and `taproot_sigs` only. embit puts the signature for a taproot key path in `final_scriptwitness`
  (`models/psbt_parser.py:392`), where the check does not look: one on an input that was not approved passes,
  and a round whose own inputs are all taproot, which `validate_coinjoin_psbt` accepts, is signed and
  then refused with "Round produced no signatures". Both are in the model (`SignWith`, `SignedResultIsApproved`). `_unbind_gadget` marks the gadget unbound before it runs the tool and ignores its exit
  status, so a failure leaves the device on the bus (`src/docs/usb_security.md` says it comes off). A request sent while
  the user compares the digits is answered in the app, since it waits in the gateway.
* Flows. BACK from the first word of an Electrum mnemonic, which "cancels the mnemonic entry process"
  (`views/seed_views.py:232`), leads to a warning without a back
  button that leads to the first word; the only way out is a mnemonic that is complete.
  MultisigWalletDescriptorView leads to the change screen of a transaction
  whenever `resume_main_flow` is "psbt", and giving up the flow with BACK leaves it so: a
  transaction scanned while a message waits for its seed, given up in favour of a
  descriptor, leads to the change screen without a transaction, of which `views/psbt_views.py:332`
  says "Should not be able to get here". A transaction with an OP_RETURN and nothing else is taken for a self-transfer and ends in an
  error. BACK on a message's first page (`views/seed_views.py:2177`) drops the message but not the
  screen that asks for its seed. A singlesig address scanned with a descriptor in
  memory is searched for in the descriptor. The last two end in an error or a search in vain.
* Settings. The MicroSD thread ends with an exception when two events are read as one text
  (`hardware/microsd.py:67`); events before its FIFO exists, and while one is handled, are lost. A file that both
  threads write may be torn, and a torn file makes the boot fail. The persistence entry is
  shown with the options it had when the View was made. A settings QR may give a list to
  a setting that takes one value.
* Scanning. One glimpse of another sender's UR locks the decoder to it. Segments of
  equal total of two BBQR or Specter codes are put together, and end in an exception,
  in no psbt, or in what can be read of the two. A segment of a Specter wallet made of base64 characters only is taken for a psbt, and the change of type raises. The first
  duplicate of a mixed part is reported as new; the progress estimate can fall.
* Parser. Of two OP_RETURNs only the last is shown, and the value of one is counted nowhere.
  Multisig change without derivations ends in an IndexError in the overview.
* Display. The thread that notices a find calls `trigger_override()` once and ends; `wait_for`
  clears the flag on entry (`hardware/buttons.py:76`). If the thread comes in between the screen's
  callback and the wait, the screen stays until a button is pressed, although a comment says that it is broken
  out of the wait (`gui/screens/seed_screens.py:1493`). "Can only run one toast at a time" (`controller.py:420`) is not so when the
  main thread and the MicroSD thread activate one each: both may pass the check before either notes its own, and one
  may start the other's, which raises. A toast that the screensaver started over may be left on the screen. Two
  toasts and a screensaver may bring back an old screen. A toast that is started while the screensaver
  is about to run stays behind it until a button is pressed. A toast that ends the wait of a QR code's screen leaves
  that screen. An address found as change is reported as receive when the View looks
  between the two publications, which `ReportIsOfTheAddress` therefore allows.

## 5. Proofs

Eight modules hold theorems, proved for every value of the constants under the
assumptions named in the modules they are about.

**`UsbProtocolProofs`** (assumptions: bounds are naturals, limits and
fees are integers, sentinels are not values): `TypeCorrect`, `BudgetTheorem`, `CoverTheorem`
(`SignedRoundsAreCovered`: what is covered are the inputs and the signatures the code looks at), `ApprovalTheorem` (`AuthorizationIsTheApprovedOne`), and
`AllowanceRefinement`: `UsbProtocol` implements `SpendingAllowance`.
The argument is one inductive invariant, `IInv`: the type invariant, the three
properties, and `PromptWasChecked`, that an authorization prompt on the screen is
for a request whose fields passed `AuthorizeFieldsAreValid`. Without the last, the
step in which the user says yes could install limits that were never looked at.
There is a lemma for each kind of step: quiet steps, refusals, the charge
of a round (`ChargeStep`, from what `Validates` bounds), a grant, and the end of a
session; `HandleMessageStep` and `AnswerStep` put them together.

`SpendingTheorem` (`BudgetIsKept`) is about a sum over any selection of those signed rounds whose outputs pay
what they claim, which is a recursive function over the log of them. Of these the real cost is the
one the policy computes; of the others it may be more, and no theorem bounds it. `EverySelectionIsCharged` says of every
selection that its sums exist and come to no more than the authorization was charged.
A round appended adds one sum to them, which the charge covers because a gain is never credited
(`Consume`). So the induction over the log is the induction over the steps.

**`UsbLinkProofs`** (any number of sessions, messages and requests, any length of the queues):
`TypeCorrect`, `PairingTheorem` (`NothingBeforePairing`), `OrderTheorem`
(`AnswersComeInOrder`) and `ForgettingTheorem` (`EndedMeansForgotten`), from one inductive invariant:

* `EndedIsBare`: between sessions the app's thread is in the menu or just leaving, and there is no
  channel, no socket, no bound gadget and no gateway. With the types this is
  `EndedMeansForgotten`.
* `OnlyReadyIsTrusted`: an authorization exists only while READY, and a suspended handler serves the
  last record that was opened on the channel in force.
* `FreshUntilHello`: a session starts with empty pipes and no channel, and the channel its
  hello makes is one that no answer so far was for.
* `AnswersArePaired`: every answer anywhere (in the pipe, with the gateway, at the host) is for
  a channel the user accepted.
* `TransitIsNumbered`: while somebody is there to deliver replies, those on their way carry the last numbers
  handled, without a gap, and those heard are all the numbers before. When the gateway dies with
  a reply in its hands there is a gap, but then nothing is delivered any more: without
  that condition the clause is not inductive.

What the host hears next therefore carries the number of answers it has heard. The log's
part for one channel is a set of positions (`HeardOn`), so that counting is done on finite sets.

**`HidFramingProofs`**: `MemoryTheorem` (`MemoryIsBounded`), for any chunk sizes and any
largest message. It is inductive together with the types; what needs
an argument is that a chunk is cut to what is missing (`Collect`).

`ArrivalTheorem` (`UninterruptedMessagesArrive`) and `FragmentTheorem` (`FragmentsAreDropped`), action properties,
for any messages and sizes (the sentinel Idle is not a message). `StreamInv` follows
a message along the wire: `Ends` says that the first k of its reports end at some place of the wire, one after
the other, and that those which have been read are in the decoder (`Has`). This is true of the
message being written (`StillToWrite`), of each that is marked as complete, and without junk of every report on the
wire (`OnTheWire`). What encoding and decoding do is in a few lemmas: how many reports a message has
(`RoundedUp`, `RoomFor`: room for it, and one less has none), that neighbouring slices are a slice (`SlicesJoin`), and
that a push of the next report leaves the decoder with one more of them, or delivers the message (`PushOfReport`).

**`SecureChannelProofs`**: `TypeCorrect`, `PairingTheorem` (`PairingExcludesTheCable`),
`NonceTheorem` (`NoncesAreUnique`) and `HearingTheorem` (`EachHearsTheOther`), for any number of sessions and any last counter. The invariant says that the channel
of each end is made from its own key of its present session, in its own place (`HostEnd`,
`DeviceEnd`), and that every record on the cable in a direction is sealed under an own key of the sealing end,
of an earlier session, or of the present one with a counter below that of the channel (`Sealed`). The next
record is therefore unlike all there are: a fresh key is in no record, and the counter is
above all under this key. Hearing needs the logs as well (`Hears`): a record's number is its
place among the records of its keys in the log of the end that sealed it, and an end's counter is how many of
these it has opened. The cable cannot have made a record that opens unless the keys of the
channel are its own, which the hypothesis of the property names and pairing excludes.

**`SeedSignerProofs`**: `TopOfStack` (`TopOfStackIsRunning`), for any seeds, words,
transactions, messages and errands. The inductive invariant (those of this
module are in `SeedSignerInvariants`) adds `StackOK`, that the
stack holds names and arguments only: a Destination that equals the top of the stack
is not pushed, and equality compares just these. `TurnStep` is the argument, for any
Destination a View may return: skipping pops, and the stack can only be empty at Home,
so the one View that must not return a Destination that skips it is Home, and it does
not. Each action of each flow is then one step that cites it.

The same module proves three properties of seeds, for any wordlist, any length of a mnemonic and
any errand: `WorkIsThere` (`WorkInProgressIsThere`), `ValidSeedsOnly` (`SeedsAreValid`) and
`PassphraseTheorem` (the action property `PassphrasesAreReviewed`). Besides what `SeedFlow`
assumes of mnemonics, None is assumed to be no seed, no word and no record of arguments
(`NoneAssumption`), and some last word to complete whatever comes before it
(`ChecksumAssumption`: the last word has 7 or 3 bits that are not checksum). That a
View finds what it works on is not inductive by itself, because it may
be entered by BACK. `SeedInv` therefore speaks of the whole stack. Each entry has arguments that make sense, and a pending seed if it
needs one (`EntriesOK`); of two entries, the upper one may be on the lower one (`MayBeOn`,
`StackedOK`), which keeps the Views that finalize or discard the pending seed on top of all
others, since none of them leads on without clearing or leaving the stack; the words before the one
that is being typed are there (`TypedOK`); and the pending seed has a passphrase on the passphrase
screens only (`NoPassphraseUnseen`). `Landing` says for any Destination where a turn leaves the
stack: a prefix of what it was and the View that runs.

The rest of the module is about the stack and what has been on the screen, each property from an
invariant of its own on top of those above.

`BackupTheorem` (`BackupIsVerified`), for any length of a mnemonic: each entry of the stack that belongs to a backup test
carries the words confirmed so far, each of them was displayed as confirmed, no word is
twice among them, and one that is asked for again after a mistake is none of them
(`Confirms`). As many different words as the mnemonic has are all its words, by finite
sets (`AllConfirmed`). `ExplorerTheorem` (`ExplorerShowsItsSource`): the AddressType screen leads nowhere
but to the listings and they are reached through it only, so at most one is in the history,
right below the listings, and while one of them runs the explorer's data are that screen's
(`ExplorerInv`). The View sets the data each time it runs, also when BACK leads to it, which is
what this rests on.

`ReviewTheorem`, `SignedTheorem` and `DescriptorTheorem` (`ReviewIsCurrent`, `SignedIsReviewed`,
`DescriptorVerifiesAll`) hold for any transactions, with any number of destinations and change outputs, any
descriptors, seeds and errands; of the constants they assume that None is nothing a View is passed and
that the parts of a transaction are of their kinds (`NoneAssumption`, `AddressAssumption`,
`PsbtAssumption`, `MessageAssumption`). Their invariant is `SigningInv`:

* `KnownSeeds`: a View about a seed is about one that is in memory, wherever it is on the stack. Discarding
  leads Home, which is why; and no seed's menu opens in a flow that began with the scanner, so the
  seed chosen for a transaction cannot be discarded below its review.
* `ReviewStacked`: above the overview there are only screens of the review and those by which a
  descriptor is loaded. That is what keeps the parser from being replaced while a screen below was
  made for it, since a rescan and another seed are below the overview.
* `ReviewReached`: at every entry of the stack, what the review has to show before it has been shown (`Reached`).
  It is about the whole stack because BACK may lead to any of it, and BACK from the overview must drop
  the parser only with nothing of the review above. The exception is the change screen that is left without a transaction, here the state
  `Idle`.
* `ScanIsApart`: a flow that began with a scanner does not resume a transaction that was read
  before. Without it the descriptor's screen might lead into somebody else's review.
* `ParserOK` and `OverviewOK`: the parser is of the transaction in memory and of the seed chosen last, as soon as
  something is above the overview; what is signed is that transaction, trimmed.
* `DescriptorOK`: with a descriptor the change before each entry has been verified, or the
  descriptor's screen is above the entry. That one leads to the first change output, so the entry
  that was not verified is passed again.

`PagesTheorem` (`PagesAndAddressAreShown`), for any messages of any number of pages, rests on `MessageInv`:
above an entry of a message's review there are only later pages and what follows them, so that
BACK from the first page, which drops the data, leaves the review as a whole; and each entry has
the pages before it on the screen already (`ShownBefore`). That these are the pages of the message
cannot be proved, and the attempt is what led to `nav_paged`.

**`AddressSearchProofs`**: `NoAddressIsPassed` (`SearchPassesNoAddress`) and `ReportIsRight`
(`ReportIsOfTheAddress`), for any bound, any target and any size of a skip. `SearchInv` relates the counter
to what was compared at each place of the loop: while the thread has read but not yet counted, the counter has
one less than what was compared and skipped (`Counted`), and without skips
what was compared is everything below (`NothingPassed`). `IsFiniteSet` of the checked indexes is part of
the types, so that adding one to a set adds one to its size.

The module also proves `LockIsTheDrawers` (`LockIsHeldByTheDrawer`), for any toasts and any
screens that follow one another, and of the specification with the search. It needs no more than that a
toast's name is not "main", "worker" or "free". The
strengthening is `StartsInOrder`: a thread that is about to start a toast finds one noted, though
perhaps the other thread's, and the main thread starts one before its first screen only, so that it is
not the owner of the lock when a second start ends it. A toast that was started is not started again
(`FailsToStart`); otherwise it could be reset while it holds the lock.

`ScreenIsRestored` (`RestoredUnlessCrossed`) is about what is on the canvas, for any number of toasts that start
over one another, give the lock away and take it back. A toast that shows itself has kept a copy of
what was there. The invariant (`RestoreInv`) says what such a copy is: the screen, or something another toast has
drawn that gave the lock away and will put back the screen itself (`CopiesOK`). There is at most one that
was told to give it away, and only between the start of the screensaver and its copy (`OneGives`): a
toast that is still alive when the copy is made is what the hypothesis excludes, so that the copy of the
screensaver is the screen.

**`ScanProofs`**: `ErasureCodeTheorem` (the refinement `ImplementsErasureCode`), for any messages of
any number of fragments, any parts of them and any scenario. Each action of `Scan` is a step of
`ErasureCode`, leaves its variables alone, or leaves the View. The argument is linear algebra over two elements.

* `Known` is the least set that holds what each part tells (`Told`) and is closed under exclusive or (`Spans`,
  `KnownIsWhatWasTold`). That set depends neither on the order of the parts nor on where they are kept, so
  a step of the queue keeps `Known` when each part that goes follows from those that stay, and the
  other way round (`NothingIsLost`). `Reducing` says that of one reduction; `ReducingByAll` and `MixedReducing`
  of the two loops of the code, by induction along the parts.
* The data go with the indexes: a part the decoder holds is the part an encoder makes of these fragments
  (`PartsOf` in `DecoderInv`). So that setting a key of the dict again changes nothing (`Putting`), and
  the fragments, once all are there, are the message's and pass the checksum.
* A new part is `Learn` (`OneMore`). The last fragment is `Deliver`, because with all single fragments every
  combination is known (`AllIsKnown`).

It is assumed that parts are what a FountainEncoder makes (`PartsAssumption`): a part is read only when its own
checksum is right.

`ScanTheorem` (`EachScanIsUnderstood`) has two halves. `OneSenderTheorem` (`OneSenderIsUnderstood`) is about any scenario whose codes are of one message
(`IsOneSender`: parts and damaged frames of a UR, the segments of another animated code, numbered
and with one total, or codes of a single frame; whatever each of them is taken for). `Understood` is the strengthening: the
decoder expects that message or none yet, a segment is empty or the one that belongs there
(`SegmentStep`), `complete` is set only together with the message, and the scan has raised or refused only for one of
the reasons the property names. That a UR's result is the message and
no `BadChecksum` is `DecoderInv`. `ShownTheorem` (`CompletesWithWhatWasShown`) is about any scenario, mixed ones
included: each piece in the decoder has been shown for its place, in the format and total decoded.

The same module has `ChangeTheorem` (`ChangeIsOurs`) and `HintTheorem` (the action property
`HintIsRight`), for any transactions with any number of inputs, outputs and claims, any seeds and any
order in which they are tried. Of a transaction it is assumed that it has the fields embit reads
(`PsbtsAssumption`), of the names that NoSeed is none (`ParserAssumption`). Two things meet in the proof.

* What one policy means (`OnePolicyOneRoots`). A cosigner is in the policy only after a key of the script was
  derived from its xpub, so the keys of a script and its cosigners have the same roots (`CosignersHaveTheKeys`),
  and equal policies have equal roots. That a script hash is that of the script in the
  transaction is checked of an output and not of an input. So the property is about the inputs
  that can be spent with the script they come with (`HasItsScript`). A single-sig output pays a key the
  parser has derived from the seed itself (`KeyIsTheSeeds`); one with a script of its own needs that script, or
  parsing raises.
* The report is of the transaction in memory (`ReportOK`), although each parser writes the fingerprints it
  finds into it and the report of an earlier seed may be shown again. A rejected claim ends
  the flow, and a seed that cannot sign drops the report, which is what keeps this true.

The hint and the parser agree because filling in the missing fingerprints turns just the claims that the hint
re-derives into claims of the seed (`HintFinds`), and it does not matter that another seed's have been
filled in before.

**`SettingsStoreProofs`** (any cards, any settings QRs, any number of changes, card moves
and power cuts; a missing and a torn file are not settings): `TypeCorrect`, `FileTheorem`
(`FileHoldsTheSettings`), `QrTheorem` (`QrIsAllOrNothing`) and `BootTheorem` (the action property
`BootRestores`). Four invariants, each above the one before:

* `Sound`: the types, and which thread is where when it has calls of `set_value` left to make.
* `Keeps`: when settings persist, the file of the card in place holds them, or something is `Pending` that writes
  it or turns persistence off (`HoldsOrWill`): a save under way in one of the threads, an event
  that waits. That a card which was pulled is going to be noticed needs
  `LastSaysSo` (the last event waiting says whether a card is in) and `NoCardNoPersistence`.
  At rest nothing is pending, which is `FileHoldsTheSettings`.
* `Means`: the calls a settings QR still has to make lead to what it means (`OnTheWay`). `Updates` shows
  that the list of calls has one for every setting: the calls are made in the order of a dict, the i-th of them
  is the one with i - 1 before it, and that there is one for every i is an argument about
  cardinalities (`Ranks`).
* `Remembers`: a card that is not being started from has the file that is remembered of it (`Kept`), and a start
  from it leads to what is remembered (`Recalls`), however the boot's own saves overwrite the file meanwhile.

Only model-checked is liveness, which the prover cannot do: `GatewayIsAnswered`, `LossIsNoticed`,
`TheWayOutLeadsHome`, `CompletesInTheEnd`, `MainIsNotShutOut` and `NewsEndsTheSaver`. All invariants,
action properties and refinements the passing runs check are proved. Induction over the naturals is done
where it is needed by the well-foundedness of finite sets (`LeastNumber`, `UpTo`), and a function defined by
recursion along a sequence is shown to exist in the same way (`Iterates`); the library's induction
theorems, which take an operator, cannot be applied.

## 6. Not modelled, and why

* Drawing and layout (`gui/components.py`, most of `gui/screens/`), the keyboard, display drivers and the
  camera: I/O and geometry; the locking they do is in `Display`.
* Key arithmetic, mnemonic generation and `helpers/embit_utils.py`: numeric, on top of embit
  and hashlib; keys are symbols here.
* Text: how a frame's text is matched and parsed (`models/decode_qr.py`), the static and line-by-line encoders of
  `models/encode_qr.py`, bytewords, CBOR, wording and locales. A model that checks strings
  would be the regular expressions over again.
* When a held button repeats (`hardware/buttons.py`), the freeze of a quarter of a second after
  the screensaver, and every other duration: time is nondeterministic.
* The background import of the seed storage, the start prompt and the seed selection of the USB view,
  dropping privileges in the gateway, the cache of derived keys, loading a locale, and starting the
  display again after its driver was changed.
