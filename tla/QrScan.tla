------------------------------- MODULE QrScan -------------------------------
(***************************************************************************)
(* Scanning: the loop of ScanScreen, the DecodeQR it feeds with what the   *)
(* camera sees, and what the ScanViews do with the outcome                 *)
(* (gui/screens/scan_screens.py, models/decode_qr.py,                      *)
(* helpers/ur2/ur_decoder.py and views/scan_views.py).                     *)
(*                                                                         *)
(* What the camera may see is a scenario: some codes in any order, missed, *)
(* repeated and, when several senders are in view, mixed.  A code is a     *)
(* record of what the decoders read from it; the text is left out.         *)
(***************************************************************************)
EXTENDS FountainDecoder

CONSTANTS
  Holds,      \* what is inside a message, [Messages -> Contents]
  Scenarios   \* what may be shown to the camera: scenarios by name, see Scenario

Contents == {"psbt", "seed", "settings", "address", "message", "multisig descriptor",
             "single-sig descriptor", "setup file", "junk"}

ASSUME ScanAssumption == Holds \in [Messages -> Contents] /\ "over" \notin DOMAIN Scenarios

VARIABLES
  scenario,  \* which of the scenarios this scan is in, "over" after it
  scan,      \* "reading", "working", "done", "raised", "routed"
  qrType,    \* DecodeQR.qr_type, "None" at first
  whole,     \* what a decoder completed with: URDecoder.result, or the single frame
  segments,  \* segments of an animated code that is not a UR
  complete,  \* DecodeQR.complete
  status,    \* the DecodeQRStatus of the latest frame
  got        \* what ScanView.run gave to the Controller or to the next View

scanVars == <<fountainVars, scenario, scan, qrType, whole, segments, complete, status, got>>

-----------------------------------------------------------------------------
(* Codes.  "looks" names the tests of detect_segment_type the text passes. *)

\* The formats in the order they are tried.
DetectionOrder ==
  <<"psbt__ur2", "output__ur", "account__ur", "psbt__specter", "bytes__ur", "psbt__base64",
    "psbt__bbqr", "wallet__specter", "wallet__configfile", "wallet__generic", "seed__seedqr",
    "bitcoin_address", "sign_message", "settings", "seed__mnemonic", "seed__four_letter_mnemonic",
    "psbt__base43", "seed__compactseedqr">>

detect_segment_type(f) ==
  LET i == SelectInSeq(DetectionOrder, LAMBDA t : t \in f.looks)
  IN  IF i = 0 THEN "invalid" ELSE DetectionOrder[i]

UrTypes       == {"psbt__ur2", "output__ur", "account__ur", "bytes__ur"}
AnimatedTypes == {"psbt__specter", "psbt__bbqr", "wallet__specter"}

UrPart(looks, m, p)  == [kind |-> "part", looks |-> looks, of |-> m, part |-> p]
UrWhole(looks, m)    == [kind |-> "whole", looks |-> looks, of |-> m]
\* A UR whose sequence, checksum or words are damaged: receive_part catches that.
UrDamaged(looks)     == [kind |-> "damaged", looks |-> looks]
Segment(looks, m, n, total) == [kind |-> "segment", looks |-> looks, of |-> m, num |-> n, total |-> total]
\* The outcome of the single-frame decoder's add: "COMPLETE", "INVALID" or "raises".
Single(looks, m, outcome) == [kind |-> "single", looks |-> looks, of |-> m, adds |-> outcome]

\* shows: the codes in view; steady: those that come round again and again;
\* alone: the one message they are of, if all are in order and of one sender.
Scenario(view, shows, steady, alone) ==
  [view |-> view, shows |-> shows, steady |-> steady, alone |-> alone]

Now == Scenarios[scenario]

NoPiece == [of |-> NoMessage, num |-> 0]
Nothing == [as |-> "nothing", of |-> NoMessage]

DecoderIsNew ==
  /\ FountainInit
  /\ qrType = "None" /\ whole = NoMessage /\ segments = << >>
  /\ complete = FALSE /\ status = "FALSE"

ScanInit == DecoderIsNew /\ scenario \in DOMAIN Scenarios /\ scan = "reading" /\ got = Nothing

-----------------------------------------------------------------------------
(* ScanScreen._run and DecodeQR.add_data: one frame. *)

\* The first code decides which decoder there is; another type of code raises.
Accepts(t) == qrType \in {"None", t}

Reads(f) ==
  /\ scan = "reading"
  /\ f \in Now.shows
  /\ Accepts(detect_segment_type(f))
  /\ qrType' = detect_segment_type(f)
  /\ UNCHANGED <<scenario, got>>

TypeChanges(f) ==
  /\ scan = "reading" /\ f \in Now.shows
  /\ ~Accepts(detect_segment_type(f))
  /\ scan' = "raised"
  /\ UNCHANGED <<fountainVars, scenario, qrType, whole, segments, complete, status, got>>

ReadsUnknown(f) ==
  /\ Reads(f)
  /\ detect_segment_type(f) = "invalid"
  /\ scan' = "done" /\ status' = "INVALID"
  /\ UNCHANGED <<fountainVars, whole, segments, complete>>

\* The frame completes the code, is unusable, or the loop goes on.
EndsWith(st) ==
  /\ status' = st
  /\ complete' = (st = "COMPLETE")
  /\ scan' = IF st \in {"COMPLETE", "INVALID"} THEN "done" ELSE "reading"

\* URDecoder.receive_part.  The exclusive or is worked out in steps of their own.
ReadsPart(f) ==
  /\ Reads(f) /\ detect_segment_type(f) \in UrTypes
  /\ f.kind = "part"
  /\ ReceivePart(f.of, f.part)
  /\ IF PartIsValid(f.of)
     THEN scan' = "working" /\ UNCHANGED <<status, complete>>
     ELSE EndsWith("PART_EXISTING")
  /\ UNCHANGED <<whole, segments>>

\* A UR of a single part is the result whatever parts came before it.
ReadsWhole(f) ==
  /\ Reads(f) /\ detect_segment_type(f) \in UrTypes
  /\ f.kind = "whole"
  /\ whole' = f.of
  /\ EndsWith("COMPLETE")
  /\ UNCHANGED <<fountainVars, segments>>

ReadsDamaged(f) ==
  /\ Reads(f) /\ detect_segment_type(f) \in UrTypes
  /\ f.kind = "damaged"
  /\ EndsWith("PART_EXISTING")
  /\ UNCHANGED <<fountainVars, whole, segments>>

WorksOff ==
  /\ scan = "working"
  /\ ProcessQueueItem
  /\ UNCHANGED <<scenario, scan, qrType, whole, segments, complete, status, got>>

\* The fountain decoder's result is asked for only when the part brought news.
PartIsDone ==
  /\ scan = "working" /\ Resting
  /\ IF ~NewInfo THEN EndsWith("PART_EXISTING") /\ UNCHANGED whole
     ELSE IF result = NoMessage THEN EndsWith("PART_COMPLETE") /\ UNCHANGED whole
     ELSE whole' = result /\ EndsWith("COMPLETE")
  /\ UNCHANGED <<fountainVars, scenario, qrType, segments, got>>

-----------------------------------------------------------------------------
(* BaseAnimatedQrDecoder.add and the single-frame decoders. *)

Collected(pieces) == {i \in DOMAIN pieces : pieces[i] # NoPiece}
InOrder(pieces)   == \E m \in Messages : \A i \in DOMAIN pieces : pieces[i] = [of |-> m, num |-> i]
\* Pieces of two messages, put together, are neither, and nothing tells.
Together(pieces)  == IF InOrder(pieces) THEN pieces[1].of ELSE BadChecksum

IsJsonWithDescriptor(m) == Holds[m] \in {"multisig descriptor", "single-sig descriptor"}

\* is_valid, asked when all the pieces are there.  Those of two wallets may make a third.
Verdicts(pieces) ==
  IF qrType' # "wallet__specter" THEN {"COMPLETE"}
  ELSE IF ~InOrder(pieces) THEN {"COMPLETE", "INVALID"}
  ELSE IF IsJsonWithDescriptor(Together(pieces)) THEN {"COMPLETE"} ELSE {"INVALID"}

\* segments[num - 1]: a segment numbered 0 is the last one.
SlotOf(f) == IF f.num = 0 THEN f.total ELSE f.num

\* Mutant: a segment that was there already is counted again.
AddsSegment_CountsAgain(f) ==
  LET before == IF segments = << >> THEN [i \in 1 .. f.total |-> NoPiece] ELSE segments
      after  == [before EXCEPT ![SlotOf(f)] = [of |-> f.of, num |-> f.num]]
  IN  /\ segments' = after
      /\ EndsWith(IF Cardinality(Collected(before)) + 1 >= Len(after) THEN "COMPLETE" ELSE "PART_COMPLETE")

\* Mutant: whether all are there is asked before the new one is counted.
AddsSegment_CountsTooLate(f) ==
  LET before == IF segments = << >> THEN [i \in 1 .. f.total |-> NoPiece] ELSE segments
  IN  /\ segments' = [before EXCEPT ![SlotOf(f)] = [of |-> f.of, num |-> f.num]]
      /\ EndsWith(IF Collected(before) = DOMAIN before THEN "COMPLETE" ELSE "PART_COMPLETE")

AddsSegment(f) ==
  LET before == IF segments = << >> THEN [i \in 1 .. f.total |-> NoPiece] ELSE segments
      after  == [before EXCEPT ![SlotOf(f)] = [of |-> f.of, num |-> f.num]]
  IN  IF Len(before) # f.total \/ SlotOf(f) \notin DOMAIN before
      THEN scan' = "raised" /\ segments' = before /\ UNCHANGED <<status, complete>>
      ELSE IF before[SlotOf(f)] # NoPiece
      THEN EndsWith("PART_EXISTING") /\ UNCHANGED segments
      ELSE /\ segments' = after
           /\ \E st \in IF Collected(after) = DOMAIN after THEN Verdicts(after) ELSE {"PART_COMPLETE"} :
                EndsWith(st)

ReadsSegment(f) ==
  /\ Reads(f) /\ detect_segment_type(f) \in AnimatedTypes
  /\ AddsSegment(f)
  /\ UNCHANGED <<fountainVars, whole>>

ReadsSingle(f) ==
  /\ Reads(f) /\ f.kind = "single" /\ detect_segment_type(f) # "invalid"
  /\ IF f.adds = "raises"
     THEN scan' = "raised" /\ UNCHANGED <<whole, status, complete>>
     ELSE /\ EndsWith(f.adds)
          /\ whole' = IF f.adds = "COMPLETE" THEN f.of ELSE whole
  /\ UNCHANGED <<fountainVars, segments>>

\* LEFT or RIGHT is down after a frame.
UserLeaves ==
  /\ scan = "reading"
  /\ scan' = "done"
  /\ UNCHANGED <<fountainVars, scenario, qrType, whole, segments, complete, status, got>>

-----------------------------------------------------------------------------
(* ScanView.run, after the screen. *)

Result == IF qrType \in AnimatedTypes THEN Together(segments) ELSE whole
\* What the pieces of two messages make is anything.
Inside == IF Result \in Messages THEN {Holds[Result]} ELSE Contents

IsPsbt == qrType \in {"psbt__ur2", "psbt__specter", "psbt__base64", "psbt__base43", "psbt__bbqr"}
IsSeed == qrType \in {"seed__seedqr", "seed__compactseedqr", "seed__mnemonic", "seed__four_letter_mnemonic"}

\* A crypto-account can be decoded but is not one of these.
IsWalletDescriptor ==
  \/ qrType \in {"wallet__specter", "wallet__configfile", "wallet__generic", "output__ur"}
  \/ qrType = "bytes__ur" /\ Inside = {"setup file"}

IsValidQrType ==
  CASE Now.view = "ScanPSBTView"              -> IsPsbt
    [] Now.view = "ScanSeedQRView"            -> IsSeed
    [] Now.view = "ScanWalletDescriptorView"  -> IsWalletDescriptor
    [] Now.view = "ScanAddressView"           -> qrType = "bitcoin_address"
    [] OTHER                                       -> TRUE

Gives(as) == [as |-> as, of |-> Result]

\* get_psbt: a psbt, None, or an exception while the data is unpacked.
PsbtOutcomes(inside) ==
  CASE inside = "psbt"       -> {Gives("psbt")}
    [] qrType = "psbt__ur2"  -> {Gives("exception")}
    [] qrType = "psbt__bbqr" -> {Gives("exception"), [as |-> "psbt", of |-> NoMessage]}
    [] OTHER                 -> {[as |-> "psbt", of |-> NoMessage]}

DescriptorOutcome(inside) ==
  CASE inside \in {"multisig descriptor", "setup file"} -> Gives("descriptor")
    [] inside = "single-sig descriptor"                 -> Gives("NotYetImplementedView")
    [] OTHER                                            -> Gives("exception")

Outcomes ==
  IF ~complete
  THEN {[as |-> IF qrType = "invalid" THEN "ScanInvalidQRTypeView" ELSE "MainMenuView", of |-> NoMessage]}
  ELSE IF ~IsValidQrType THEN {[as |-> "ErrorView", of |-> NoMessage]}
  ELSE IF IsSeed THEN {Gives("pending seed")}
  ELSE IF IsPsbt THEN UNION {PsbtOutcomes(c) : c \in Inside}
  ELSE IF qrType = "settings" THEN {Gives("settings")}
  ELSE IF IsWalletDescriptor THEN {DescriptorOutcome(c) : c \in Inside}
  ELSE IF qrType = "bitcoin_address" THEN {Gives("address")}
  ELSE IF qrType = "sign_message" THEN {Gives("message")}
  ELSE {Gives("NotYetImplementedView")}

\* The View is left and its decoder with it.
Routes ==
  /\ scan = "done"
  /\ got' \in Outcomes
  /\ scan' = "routed"
  /\ scenario' = "over"
  /\ expected' = NoMessage /\ simple' = << >> /\ mixed' = << >> /\ queued' = << >>
  /\ result' = NoMessage /\ had' = [received |-> 0, mixed |-> 0]
  /\ qrType' = "None" /\ whole' = NoMessage /\ segments' = << >>
  /\ complete' = FALSE /\ status' = "FALSE"

ReadsFrame(f) ==
  \/ TypeChanges(f) \/ ReadsUnknown(f) \/ ReadsPart(f) \/ ReadsWhole(f)
  \/ ReadsDamaged(f) \/ ReadsSegment(f) \/ ReadsSingle(f)

Frames == UNION {s.shows : s \in Range(Scenarios)}

ScanNext == (\E f \in Frames : ReadsFrame(f)) \/ WorksOff \/ PartIsDone \/ UserLeaves \/ Routes
=============================================================================
