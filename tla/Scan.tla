-------------------------------- MODULE Scan --------------------------------
(***************************************************************************)
(* From the camera to the review: a scan, and what becomes of a psbt it    *)
(* gave to the Controller (views/scan_views.py, views/psbt_views.py).      *)
(* QrScan says how codes are put together, PsbtParser what a transaction   *)
(* is to a seed; which transaction a message holds is the sender's choice. *)
(***************************************************************************)
EXTENDS QrScan, PsbtParser

CONSTANT Psbts  \* transactions senders may have put in a message

ASSUME PsbtsAssumption == \A p \in Psbts : IsTransaction(p)

\* The parts of a UR are what a FountainEncoder makes of a message.
ASSUME PartsAssumption ==
  \A f \in Frames : f.kind = "part" => f.of \in Messages /\ f.part \in EncoderParts(f.of)

\* What the tests look for sets a UR and a numbered piece apart from all else; which of
\* its kind a code is taken for is open.
ASSUME KindsAssumption ==
  \A f \in Frames :
    \/ f.kind \in {"part", "whole", "damaged"} /\ detect_segment_type(f) \in UrTypes
    \/ f.kind = "segment" /\ detect_segment_type(f) \in AnimatedTypes /\ f.num \in Nat /\ f.total \in Nat
    \/ f.kind = "single" /\ detect_segment_type(f) \notin UrTypes \union AnimatedTypes

\* What UrQrEncoder, the other animated encoders or a static one show of one message,
\* and URs damaged on the way; what each code is taken for is left open.
IsOneSender(s) ==
  /\ s.alone \in Messages
  /\ \A f \in s.shows : f.kind # "damaged" => f.of = s.alone
  /\ \/ \A f \in s.shows : f.kind \in {"part", "whole", "damaged"}
     \/ /\ \A f \in s.shows : f.kind = "segment" /\ f.num \in 1 .. f.total
        /\ \A f, g \in s.shows : f.total = g.total
     \/ \A f \in s.shows : f.kind = "single"

ASSUME SendersAssumption == \A s \in Range(Scenarios) : s.alone # NoMessage => IsOneSender(s)

vars == <<scanVars, parserVars>>

Init == ScanInit /\ ParserInit

\* ScanView.run: controller.psbt = psbt, controller.psbt_parser = None.
HandsOver ==
  /\ Routes /\ got'.as = "psbt"
  /\ psbt' \in IF got'.of = NoMessage THEN {NoPsbt} ELSE Psbts
  /\ report' = NoReport /\ verdict' = "select"
  /\ UNCHANGED seed

GoesElsewhere == Routes /\ got'.as # "psbt" /\ UNCHANGED parserVars

Sees(f) == ReadsFrame(f) /\ UNCHANGED parserVars

Next ==
  \/ \E f \in Frames : Sees(f)
  \/ WorksOff   /\ UNCHANGED parserVars
  \/ PartIsDone /\ UNCHANGED parserVars
  \/ UserLeaves /\ UNCHANGED parserVars
  \/ HandsOver
  \/ GoesElsewhere
  \/ ParserNext /\ UNCHANGED scanVars

\* Does a code tell something the decoder does not have yet?
IsNews(f) ==
  CASE f.kind = "part"    -> f.part.indexes \notin Known
    [] f.kind = "segment" -> segments = << >> \/ segments[SlotOf(f)] = NoPiece
    [] OTHER              -> TRUE

SeesNews == scan = "reading" /\ \E f \in Now.steady : IsNews(f) /\ Sees(f)

\* The loop goes on by itself.  A steady code comes round again and again while
\* the loop is reading and is not missed for ever: if it stays news, it is seen.
\* The first conjunct is weak fairness of WorksOff, what enables it written out.
Fairness ==
  /\ []<>(scan # "working" \/ Resting) \/ []<><<WorksOff /\ UNCHANGED parserVars>>_vars
  /\ WF_vars(PartIsDone /\ UNCHANGED parserVars)
  /\ SF_vars(SeesNews)

Spec == Init /\ [][Next]_vars /\ Fairness

TypeOK ==
  /\ FountainTypeOK
  /\ scan \in {"reading", "working", "done", "raised", "routed"}
  /\ status \in {"PART_COMPLETE", "PART_EXISTING", "COMPLETE", "FALSE", "INVALID"}
  /\ complete \in BOOLEAN
  /\ verdict \in {"idle", "select", "parsed", "output claim", "input claim", "cannot sign", "raised"}

-----------------------------------------------------------------------------
(* Properties. *)

\* receive_part and process_queue_item neither lose nor invent information:
\* whatever the order, repetition and mixture of the parts, and whichever step
\* the work on the queue is at, the parts held determine exactly what the parts
\* received determined, and a result is the message of the first part, whole.
\* The decoder does so until its View is left.
ImplementsErasureCode ==
  Abstract!Init /\ [][Routes \/ Abstract!Next]_<<expected, Known, result>>

\* detect_segment_type looks at one code at a time.  A piece of a Specter wallet that
\* happens to be in base64 characters only is taken for a psbt's, the others are not:
\* add_data raises at the second format.  A single-frame decoder may raise by itself.
MayRaise(shows) ==
  \/ \E f, g \in shows : detect_segment_type(f) # detect_segment_type(g)
  \/ \E f \in shows : f.kind = "single" /\ f.adds = "raises"

MayBeRefused(shows, m) ==
  \E f \in shows :
    \/ detect_segment_type(f) = "invalid"
    \/ f.kind = "single" /\ f.adds = "INVALID"
    \/ detect_segment_type(f) = "wallet__specter" /\ ~IsJsonWithDescriptor(m)

\* The codes of one sender, missed, repeated and in any order.  The scan raises
\* only if two of them are taken for different formats (decode_qr.py:103) or a
\* single-frame decoder raises, and refuses them only if one is of no format, or
\* its content is not what its format is for; what it completes with is that
\* sender's message.
OneSenderIsUnderstood ==
  scan # "routed" /\ Now.alone # NoMessage =>
    /\ scan = "raised" => MayRaise(Now.shows)
    /\ status = "INVALID" => MayBeRefused(Now.shows, Now.alone)
    /\ complete => Result = Now.alone

\* Somebody shows this piece as the i-th of n, in the format that is decoded.
ShowsPiece(piece, i, n) ==
  \E f \in Now.shows :
    /\ f.kind = "segment" /\ detect_segment_type(f) = qrType /\ f.total = n
    /\ SlotOf(f) = i /\ piece = [of |-> f.of, num |-> f.num]

ShowsMessage(m) ==
  \E f \in Now.shows : f.kind # "damaged" /\ detect_segment_type(f) = qrType /\ f.of = m

\* Whoever shows what in between: a scan never completes with a piece in the place
\* of another, or with pieces of codes of different formats or lengths, and a UR or a
\* single code is a message somebody shows in that format.  Pieces of two codes of
\* the same format and length are put together all the same: nothing in add tells
\* whose a piece is (decode_qr.py:666).
CompletesWithWhatWasShown ==
  scan # "routed" /\ complete =>
    IF qrType \in AnimatedTypes
    THEN \A i \in DOMAIN segments : ShowsPiece(segments[i], i, Len(segments))
    ELSE ShowsMessage(Result)

\* What a scan promises, of one sender's codes and of any.
EachScanIsUnderstood == OneSenderIsUnderstood /\ CompletesWithWhatWasShown

\* A sender whose steady codes determine the message, and are all taken for the same
\* format, is understood in the end, however often other codes of it come between them.
CompletesInTheEnd ==
  scan = "reading" /\ Now.alone # NoMessage /\ Now.steady # {} /\ ~MayRaise(Now.shows) ~> scan = "done"
=============================================================================
