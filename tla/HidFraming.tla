------------------------------ MODULE HidFraming ------------------------------
(***************************************************************************)
(* Messages cut into fixed-size HID reports and put together again:        *)
(* usb/hidframe.py.                                                        *)
(*                                                                         *)
(* A sender writes the reports of one message after another.  It may give  *)
(* up half way and start over with another message, and it may also write  *)
(* reports no encoder produces.  The wire keeps reports in order and loses *)
(* none.  The receiver is a Decoder, pushed one report at a time.          *)
(***************************************************************************)
EXTENDS Integers, Sequences, SequencesExt

CONSTANTS
  FIRST_CHUNK,       \* payload bytes of a start report, 59 in the code
  CONT_CHUNK,        \* payload bytes of a continuation, 63 in the code
  MAX_MESSAGE_SIZE,  \* largest message, 128 KiB in the code
  Messages,          \* what the sender may send; some may be too long
  MaxReports,        \* bound: reports written in a behaviour
  MaxWire,           \* bound: reports the endpoint holds before they are read
  Idle               \* "no message in progress", None in the code

Byte == 0 .. 255

ASSUME FramingAssumption ==
  /\ FIRST_CHUNK \in Nat \ {0} /\ CONT_CHUNK \in Nat \ {0}
  /\ MAX_MESSAGE_SIZE \in Nat
  /\ Messages \subseteq Seq(Byte)
  /\ Idle \notin Nat \union Messages

-----------------------------------------------------------------------------
(* Reports.  A report of the wrong size is all one: it carries nothing. *)

\* n bytes of m after the first `from', zero-padded past its end.
Slice(m, from, n) == [i \in 1 .. n |-> IF from + i <= Len(m) THEN m[from + i] ELSE 0]

StartReport(length, chunk) == [tag |-> "start", length |-> length, chunk |-> chunk]
ContReport(chunk)          == [tag |-> "cont", chunk |-> chunk]
ShortReport                == [tag |-> "wrong_size"]
UnknownReport              == [tag |-> "unknown"]

\* Mutant: the remainder is rounded down.
ContCount_RoundsDown(length) ==
  IF length <= FIRST_CHUNK THEN 0 ELSE (length - FIRST_CHUNK) \div CONT_CHUNK

ContCount(length) ==
  IF length <= FIRST_CHUNK THEN 0
  ELSE (length - FIRST_CHUNK + CONT_CHUNK - 1) \div CONT_CHUNK

\* encode() refuses a message that is too long.
Encodable(m) == Len(m) <= MAX_MESSAGE_SIZE

Encode(m) ==
  <<StartReport(Len(m), Slice(m, 0, FIRST_CHUNK))>> \o
  [k \in 1 .. ContCount(Len(m)) |->
     ContReport(Slice(m, FIRST_CHUNK + (k - 1) * CONT_CHUNK, CONT_CHUNK))]

Zeros(n) == [i \in 1 .. n |-> 0]
JunkReports ==
  {ShortReport, UnknownReport, ContReport(Zeros(CONT_CHUNK))}
  \union {StartReport(n, Zeros(FIRST_CHUNK)) : n \in 0 .. MAX_MESSAGE_SIZE + 1}

-----------------------------------------------------------------------------
VARIABLES
  sending,    \* reports of the present message still to be written
  wire,       \* reports written and not yet read
  buf,        \* Decoder._buf
  expected,   \* Decoder._expected
  result,     \* of the last push(): "none", "raised" or "message"
  returned,   \* the message it returned, Idle otherwise
  \* History, not in the code:
  current,    \* the message being sent, Idle once a junk report cut into it
  junk,       \* has a report been written that is no encoding's
  written     \* number of reports written

vars == <<sending, wire, buf, expected, result, returned, current, junk, written>>

\* On the wire a report is marked with the message it is the last report of, if
\* all reports of that message were written without anything in between.
Marked(report, m) == [report |-> report, completes |-> m]

Init ==
  /\ sending = << >> /\ wire = << >>
  /\ buf = << >> /\ expected = Idle
  /\ result = "none" /\ returned = Idle
  /\ current = Idle /\ junk = FALSE /\ written = 0

-----------------------------------------------------------------------------
(* The sender. *)

\* Begin a message.  Whatever was left of the one before is never written.
StartMessage(m) ==
  /\ Encodable(m)
  /\ sending' = Encode(m)
  /\ current' = m
  /\ UNCHANGED <<wire, buf, expected, result, returned, junk, written>>

CanWrite == written < MaxReports /\ Len(wire) < MaxWire

WriteReport ==
  /\ sending # << >>
  /\ CanWrite
  /\ wire' = Append(wire, Marked(Head(sending),
                                 IF Len(sending) = 1 THEN current ELSE Idle))
  /\ sending' = Tail(sending)
  /\ written' = written + 1
  /\ UNCHANGED <<buf, expected, result, returned, current, junk>>

WriteJunk(report) ==
  /\ CanWrite
  /\ wire' = Append(wire, Marked(report, Idle))
  /\ current' = IF sending # << >> /\ Head(sending).tag = "cont" THEN Idle ELSE current
  /\ junk' = TRUE
  /\ written' = written + 1
  /\ UNCHANGED <<sending, buf, expected, result, returned>>

-----------------------------------------------------------------------------
(* The receiver: Decoder.push. *)

Reset == buf' = << >> /\ expected' = Idle

Raise ==
  /\ result' = "raised"
  /\ returned' = Idle
  /\ Reset

\* Mutant: one byte too many is waited for.
Collect_OffByOne(bytes, length) ==
  IF Len(bytes) > length
  THEN /\ returned' = SubSeq(bytes, 1, length)
       /\ result' = "message"
       /\ Reset
  ELSE /\ buf' = bytes
       /\ expected' = length
       /\ result' = "none"
       /\ returned' = Idle

\* The end of push(): hand the message over once enough bytes are there.
Collect(bytes, length) ==
  IF Len(bytes) >= length
  THEN /\ returned' = SubSeq(bytes, 1, length)
       /\ result' = "message"
       /\ Reset
  ELSE /\ buf' = bytes
       /\ expected' = length
       /\ result' = "none"
       /\ returned' = Idle

\* Mutant: a start report does not drop the message in progress.
PushStart_Appends(report) ==
  /\ report.tag = "start"
  /\ IF report.length > MAX_MESSAGE_SIZE
     THEN Raise
     ELSE Collect(buf \o report.chunk, report.length)

\* A start report abandons the message in progress, if there was one.
PushStart(report) ==
  /\ report.tag = "start"
  /\ IF report.length > MAX_MESSAGE_SIZE
     THEN Raise
     ELSE Collect(report.chunk, report.length)

PushContinuation(report) ==
  /\ report.tag = "cont"
  /\ IF expected = Idle
     THEN result' = "raised" /\ returned' = Idle /\ UNCHANGED <<buf, expected>>
     ELSE Collect(buf \o report.chunk, expected)

PushMalformed(report) ==
  /\ report.tag \in {"wrong_size", "unknown"}
  /\ Raise

Push ==
  /\ wire # << >>
  /\ LET report == Head(wire).report IN
       \/ PushStart(report)
       \/ PushContinuation(report)
       \/ PushMalformed(report)
  /\ wire' = Tail(wire)
  /\ UNCHANGED <<sending, current, junk, written>>

Next ==
  \/ \E m \in Messages : StartMessage(m)
  \/ WriteReport
  \/ \E report \in JunkReports : WriteJunk(report)
  \/ Push

Spec == Init /\ [][Next]_vars

-----------------------------------------------------------------------------
(* Properties. *)

ReportType ==
  {ShortReport, UnknownReport}
  \union [tag : {"start"}, length : Nat, chunk : [1 .. FIRST_CHUNK -> Byte]]
  \union [tag : {"cont"}, chunk : [1 .. CONT_CHUNK -> Byte]]

TypeOK ==
  /\ sending \in Seq(ReportType)
  /\ wire \in Seq([report : ReportType, completes : Seq(Byte) \union {Idle}])
  /\ buf \in Seq(Byte)
  /\ expected \in Nat \union {Idle}
  /\ result \in {"none", "raised", "message"}
  /\ returned \in Seq(Byte) \union {Idle}
  /\ current \in Seq(Byte) \union {Idle}
  /\ junk \in BOOLEAN
  /\ written \in Nat

\* Whatever is written, the decoder holds less than one message: fewer bytes
\* than were declared, and never more declared than the largest message.  With
\* no message in progress it holds nothing (hidframe.py push, _reset).
MemoryIsBounded ==
  /\ expected = Idle => buf = << >>
  /\ expected # Idle => Len(buf) < expected /\ expected <= MAX_MESSAGE_SIZE

\* No message is lost or torn: when the last report of a message that was written
\* without interruption is pushed, exactly that message comes out, whatever
\* abandoned or malformed reports went before it (hidframe.py push, encode).
UninterruptedMessagesArrive ==
  [][ wire # << >> /\ wire' = Tail(wire) /\ Head(wire).completes # Idle
      => result' = "message" /\ returned' = Head(wire).completes ]_vars

\* As long as every report written is an encoding's, abandoned fragments are never
\* delivered: something comes out only with the last report of an uninterrupted
\* message (hidframe.py push, the start report).
FragmentsAreDropped ==
  [][ ~junk /\ wire # << >> /\ wire' = Tail(wire) /\ result' = "message"
      => Head(wire).completes # Idle ]_vars
=============================================================================
