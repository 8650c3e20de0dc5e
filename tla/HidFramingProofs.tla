--------------------------- MODULE HidFramingProofs ---------------------------
(***************************************************************************)
(* For any sizes of reports and messages and whatever is written to it,    *)
(* the decoder holds less than one message, delivers each message that was *)
(* written without interruption, and no fragment of another.               *)
(***************************************************************************)
EXTENDS HidFraming, SequenceTheorems, TLAPS

IInv == TypeOK /\ MemoryIsBounded

\* What is cut from a message are bytes, in the length asked for.
LEMMA SliceType ==
  ASSUME NEW m \in Seq(Byte), NEW from \in Nat, NEW n \in Nat
  PROVE  Slice(m, from, n) \in [1 .. n -> Byte]
<1>1. ASSUME NEW i \in 1 .. n PROVE (IF from + i <= Len(m) THEN m[from + i] ELSE 0) \in Byte
  <2>1. CASE from + i <= Len(m)
    <3>1. from + i \in 1 .. Len(m)
      BY <2>1
    <3> QED BY <2>1, <3>1, ElementOfSeq
  <2>2. CASE ~(from + i <= Len(m))
    BY <2>2 DEF Byte
  <2> QED BY <2>1, <2>2
<1> QED BY <1>1 DEF Slice

\* A product of sizes is a size.
LEMMA ProductType ==
  ASSUME NEW x \in Nat, NEW y \in Nat PROVE x * y \in Nat
  OBVIOUS

\* What comes after a report is a longer sequence.
LEMMA AfterReport ==
  ASSUME NEW S, NEW e \in S, NEW rest \in Seq(S) PROVE <<e>> \o rest \in Seq(S) /\ <<e>> \o rest # << >>
<1>1. <<e>> \in Seq(S) /\ Len(<<e>>) = 1 /\ Len(rest) \in Nat
  OBVIOUS
<1>2. <<e>> \o rest \in Seq(S) /\ Len(<<e>> \o rest) = 1 + Len(rest)
  BY <1>1, ConcatProperties
<1>3. Len(<<e>> \o rest) # 0
  BY <1>1, <1>2
<1> QED BY <1>2, <1>3, EmptySeq

\* The reports of a message are reports.
LEMMA EncodeType ==
  ASSUME NEW m \in Seq(Byte) PROVE Encode(m) \in Seq(ReportType) /\ Encode(m) # << >>
<1> DEFINE n == ContCount(Len(m))
           start == StartReport(Len(m), Slice(m, 0, FIRST_CHUNK))
           cont(k) == ContReport(Slice(m, FIRST_CHUNK + (k - 1) * CONT_CHUNK, CONT_CHUNK))
<1>1. start \in ReportType
  <2>1. Len(m) \in Nat /\ Slice(m, 0, FIRST_CHUNK) \in [1 .. FIRST_CHUNK -> Byte]
    BY SliceType, FramingAssumption
  <2> QED BY <2>1 DEF StartReport, ReportType
<1>2. n \in Nat
  BY FramingAssumption DEF ContCount
<1>3. ASSUME NEW k \in 1 .. n PROVE cont(k) \in ReportType
  <2> DEFINE from == FIRST_CHUNK + (k - 1) * CONT_CHUNK
  <2>1. k - 1 \in Nat
    BY <1>2
  <2>2. (k - 1) * CONT_CHUNK \in Nat
    BY <2>1, ProductType, FramingAssumption
  <2>3. from \in Nat
    BY <2>2, FramingAssumption
  <2> HIDE DEF from
  <2>4. Slice(m, from, CONT_CHUNK) \in [1 .. CONT_CHUNK -> Byte]
    BY <2>3, SliceType, FramingAssumption
  <2>5. ContReport(Slice(m, from, CONT_CHUNK)) \in ReportType
    BY <2>4 DEF ContReport, ReportType
  <2> QED BY <2>5 DEF from
<1>4. [k \in 1 .. n |-> cont(k)] \in Seq(ReportType)
  BY <1>2, <1>3
<1>5. Encode(m) = <<start>> \o [k \in 1 .. n |-> cont(k)]
  BY DEF Encode
<1> HIDE DEF start, cont
<1> QED BY <1>1, <1>4, <1>5, AfterReport

\* So are those no encoder writes.
LEMMA JunkType ==
  ASSUME NEW report \in JunkReports PROVE report \in ReportType
  BY FramingAssumption DEF JunkReports, ReportType, StartReport, ContReport, Zeros, Byte

\* The end of push() keeps less than it was told to wait for.
LEMMA CollectInv ==
  ASSUME NEW bytes \in Seq(Byte), NEW length \in Nat, length <= MAX_MESSAGE_SIZE, Collect(bytes, length)
  PROVE  /\ buf' \in Seq(Byte) /\ expected' \in Nat \union {Idle}
         /\ result' \in {"none", "raised", "message"} /\ returned' \in Seq(Byte) \union {Idle}
         /\ MemoryIsBounded'
<1>1. CASE Len(bytes) >= length
  <2>1. SubSeq(bytes, 1, length) \in Seq(Byte)
    BY <1>1, SubSeqProperties
  <2> QED BY <1>1, <2>1 DEF Collect, Reset, MemoryIsBounded
<1>2. CASE ~(Len(bytes) >= length)
  BY <1>2, FramingAssumption DEF Collect, MemoryIsBounded
<1> QED BY <1>1, <1>2

\* A push keeps types and bound, whatever report it is given.
LEMMA PushInv ==
  ASSUME IInv, Push PROVE IInv'
<1> DEFINE report == Head(wire).report
<1>1. /\ wire \in Seq([report : ReportType, completes : Seq(Byte) \union {Idle}]) /\ wire # << >>
      /\ wire' = Tail(wire) /\ UNCHANGED <<sending, current, junk, written>>
  BY DEF IInv, TypeOK, Push
<1>2. /\ Head(wire) \in [report : ReportType, completes : Seq(Byte) \union {Idle}]
      /\ wire' \in Seq([report : ReportType, completes : Seq(Byte) \union {Idle}])
  BY <1>1, HeadTailProperties
<1>3. report \in ReportType
  BY <1>2
<1> DEFINE Kept == /\ buf' \in Seq(Byte) /\ expected' \in Nat \union {Idle}
                   /\ result' \in {"none", "raised", "message"} /\ returned' \in Seq(Byte) \union {Idle}
                   /\ MemoryIsBounded'
<1>4. Raise => Kept
  BY EmptySeq DEF Raise, Reset, MemoryIsBounded
<1>5. ASSUME NEW bytes \in Seq(Byte), NEW length \in Nat, length <= MAX_MESSAGE_SIZE, Collect(bytes, length)
      PROVE  Kept
  BY <1>5, CollectInv
<1>6. PushStart(report) \/ PushContinuation(report) \/ PushMalformed(report)
  BY DEF Push
<1>7. IInv /\ UNCHANGED <<buf, expected>> /\ result' = "raised" /\ returned' = Idle => Kept
  BY DEF IInv, TypeOK, MemoryIsBounded
<1> HIDE DEF Kept, report
<1>8. ASSUME PushStart(report) PROVE Kept
  <2>1. report.length \in Nat /\ report.chunk \in Seq(Byte)
    BY <1>3, <1>8, FramingAssumption DEF PushStart, ReportType, ShortReport, UnknownReport
  <2>2. CASE report.length > MAX_MESSAGE_SIZE
    BY <1>4, <1>8, <2>2 DEF PushStart
  <2>3. CASE ~(report.length > MAX_MESSAGE_SIZE)
    <3>1. report.length <= MAX_MESSAGE_SIZE
      BY <2>1, <2>3, FramingAssumption
    <3>2. Collect(report.chunk, report.length)
      BY <1>8, <2>3 DEF PushStart
    <3> QED BY <2>1, <3>1, <3>2, <1>5
  <2> QED BY <2>2, <2>3
<1>9. ASSUME PushContinuation(report) PROVE Kept
  <2>1. report.chunk \in Seq(Byte)
    BY <1>3, <1>9, FramingAssumption DEF PushContinuation, ReportType, ShortReport, UnknownReport
  <2>2. CASE expected = Idle
    BY <1>7, <1>9, <2>2 DEF PushContinuation
  <2>3. CASE expected # Idle
    <3>1. /\ expected \in Nat /\ expected <= MAX_MESSAGE_SIZE /\ buf \o report.chunk \in Seq(Byte)
          /\ Collect(buf \o report.chunk, expected)
      BY <1>9, <2>1, <2>3, ConcatProperties DEF PushContinuation, IInv, TypeOK, MemoryIsBounded
    <3> QED BY <3>1, <1>5
  <2> QED BY <2>2, <2>3
<1>10. ASSUME PushMalformed(report) PROVE Kept
  BY <1>4, <1>10 DEF PushMalformed
<1>11. Kept
  BY <1>6, <1>8, <1>9, <1>10
<1> QED BY <1>1, <1>2, <1>11 DEF Kept, IInv, TypeOK

-----------------------------------------------------------------------------
\* The decoder is not touched by a sender.
LEMMA SenderInv ==
  ASSUME IInv, UNCHANGED <<buf, expected, result, returned>>,
         sending' \in Seq(ReportType),
         wire' \in Seq([report : ReportType, completes : Seq(Byte) \union {Idle}]),
         current' \in Seq(Byte) \union {Idle}, junk' \in BOOLEAN, written' \in Nat
  PROVE  IInv'
  BY DEF IInv, TypeOK, MemoryIsBounded

\* Every step keeps types and bound.
LEMMA NextInv ==
  ASSUME IInv, [Next]_vars PROVE IInv'
<1> USE DEF IInv, TypeOK
<1>1. ASSUME NEW m \in Messages, StartMessage(m) PROVE IInv'
  <2>1. m \in Seq(Byte)
    BY FramingAssumption
  <2>2. sending' \in Seq(ReportType) /\ current' \in Seq(Byte)
    BY <1>1, <2>1, EncodeType DEF StartMessage
  <2> QED BY <1>1, <2>2, SenderInv DEF StartMessage
<1>2. CASE WriteReport
  <2>1. sending # << >> /\ sending' = Tail(sending) /\ written' = written + 1
    BY <1>2 DEF WriteReport
  <2>2. Head(sending) \in ReportType /\ sending' \in Seq(ReportType)
    BY <2>1, HeadTailProperties
  <2>3. PICK c \in Seq(Byte) \union {Idle} : wire' = Append(wire, Marked(Head(sending), c))
    BY <1>2 DEF WriteReport
  <2>4. Marked(Head(sending), c) \in [report : ReportType, completes : Seq(Byte) \union {Idle}]
    BY <2>2 DEF Marked
  <2>5. wire' \in Seq([report : ReportType, completes : Seq(Byte) \union {Idle}])
    BY <2>3, <2>4, AppendProperties
  <2> QED BY <1>2, <2>1, <2>2, <2>5, SenderInv DEF WriteReport
<1>3. ASSUME NEW report \in JunkReports, WriteJunk(report) PROVE IInv'
  <2>1. wire' = Append(wire, Marked(report, Idle)) /\ UNCHANGED sending
    BY <1>3 DEF WriteJunk
  <2>2. Marked(report, Idle) \in [report : ReportType, completes : Seq(Byte) \union {Idle}]
    BY JunkType DEF Marked
  <2>3. wire' \in Seq([report : ReportType, completes : Seq(Byte) \union {Idle}])
    BY <2>1, <2>2, AppendProperties
  <2>4. current' \in Seq(Byte) \union {Idle} /\ junk' \in BOOLEAN /\ written' \in Nat
    BY <1>3 DEF WriteJunk
  <2> QED BY <1>3, <2>1, <2>3, <2>4, SenderInv DEF WriteJunk
<1>4. CASE Push
  BY <1>4, PushInv
<1>5. CASE UNCHANGED vars
  BY <1>5, SenderInv DEF vars
<1> QED BY <1>1, <1>2, <1>3, <1>4, <1>5 DEF Next

\* At the start nothing is in progress.
LEMMA InitInv ==
  ASSUME Init PROVE IInv
  BY EmptySeq DEF Init, IInv, TypeOK, MemoryIsBounded

\* The decoder's memory is bounded for any report sizes, any largest message and
\* any number of reports (hidframe.py Decoder.push).
THEOREM MemoryTheorem == Spec => []MemoryIsBounded
<1>1. Init => IInv
  BY InitInv
<1>2. IInv /\ [Next]_vars => IInv'
  BY NextInv
<1>3. IInv => MemoryIsBounded
  BY DEF IInv
<1> QED BY <1>1, <1>2, <1>3, PTL DEF Spec

-----------------------------------------------------------------------------
(* What the decoder has of a message. *)

ReportCount(m) == ContCount(Len(m)) + 1

\* How many bytes the first k reports of a message have room for.
Room(k) == FIRST_CHUNK + (k - 1) * CONT_CHUNK

ReportOf(m, k) ==
  IF k = 1 THEN StartReport(Len(m), Slice(m, 0, FIRST_CHUNK))
  ELSE ContReport(Slice(m, Room(k - 1), CONT_CHUNK))

\* A decoder that has taken the first k reports of m, and waits for more.
Has(b, x, m, k) == x = Len(m) /\ b = Slice(m, 0, Room(k))

\* The first k reports of m end at place p of a wire w, without a gap; those that are
\* not on the wire any more are in the decoder.
Ends(w, b, x, m, k, p) ==
  /\ \A i \in 1 .. k : p - k + i > 0 => w[p - k + i].report = ReportOf(m, i)
  /\ k > p => Has(b, x, m, k - p)

\* So it is, and so it is after the step.
Holds(m, k)        == Has(buf, expected, m, k)
HoldsAfter(m, k)   == Has(buf', expected', m, k)
EndsAt(m, k, p)    == Ends(wire, buf, expected, m, k, p)
EndsAfter(m, k, p) == Ends(wire', buf', expected', m, k, p)

USE DEF Holds, HoldsAfter, EndsAt, EndsAfter

\* What is still to be written of a message, and nothing came between its reports.
StillToWrite ==
  /\ current \in Messages \union {Idle}
  /\ current \in Messages => Encodable(current)
  /\ sending # << >> /\ current # Idle =>
       LET k == ReportCount(current) - Len(sending) IN
       /\ k >= 0
       /\ \A i \in 1 .. Len(sending) : sending[i] = ReportOf(current, k + i)
       /\ EndsAt(current, k, Len(wire))
  /\ sending # << >> /\ ~junk => current # Idle

\* A message said to be complete is, and without junk every report is one of a message
\* whose reports before it are where they should be.
OnTheWire ==
  \A p \in 1 .. Len(wire) :
    /\ wire[p].completes # Idle =>
         /\ wire[p].completes \in Messages /\ Encodable(wire[p].completes)
         /\ EndsAt(wire[p].completes, ReportCount(wire[p].completes), p)
    /\ wire[p].completes = Idle /\ ~junk =>
         \E m \in Messages : \E k \in 1 .. ReportCount(m) - 1 : Encodable(m) /\ EndsAt(m, k, p)

StreamInv == StillToWrite /\ OnTheWire

\* A division that was rounded up.
LEMMA RoundedUp ==
  ASSUME NEW x \in Nat, NEW d \in Nat \ {0}
  PROVE  LET q == (x + d - 1) \div d IN q \in Nat /\ q * d >= x /\ (q > 0 => (q - 1) * d < x)
<1> DEFINE y == x + d - 1
           q == y \div d
<1>1. y \in Nat
  OBVIOUS
<1>2. q \in Nat /\ y = d * q + (y % d) /\ y % d \in 0 .. d - 1
  BY <1>1
<1> HIDE DEF q
<1>3. d * q = q * d /\ (q - 1) * d = q * d - d
  BY <1>2
<1> QED BY <1>2, <1>3

\* A message has at least one report.
LEMMA CountType ==
  ASSUME NEW m \in Seq(Byte)
  PROVE  /\ ContCount(Len(m)) \in Nat /\ ReportCount(m) = ContCount(Len(m)) + 1
         /\ ReportCount(m) \in Nat /\ ReportCount(m) > 0
<1>1. CASE Len(m) <= FIRST_CHUNK
  BY <1>1 DEF ContCount, ReportCount
<1>2. CASE ~(Len(m) <= FIRST_CHUNK)
  <2>1. Len(m) - FIRST_CHUNK \in Nat /\ CONT_CHUNK \in Nat \ {0}
    BY <1>2, FramingAssumption
  <2>2. ContCount(Len(m)) = (Len(m) - FIRST_CHUNK + CONT_CHUNK - 1) \div CONT_CHUNK
    BY <1>2 DEF ContCount
  <2>3. ContCount(Len(m)) \in Nat
    BY <2>1, <2>2, RoundedUp
  <2> QED BY <2>3 DEF ReportCount
<1> QED BY <1>1, <1>2

\* The reports of a message have room for it, and all but the last have not.
LEMMA RoomFor ==
  ASSUME NEW m \in Seq(Byte)
  PROVE  /\ \A k \in Nat \ {0} : Room(k) \in Nat \ {0} /\ Room(k + 1) = Room(k) + CONT_CHUNK
         /\ Room(ReportCount(m)) >= Len(m)
         /\ \A k \in 1 .. ReportCount(m) - 1 : Room(k) < Len(m)
<1> DEFINE c == ContCount(Len(m))
           x == Len(m) - FIRST_CHUNK
<1>1. Len(m) \in Nat /\ x \in Int /\ FIRST_CHUNK \in Nat \ {0} /\ CONT_CHUNK \in Nat \ {0}
  BY FramingAssumption
<1>2. ASSUME NEW k \in Nat \ {0} PROVE Room(k) \in Nat \ {0} /\ Room(k + 1) = Room(k) + CONT_CHUNK
  <2>1. (k - 1) * CONT_CHUNK \in Nat
    BY <1>1, ProductType
  <2>2. (k + 1 - 1) * CONT_CHUNK = (k - 1) * CONT_CHUNK + CONT_CHUNK
    BY <1>1
  <2> QED BY <1>1, <2>1, <2>2 DEF Room
<1>3. CASE Len(m) <= FIRST_CHUNK
  <2>1. c = 0
    BY <1>3 DEF ContCount
  <2>2. Room(1) = FIRST_CHUNK
    BY <1>1 DEF Room
  <2> QED BY <1>1, <1>2, <1>3, <2>1, <2>2 DEF ReportCount
<1>4. CASE ~(Len(m) <= FIRST_CHUNK)
  <2>1. x \in Nat /\ c = (x + CONT_CHUNK - 1) \div CONT_CHUNK
    BY <1>1, <1>4 DEF ContCount
  <2>2. c \in Nat /\ c * CONT_CHUNK >= x /\ (c > 0 => (c - 1) * CONT_CHUNK < x)
    BY <1>1, <2>1, RoundedUp
  <2>3. Room(c + 1) >= Len(m)
    <3>1. (c + 1 - 1) * CONT_CHUNK = c * CONT_CHUNK /\ c * CONT_CHUNK \in Int
      BY <1>1, <2>2
    <3> QED BY <1>1, <2>2, <3>1 DEF Room
  <2>4. ASSUME NEW k \in 1 .. c PROVE Room(k) < Len(m)
    <3>1. (c - 1) * CONT_CHUNK = (k - 1) * CONT_CHUNK + (c - k) * CONT_CHUNK
      BY <1>1, <2>2
    <3>2. (c - k) * CONT_CHUNK \in Nat /\ (k - 1) * CONT_CHUNK \in Nat
      BY <1>1, <2>2, ProductType
    <3> QED BY <1>1, <2>2, <3>1, <3>2 DEF Room
  <2>5. ReportCount(m) = c + 1
    BY DEF ReportCount
  <2> HIDE DEF c
  <2> QED BY <1>2, <2>2, <2>3, <2>4, <2>5 DEF c
<1> QED BY <1>3, <1>4

\* An encoding, report by report.
LEMMA EncodeIs ==
  ASSUME NEW m \in Seq(Byte)
  PROVE  /\ Len(Encode(m)) = ReportCount(m)
         /\ \A k \in 1 .. ReportCount(m) : Encode(m)[k] = ReportOf(m, k)
<1> DEFINE n == ContCount(Len(m))
           start == StartReport(Len(m), Slice(m, 0, FIRST_CHUNK))
           rest == [k \in 1 .. n |-> ContReport(Slice(m, FIRST_CHUNK + (k - 1) * CONT_CHUNK, CONT_CHUNK))]
<1>1. n \in Nat /\ ReportCount(m) = n + 1
  BY CountType
<1>2. Encode(m) = <<start>> \o rest
  BY DEF Encode
<1>3. Len(<<start>>) = 1 /\ <<start>>[1] = start /\ Len(rest) = n
  BY <1>1
<1>4. ASSUME NEW k \in 1 .. n PROVE rest[k] = ReportOf(m, k + 1)
  BY <1>1 DEF ReportOf, Room
<1>5. start = ReportOf(m, 1)
  BY DEF ReportOf
<1> HIDE DEF n, start, rest
<1>6. /\ Len(<<start>> \o rest) = 1 + n
      /\ \A k \in 1 .. 1 + n : (<<start>> \o rest)[k] = IF k <= 1 THEN start ELSE rest[k - 1]
  BY <1>1, <1>3
<1> QED BY <1>1, <1>2, <1>4, <1>5, <1>6

\* Two neighbouring slices are one slice, and one that is long enough begins with the message.
LEMMA SlicesJoin ==
  ASSUME NEW m \in Seq(Byte), NEW a \in Nat, NEW b \in Nat
  PROVE  /\ Slice(m, 0, a) \o Slice(m, a, b) = Slice(m, 0, a + b)
         /\ Len(Slice(m, 0, a)) = a /\ Slice(m, 0, a) \in Seq(Byte)
         /\ a >= Len(m) => SubSeq(Slice(m, 0, a), 1, Len(m)) = m
<1>1. Slice(m, 0, a) \in [1 .. a -> Byte] /\ Slice(m, a, b) \in [1 .. b -> Byte]
  BY SliceType
<1>2. /\ Slice(m, 0, a) \in Seq(Byte) /\ Len(Slice(m, 0, a)) = a
      /\ Slice(m, a, b) \in Seq(Byte) /\ Len(Slice(m, a, b)) = b
  BY <1>1
<1>3. Slice(m, 0, a) \o Slice(m, a, b) = Slice(m, 0, a + b)
  <2>1. Slice(m, 0, a + b) \in Seq(Byte) /\ Len(Slice(m, 0, a + b)) = a + b
    BY SliceType
  <2>2. /\ Slice(m, 0, a) \o Slice(m, a, b) \in Seq(Byte)
        /\ Len(Slice(m, 0, a) \o Slice(m, a, b)) = a + b
    BY <1>2, ConcatProperties
  <2>3. ASSUME NEW i \in 1 .. a + b PROVE (Slice(m, 0, a) \o Slice(m, a, b))[i] = Slice(m, 0, a + b)[i]
    <3>1. CASE i <= a
      <4>1. i \in 1 .. a /\ (Slice(m, 0, a) \o Slice(m, a, b))[i] = Slice(m, 0, a)[i]
        BY <1>2, <3>1
      <4> QED BY <4>1 DEF Slice
    <3>2. CASE ~(i <= a)
      <4>1. i - a \in 1 .. b /\ (Slice(m, 0, a) \o Slice(m, a, b))[i] = Slice(m, a, b)[i - a]
        BY <1>2, <3>2
      <4>2. a + (i - a) = i /\ 0 + i = i
        OBVIOUS
      <4> QED BY <4>1, <4>2 DEF Slice
    <3> QED BY <3>1, <3>2
  <2> HIDE DEF Slice
  <2> QED BY <2>1, <2>2, <2>3, SeqEqual
<1>4. ASSUME a >= Len(m) PROVE SubSeq(Slice(m, 0, a), 1, Len(m)) = m
  <2>1. Len(m) \in Nat
    OBVIOUS
  <2>2. /\ SubSeq(Slice(m, 0, a), 1, Len(m)) \in Seq(Byte)
        /\ Len(SubSeq(Slice(m, 0, a), 1, Len(m))) = Len(m)
        /\ \A i \in 1 .. Len(m) : SubSeq(Slice(m, 0, a), 1, Len(m))[i] = Slice(m, 0, a)[i]
    BY <1>2, <1>4, <2>1, SubSeqProperties
  <2>3. \A i \in 1 .. Len(m) : Slice(m, 0, a)[i] = m[i]
    BY <1>4, <2>1 DEF Slice
  <2> QED BY <2>2, <2>3, SeqEqual
<1> QED BY <1>2, <1>3, <1>4

\* A push that has the bytes of a message's first reports.
LEMMA CollectsMessage ==
  ASSUME NEW m \in Seq(Byte), NEW k \in 1 .. ReportCount(m), Collect(Slice(m, 0, Room(k)), Len(m))
  PROVE  IF k < ReportCount(m) THEN HoldsAfter(m, k) /\ result' = "none"
         ELSE result' = "message" /\ returned' = m
<1>1. k \in Nat \ {0} /\ ReportCount(m) \in Nat /\ Room(k) \in Nat /\ Len(m) \in Nat
  <2>1. ReportCount(m) \in Nat /\ ReportCount(m) > 0
    BY CountType
  <2>2. k \in Nat \ {0}
    BY <2>1
  <2> QED BY <2>1, <2>2, RoomFor
<1>2. Len(Slice(m, 0, Room(k))) = Room(k) /\ (Room(k) >= Len(m) => SubSeq(Slice(m, 0, Room(k)), 1, Len(m)) = m)
  BY <1>1, SlicesJoin
<1>3. CASE k < ReportCount(m)
  <2>1. Room(k) < Len(m)
    BY <1>1, <1>3, RoomFor
  <2>2. buf' = Slice(m, 0, Room(k)) /\ expected' = Len(m) /\ result' = "none"
    BY <1>1, <1>2, <2>1 DEF Collect
  <2> QED BY <1>3, <2>2 DEF Has
<1>4. CASE ~(k < ReportCount(m))
  <2>1. k = ReportCount(m) /\ Room(k) >= Len(m)
    BY <1>1, <1>4, RoomFor
  <2>2. result' = "message" /\ returned' = m
    BY <1>2, <2>1 DEF Collect
  <2> QED BY <1>4, <2>2
<1> QED BY <1>3, <1>4

\* A message's next report is pushed: the decoder has one more of them, or the message.
LEMMA PushOfReport ==
  ASSUME NEW m \in Seq(Byte), Encodable(m), NEW k \in 1 .. ReportCount(m),
         Head(wire).report = ReportOf(m, k), k > 1 => Holds(m, k - 1), Push
  PROVE  IF k < ReportCount(m) THEN HoldsAfter(m, k) /\ result' = "none"
         ELSE result' = "message" /\ returned' = m
<1> DEFINE report == Head(wire).report
<1>1. Len(m) \in Nat /\ Len(m) <= MAX_MESSAGE_SIZE /\ k \in Nat \ {0}
  <2>1. ReportCount(m) \in Nat /\ ReportCount(m) > 0
    BY CountType
  <2> QED BY <2>1 DEF Encodable
<1>2. PushStart(report) \/ PushContinuation(report) \/ PushMalformed(report)
  BY DEF Push
<1> HIDE DEF report
<1>3. report = ReportOf(m, k)
  BY DEF report
<1>4. Collect(Slice(m, 0, Room(k)), Len(m))
  <2>1. CASE k = 1
    <3>1. Room(k) = FIRST_CHUNK
      BY <2>1, FramingAssumption DEF Room
    <3>2. report.tag = "start" /\ report.length = Len(m) /\ report.chunk = Slice(m, 0, Room(k))
      BY <1>3, <2>1, <3>1 DEF ReportOf, StartReport
    <3>3. ~(report.length > MAX_MESSAGE_SIZE)
      BY <1>1, <3>2, FramingAssumption
    <3> QED BY <1>2, <3>2, <3>3 DEF PushStart, PushContinuation, PushMalformed
  <2>2. CASE k # 1
    <3>1. k - 1 \in Nat \ {0} /\ k > 1
      BY <1>1, <2>2
    <3>2. /\ Room(k - 1) \in Nat /\ Room(k) = Room(k - 1) + CONT_CHUNK /\ CONT_CHUNK \in Nat
          /\ report.tag = "cont" /\ report.chunk = Slice(m, Room(k - 1), CONT_CHUNK)
      <4>1. Room(k - 1) \in Nat /\ Room((k - 1) + 1) = Room(k - 1) + CONT_CHUNK /\ (k - 1) + 1 = k
        BY <1>1, <3>1, RoomFor
      <4>2. report = ContReport(Slice(m, Room(k - 1), CONT_CHUNK))
        BY <1>3, <2>2 DEF ReportOf
      <4> QED BY <4>1, <4>2, FramingAssumption DEF ContReport
    <3>3. expected = Len(m) /\ buf = Slice(m, 0, Room(k - 1)) /\ expected # Idle
      BY <1>1, <3>1, FramingAssumption DEF Has
    <3>4. buf \o report.chunk = Slice(m, 0, Room(k))
      <4>1. Slice(m, 0, Room(k - 1)) \o Slice(m, Room(k - 1), CONT_CHUNK) = Slice(m, 0, Room(k - 1) + CONT_CHUNK)
        BY <3>2, SlicesJoin
      <4> QED BY <3>2, <3>3, <4>1
    <3>5. Collect(buf \o report.chunk, expected)
      BY <1>2, <3>2, <3>3 DEF PushStart, PushContinuation, PushMalformed
    <3> QED BY <3>3, <3>4, <3>5
  <2> QED BY <2>1, <2>2
<1> QED BY <1>4, CollectsMessage

\* Reports that are further back on the wire are one place nearer after a push.
LEMMA PushMovesUp ==
  ASSUME IInv, NEW m \in Seq(Byte), Encodable(m), NEW p \in 1 .. Len(wire), NEW k \in 0 .. ReportCount(m),
         EndsAt(m, k, p), p > 1 \/ k < ReportCount(m), Push
  PROVE  EndsAfter(m, k, p - 1)
<1>1. /\ wire # << >> /\ wire' = Tail(wire) /\ Len(wire) \in Nat \ {0} /\ Head(wire) = wire[1]
      /\ Len(wire') = Len(wire) - 1 /\ \A i \in 1 .. Len(wire) - 1 : wire'[i] = wire[i + 1]
  <2>1. wire # << >> /\ wire' = Tail(wire) /\ wire \in Seq([report : ReportType, completes : Seq(Byte) \union {Idle}])
    BY DEF Push, IInv, TypeOK
  <2> QED BY <2>1
<1>2. k \in Nat /\ ReportCount(m) \in Nat /\ p \in Nat
  <2>1. ReportCount(m) \in Nat /\ ReportCount(m) > 0
    BY CountType
  <2> QED BY <1>1, <2>1
<1>3. ASSUME NEW i \in 1 .. k, (p - 1) - k + i > 0
      PROVE  wire'[(p - 1) - k + i].report = ReportOf(m, i)
  <2>1. (p - 1) - k + i \in 1 .. Len(wire) - 1 /\ ((p - 1) - k + i) + 1 = p - k + i /\ p - k + i > 0
    BY <1>1, <1>2, <1>3
  <2>2. wire'[(p - 1) - k + i] = wire[p - k + i]
    BY <1>1, <2>1
  <2> QED BY <2>1, <2>2 DEF Ends
<1>4. ASSUME k > p - 1 PROVE HoldsAfter(m, k - (p - 1))
  <2> DEFINE j == k - (p - 1)
  <2>1. j \in 1 .. ReportCount(m) /\ j < ReportCount(m) /\ p - k + j = 1 /\ j \in 1 .. k /\ j - 1 = k - p
    BY <1>2, <1>4
  <2>2. wire[1].report = ReportOf(m, j)
    BY <2>1 DEF Ends
  <2>3. j > 1 => Holds(m, j - 1)
    BY <1>2, <2>1 DEF Ends
  <2> HIDE DEF j
  <2>4. HoldsAfter(m, j)
    BY <1>1, <2>1, <2>2, <2>3, PushOfReport
  <2> QED BY <2>4 DEF j
<1> QED BY <1>3, <1>4 DEF Ends

-----------------------------------------------------------------------------
\* A report that is written changes nothing before it ...
LEMMA WritingKeeps ==
  ASSUME IInv, NEW e, wire' = Append(wire, e), UNCHANGED <<buf, expected>>,
         NEW m, NEW k \in Nat, NEW p \in 0 .. Len(wire), EndsAt(m, k, p)
  PROVE  EndsAfter(m, k, p)
<1>1. \A i \in 1 .. Len(wire) : wire'[i] = wire[i]
  BY DEF IInv, TypeOK
<1>2. ASSUME NEW i \in 1 .. k, p - k + i > 0 PROVE wire'[p - k + i].report = ReportOf(m, i)
  <2>1. p - k + i \in 1 .. Len(wire)
    BY <1>2
  <2> QED BY <1>1, <1>2, <2>1 DEF Ends
<1>3. k > p => HoldsAfter(m, k - p)
  BY DEF Ends, Has
<1> QED BY <1>2, <1>3 DEF Ends

\* ... and a message's next report is the end of one more of them.
LEMMA WritingAdds ==
  ASSUME IInv, NEW e, wire' = Append(wire, e), UNCHANGED <<buf, expected>>,
         NEW m, NEW k \in Nat, e.report = ReportOf(m, k + 1), EndsAt(m, k, Len(wire))
  PROVE  EndsAfter(m, k + 1, Len(wire'))
<1>1. /\ Len(wire) \in Nat /\ Len(wire') = Len(wire) + 1 /\ wire'[Len(wire) + 1] = e
      /\ \A i \in 1 .. Len(wire) : wire'[i] = wire[i]
  BY DEF IInv, TypeOK
<1> DEFINE p == Len(wire)
<1>2. ASSUME NEW i \in 1 .. k + 1, (p + 1) - (k + 1) + i > 0
      PROVE  wire'[(p + 1) - (k + 1) + i].report = ReportOf(m, i)
  <2>1. CASE i = k + 1
    <3>1. (p + 1) - (k + 1) + i = p + 1
      BY <1>1, <2>1
    <3> QED BY <1>1, <2>1, <3>1
  <2>2. CASE i # k + 1
    <3>1. (p + 1) - (k + 1) + i = p - k + i /\ p - k + i \in 1 .. p /\ p - k + i > 0 /\ i \in 1 .. k
      BY <1>1, <1>2, <2>2
    <3>2. wire[p - k + i].report = ReportOf(m, i)
      BY <3>1 DEF Ends
    <3> QED BY <1>1, <3>1, <3>2
  <2> QED BY <2>1, <2>2
<1>3. k + 1 > p + 1 => HoldsAfter(m, (k + 1) - (p + 1))
  <2>1. ASSUME k + 1 > p + 1 PROVE HoldsAfter(m, (k + 1) - (p + 1))
    <3>1. k > p /\ (k + 1) - (p + 1) = k - p
      BY <1>1, <2>1
    <3>2. Holds(m, k - p)
      BY <3>1 DEF Ends
    <3> QED BY <3>1, <3>2 DEF Has
  <2> QED BY <2>1
<1>4. Len(wire') = p + 1
  BY <1>1
<1> QED BY <1>2, <1>3, <1>4 DEF Ends

\* What is on the wire already stays as it is said to be when a report is written.
LEMMA WritingKeepsTheWire ==
  ASSUME IInv, OnTheWire, NEW e, wire' = Append(wire, e), UNCHANGED <<buf, expected>>,
         junk => junk',
         e.completes # Idle =>
           /\ e.completes \in Messages /\ Encodable(e.completes)
           /\ EndsAfter(e.completes, ReportCount(e.completes), Len(wire')),
         e.completes = Idle /\ ~junk' =>
           \E m \in Messages : \E k \in 1 .. ReportCount(m) - 1 : Encodable(m) /\ EndsAfter(m, k, Len(wire'))
  PROVE  OnTheWire'
<1>1. /\ Len(wire) \in Nat /\ Len(wire') = Len(wire) + 1 /\ wire'[Len(wire) + 1] = e
      /\ \A i \in 1 .. Len(wire) : wire'[i] = wire[i]
  BY DEF IInv, TypeOK
<1>2. \A m \in Messages : ReportCount(m) \in Nat
  BY CountType, FramingAssumption
<1>3. ASSUME NEW p \in 1 .. Len(wire) + 1, wire'[p].completes # Idle
      PROVE  /\ wire'[p].completes \in Messages /\ Encodable(wire'[p].completes)
             /\ EndsAfter(wire'[p].completes, ReportCount(wire'[p].completes), p)
  <2>1. CASE p = Len(wire) + 1
    BY <1>1, <1>3, <2>1
  <2>2. CASE p # Len(wire) + 1
    <3>1. p \in 1 .. Len(wire) /\ p \in 0 .. Len(wire) /\ wire'[p] = wire[p]
      BY <1>1, <2>2
    <3> DEFINE m == wire[p].completes
    <3>2. m \in Messages /\ Encodable(m) /\ EndsAt(m, ReportCount(m), p)
      BY <1>3, <3>1 DEF OnTheWire
    <3>3. EndsAfter(m, ReportCount(m), p)
      <4> HIDE DEF m
      <4> QED BY <1>2, <3>1, <3>2, WritingKeeps
    <3> QED BY <3>1, <3>2, <3>3
  <2> QED BY <2>1, <2>2
<1>4. ASSUME NEW p \in 1 .. Len(wire) + 1, wire'[p].completes = Idle, ~junk'
      PROVE  \E m \in Messages : \E k \in 1 .. ReportCount(m) - 1 : Encodable(m) /\ EndsAfter(m, k, p)
  <2>1. CASE p = Len(wire) + 1
    BY <1>1, <1>4, <2>1
  <2>2. CASE p # Len(wire) + 1
    <3>1. p \in 1 .. Len(wire) /\ p \in 0 .. Len(wire) /\ wire'[p] = wire[p]
      BY <1>1, <2>2
    <3>2. PICK m \in Messages : \E k \in 1 .. ReportCount(m) - 1 : Encodable(m) /\ EndsAt(m, k, p)
      BY <1>4, <3>1 DEF OnTheWire
    <3>3. PICK k \in 1 .. ReportCount(m) - 1 : Encodable(m) /\ EndsAt(m, k, p)
      BY <3>2
    <3>4. k \in Nat
      BY <1>2
    <3>5. EndsAfter(m, k, p)
      BY <3>1, <3>3, <3>4, WritingKeeps
    <3> QED BY <3>3, <3>5
  <2> QED BY <2>1, <2>2
<1> QED BY <1>1, <1>3, <1>4 DEF OnTheWire

\* A message that is begun has none of its reports written.
LEMMA StartKeepsTheStream ==
  ASSUME IInv, StreamInv, NEW m \in Messages, StartMessage(m) PROVE StreamInv'
<1>1. /\ m \in Seq(Byte) /\ Encodable(m) /\ sending' = Encode(m) /\ current' = m
      /\ UNCHANGED <<wire, buf, expected, junk>> /\ m # Idle
  BY FramingAssumption DEF StartMessage
<1>2. /\ ReportCount(m) \in Nat /\ Len(Encode(m)) = ReportCount(m)
      /\ \A i \in 1 .. Len(Encode(m)) : Encode(m)[i] = ReportOf(m, 0 + i)
  BY <1>1, EncodeIs, CountType
<1>3. EndsAfter(m, 0, Len(wire))
  <2>1. Len(wire) \in Nat
    BY DEF IInv, TypeOK
  <2> QED BY <1>1, <2>1 DEF Ends
<1>4. StillToWrite'
  <2>1. ReportCount(current') - Len(sending') = 0
    BY <1>1, <1>2
  <2> QED BY <1>1, <1>2, <1>3, <2>1 DEF StillToWrite
<1>5. OnTheWire'
  BY <1>1 DEF StreamInv, OnTheWire, Ends, Has
<1> QED BY <1>4, <1>5 DEF StreamInv

\* The next report goes where the one before it is, and the last completes the message.
LEMMA WriteKeepsTheStream ==
  ASSUME IInv, StreamInv, WriteReport PROVE StreamInv'
<1> DEFINE c == IF Len(sending) = 1 THEN current ELSE Idle
           e == Marked(Head(sending), c)
           k == ReportCount(current) - Len(sending)
<1>1. /\ sending # << >> /\ sending' = Tail(sending) /\ wire' = Append(wire, e)
      /\ UNCHANGED <<buf, expected, current, junk>>
  BY DEF WriteReport
<1>2. /\ Len(sending) \in Nat /\ Len(sending) > 0 /\ Head(sending) = sending[1] /\ Len(sending') = Len(sending) - 1
      /\ \A i \in 1 .. Len(sending) - 1 : sending'[i] = sending[i + 1]
  BY <1>1 DEF IInv, TypeOK
<1>3. e.report = sending[1] /\ e.completes = c
  BY <1>2 DEF Marked
<1>4. ASSUME current # Idle
      PROVE  /\ current \in Messages /\ Encodable(current) /\ k \in Nat /\ k < ReportCount(current)
             /\ \A i \in 1 .. Len(sending) : sending[i] = ReportOf(current, k + i)
             /\ EndsAfter(current, k + 1, Len(wire'))
  <2>1. current \in Messages /\ Encodable(current) /\ current \in Seq(Byte)
    BY <1>4, FramingAssumption DEF StreamInv, StillToWrite
  <2>2. ReportCount(current) \in Nat
    BY <2>1, CountType
  <2>3. /\ k >= 0 /\ EndsAt(current, k, Len(wire))
        /\ \A i \in 1 .. Len(sending) : sending[i] = ReportOf(current, k + i)
    BY <1>1, <1>4 DEF StreamInv, StillToWrite
  <2>4. k \in Nat /\ k < ReportCount(current)
    BY <1>2, <2>2, <2>3
  <2>5. e.report = ReportOf(current, k + 1)
    BY <1>2, <1>3, <2>3
  <2> HIDE DEF k, e
  <2>6. EndsAfter(current, k + 1, Len(wire'))
    BY <1>1, <2>3, <2>4, <2>5, WritingAdds
  <2> QED BY <2>1, <2>3, <2>4, <2>6
<1>5. StillToWrite'
  <2>1. current' \in Messages \union {Idle} /\ (current' \in Messages => Encodable(current'))
    BY <1>1 DEF StreamInv, StillToWrite
  <2>2. ASSUME sending' # << >>, current' # Idle
        PROVE  /\ ReportCount(current') - Len(sending') = k + 1 /\ k + 1 >= 0
               /\ \A i \in 1 .. Len(sending') : sending'[i] = ReportOf(current', k + 1 + i)
               /\ EndsAfter(current', k + 1, Len(wire'))
    <3>1. /\ k \in Nat /\ current' = current /\ EndsAfter(current, k + 1, Len(wire')) /\ current \in Messages
          /\ \A i \in 1 .. Len(sending) : sending[i] = ReportOf(current, k + i)
      BY <1>1, <1>4, <2>2
    <3>2. ReportCount(current) \in Nat
      BY <3>1, CountType, FramingAssumption
    <3>3. ASSUME NEW i \in 1 .. Len(sending') PROVE sending'[i] = ReportOf(current, k + 1 + i)
      <4>1. i \in 1 .. Len(sending) - 1 /\ i + 1 \in 1 .. Len(sending) /\ k + (i + 1) = k + 1 + i
        BY <1>2, <3>1
      <4> QED BY <1>2, <3>1, <4>1
    <3>4. ReportCount(current) - Len(sending') = k + 1
      BY <1>2, <3>2
    <3> QED BY <3>1, <3>3, <3>4
  <2>3. sending' # << >> /\ ~junk' => current' # Idle
    BY <1>1 DEF StreamInv, StillToWrite
  <2> HIDE DEF k
  <2> QED BY <2>1, <2>2, <2>3 DEF StillToWrite
<1>6. OnTheWire'
  <2>1. OnTheWire
    BY DEF StreamInv
  <2>2. ASSUME e.completes # Idle
        PROVE  /\ e.completes \in Messages /\ Encodable(e.completes)
               /\ EndsAfter(e.completes, ReportCount(e.completes), Len(wire'))
    <3>1. Len(sending) = 1 /\ e.completes = current /\ current # Idle
      BY <1>3, <2>2
    <3>2. ReportCount(current) \in Nat
      BY <1>4, <3>1, CountType, FramingAssumption
    <3>3. k + 1 = ReportCount(current)
      BY <3>1, <3>2
    <3> QED BY <1>4, <3>1, <3>3
  <2>3. ASSUME e.completes = Idle, ~junk'
        PROVE  \E m \in Messages : \E j \in 1 .. ReportCount(m) - 1 : Encodable(m) /\ EndsAfter(m, j, Len(wire'))
    <3>1. current # Idle
      BY <1>1, <2>3 DEF StreamInv, StillToWrite
    <3>2. Len(sending) # 1
      BY <1>3, <2>3, <3>1
    <3>3. ReportCount(current) \in Nat
      BY <1>4, <3>1, CountType, FramingAssumption
    <3>4. k + 1 \in 1 .. ReportCount(current) - 1
      BY <1>2, <1>4, <3>1, <3>2, <3>3
    <3> HIDE DEF k
    <3> QED BY <1>4, <3>1, <3>4
  <2> HIDE DEF e
  <2> QED BY <1>1, <2>1, <2>2, <2>3, WritingKeepsTheWire
<1> QED BY <1>5, <1>6 DEF StreamInv

\* Junk ends the message it cuts into; before a message's first report it does no harm.
LEMMA JunkKeepsTheStream ==
  ASSUME IInv, StreamInv, NEW report \in JunkReports, WriteJunk(report) PROVE StreamInv'
<1>1. /\ wire' = Append(wire, Marked(report, Idle)) /\ junk' = TRUE
      /\ current' = (IF sending # << >> /\ Head(sending).tag = "cont" THEN Idle ELSE current)
      /\ UNCHANGED <<sending, buf, expected>>
  BY DEF WriteJunk
<1>2. OnTheWire'
  <2>1. Marked(report, Idle).completes = Idle
    BY DEF Marked
  <2> QED BY <1>1, <2>1, WritingKeepsTheWire DEF StreamInv
<1>3. StillToWrite'
  <2>1. current' \in Messages \union {Idle} /\ (current' \in Messages => Encodable(current'))
    BY <1>1, FramingAssumption DEF StreamInv, StillToWrite
  <2>2. ASSUME sending' # << >>, current' # Idle
        PROVE  /\ ReportCount(current') - Len(sending') = 0
               /\ \A i \in 1 .. Len(sending') : sending'[i] = ReportOf(current', 0 + i)
               /\ EndsAfter(current', 0, Len(wire'))
    <3> DEFINE k == ReportCount(current) - Len(sending)
    <3>1. /\ sending # << >> /\ current' = current /\ current # Idle /\ Head(sending).tag # "cont"
          /\ UNCHANGED sending
      BY <1>1, <2>2
    <3>2. /\ k >= 0 /\ current \in Messages
          /\ \A i \in 1 .. Len(sending) : sending[i] = ReportOf(current, k + i)
      BY <3>1 DEF StreamInv, StillToWrite
    <3>3. Len(sending) \in Nat /\ Len(sending) > 0 /\ Head(sending) = sending[1] /\ ReportCount(current) \in Nat
      BY <3>1, <3>2, CountType, FramingAssumption DEF IInv, TypeOK
    <3>4. k \in Nat /\ sending[1] = ReportOf(current, k + 1)
      BY <3>2, <3>3
    <3>5. k = 0
      <4>1. ASSUME k # 0 PROVE FALSE
        <5>1. k + 1 # 1
          BY <3>4, <4>1
        <5> HIDE DEF k
        <5>2. sending[1].tag = "cont"
          BY <3>4, <5>1 DEF ReportOf, ContReport
        <5> QED BY <3>1, <3>3, <5>2
      <4> QED BY <4>1
    <3>6. EndsAfter(current, 0, Len(wire'))
      <4>1. Len(wire') \in Nat
        BY <1>1 DEF IInv, TypeOK
      <4> QED BY <4>1 DEF Ends
    <3> HIDE DEF k
    <3>7. ReportCount(current) - Len(sending) = 0
      BY <3>5 DEF k
    <3> QED BY <3>1, <3>2, <3>5, <3>6, <3>7
  <2> QED BY <1>1, <2>1, <2>2 DEF StillToWrite
<1> QED BY <1>2, <1>3 DEF StreamInv

\* What the decoder takes from the wire, it has.
LEMMA PushKeepsTheStream ==
  ASSUME IInv, StreamInv, Push PROVE StreamInv'
<1>1. /\ wire # << >> /\ wire' = Tail(wire) /\ UNCHANGED <<sending, current, junk>>
      /\ Len(wire) \in Nat /\ Len(wire) > 0 /\ Len(wire') = Len(wire) - 1
      /\ \A i \in 1 .. Len(wire) - 1 : wire'[i] = wire[i + 1]
  <2>1. wire # << >> /\ wire' = Tail(wire) /\ UNCHANGED <<sending, current, junk>>
    BY DEF Push
  <2> QED BY <2>1 DEF IInv, TypeOK
<1>2. \A m \in Messages : m \in Seq(Byte) /\ ReportCount(m) \in Nat
  BY CountType, FramingAssumption
<1>3. StillToWrite'
  <2>1. ASSUME sending # << >>, current # Idle
        PROVE  EndsAfter(current, ReportCount(current) - Len(sending), Len(wire'))
    <3> DEFINE k == ReportCount(current) - Len(sending)
    <3>1. current \in Messages /\ Encodable(current) /\ k >= 0 /\ EndsAt(current, k, Len(wire))
      BY <2>1 DEF StreamInv, StillToWrite
    <3>2. Len(sending) \in Nat /\ Len(sending) > 0
      BY <2>1 DEF IInv, TypeOK
    <3>3. k \in 0 .. ReportCount(current) /\ k < ReportCount(current)
      BY <1>2, <3>1, <3>2
    <3>4. Len(wire) \in 1 .. Len(wire) /\ Len(wire') = Len(wire) - 1
      BY <1>1
    <3> HIDE DEF k
    <3>5. EndsAfter(current, k, Len(wire) - 1)
      BY <1>2, <3>1, <3>3, <3>4, PushMovesUp
    <3> QED BY <3>4, <3>5 DEF k
  <2> QED BY <1>1, <2>1 DEF StreamInv, StillToWrite
<1>4. OnTheWire'
  <2> SUFFICES ASSUME NEW p \in 1 .. Len(wire) - 1
               PROVE  /\ wire[p + 1].completes # Idle =>
                           /\ wire[p + 1].completes \in Messages /\ Encodable(wire[p + 1].completes)
                           /\ EndsAfter(wire[p + 1].completes, ReportCount(wire[p + 1].completes), p)
                      /\ wire[p + 1].completes = Idle /\ ~junk =>
                           \E m \in Messages : \E k \in 1 .. ReportCount(m) - 1 : Encodable(m) /\ EndsAfter(m, k, p)
    BY <1>1 DEF OnTheWire
  <2>1. p + 1 \in 1 .. Len(wire) /\ p + 1 > 1 /\ (p + 1) - 1 = p
    BY <1>1
  <2>2. ASSUME NEW m \in Messages, Encodable(m), NEW k \in 0 .. ReportCount(m), EndsAt(m, k, p + 1)
        PROVE  EndsAfter(m, k, p)
    BY <1>2, <2>1, <2>2, PushMovesUp
  <2>3. ASSUME wire[p + 1].completes # Idle
        PROVE  /\ wire[p + 1].completes \in Messages /\ Encodable(wire[p + 1].completes)
               /\ EndsAfter(wire[p + 1].completes, ReportCount(wire[p + 1].completes), p)
    <3> DEFINE m == wire[p + 1].completes
    <3>1. m \in Messages /\ Encodable(m) /\ EndsAt(m, ReportCount(m), p + 1)
      BY <2>1, <2>3 DEF StreamInv, OnTheWire
    <3> HIDE DEF m
    <3>2. ReportCount(m) \in 0 .. ReportCount(m)
      BY <1>2, <3>1
    <3>3. EndsAfter(m, ReportCount(m), p)
      BY <2>2, <3>1, <3>2
    <3> QED BY <3>1, <3>3 DEF m
  <2>4. ASSUME wire[p + 1].completes = Idle, ~junk
        PROVE  \E m \in Messages : \E k \in 1 .. ReportCount(m) - 1 : Encodable(m) /\ EndsAfter(m, k, p)
    <3>1. PICK m \in Messages : \E k \in 1 .. ReportCount(m) - 1 : Encodable(m) /\ EndsAt(m, k, p + 1)
      BY <2>1, <2>4 DEF StreamInv, OnTheWire
    <3>2. PICK k \in 1 .. ReportCount(m) - 1 : Encodable(m) /\ EndsAt(m, k, p + 1)
      BY <3>1
    <3>3. k \in 0 .. ReportCount(m)
      BY <1>2
    <3>4. EndsAfter(m, k, p)
      BY <2>2, <3>2, <3>3
    <3> QED BY <3>2, <3>4
  <2> QED BY <2>3, <2>4
<1> QED BY <1>3, <1>4 DEF StreamInv

\* What is said of the stream is so all along.
LEMMA StreamSpec == Spec => [](IInv /\ StreamInv)
<1>1. Init => IInv /\ StreamInv
  <2>1. ASSUME Init PROVE IInv /\ StreamInv
    <3>1. IInv /\ sending = << >> /\ Len(wire) = 0 /\ current = Idle /\ Idle \notin Messages
      BY <2>1, InitInv, FramingAssumption DEF Init
    <3>2. StillToWrite
      BY <3>1 DEF StillToWrite
    <3>3. OnTheWire
      BY <3>1 DEF OnTheWire
    <3> QED BY <3>1, <3>2, <3>3 DEF StreamInv
  <2> QED BY <2>1
<1>2. IInv /\ StreamInv /\ [Next]_vars => StreamInv'
  <2>1. UNCHANGED vars /\ StreamInv => StreamInv'
    BY DEF vars, StreamInv, StillToWrite, OnTheWire, Ends, Has
  <2> QED BY <2>1, StartKeepsTheStream, WriteKeepsTheStream, JunkKeepsTheStream, PushKeepsTheStream DEF Next
<1> QED BY <1>1, <1>2, NextInv, PTL DEF Spec

-----------------------------------------------------------------------------
\* The wire loses its first report only to the decoder.
LEMMA OnlyPushReads ==
  ASSUME IInv, [Next]_vars, wire # << >>, wire' = Tail(wire) PROVE Push
<1>1. Len(wire) \in Nat /\ Len(wire') = Len(wire) - 1
  BY DEF IInv, TypeOK
<1>2. wire' # wire
  <2>1. ASSUME wire' = wire PROVE FALSE
    <3>1. Len(wire') = Len(wire)
      BY <2>1
    <3> QED BY <1>1, <3>1
  <2> QED BY <2>1
<1>3. ASSUME NEW e, wire' = Append(wire, e) PROVE FALSE
  <2>1. Len(wire') = Len(wire) + 1
    BY <1>3 DEF IInv, TypeOK
  <2> QED BY <1>1, <2>1
<1> QED BY <1>2, <1>3 DEF Next, vars, StartMessage, WriteReport, WriteJunk

\* The report that is read is the k-th of m.
LEMMA ReadingOf ==
  ASSUME IInv, Push, NEW m \in Messages, Encodable(m), NEW k \in 1 .. ReportCount(m), EndsAt(m, k, 1)
  PROVE  IF k < ReportCount(m) THEN result' = "none" ELSE result' = "message" /\ returned' = m
<1>1. m \in Seq(Byte) /\ ReportCount(m) \in Nat
  BY CountType, FramingAssumption
<1>2. wire # << >> /\ Head(wire) = wire[1]
  BY DEF Push, IInv, TypeOK
<1>3. 1 - k + k = 1 /\ k \in 1 .. k /\ k \in Nat
  BY <1>1
<1>4. wire[1].report = ReportOf(m, k) /\ (k > 1 => Holds(m, k - 1))
  BY <1>3 DEF Ends
<1>5. Head(wire).report = ReportOf(m, k)
  BY <1>2, <1>4
<1> QED BY <1>1, <1>4, <1>5, PushOfReport

\* A message whose reports were written without interruption comes out whole, for any
\* sizes of the reports and the message and whatever went before (push, encode).
THEOREM ArrivalTheorem == Spec => UninterruptedMessagesArrive
<1> DEFINE Arrives == wire # << >> /\ wire' = Tail(wire) /\ Head(wire).completes # Idle
                      => result' = "message" /\ returned' = Head(wire).completes
<1>1. IInv /\ StreamInv /\ [Next]_vars => Arrives
  <2> SUFFICES ASSUME IInv, StreamInv, [Next]_vars, wire # << >>, wire' = Tail(wire), Head(wire).completes # Idle
               PROVE  result' = "message" /\ returned' = Head(wire).completes
    OBVIOUS
  <2> DEFINE m == Head(wire).completes
  <2>1. Push
    BY OnlyPushReads
  <2>2. Head(wire) = wire[1] /\ 1 \in 1 .. Len(wire)
    BY DEF IInv, TypeOK
  <2>3. m \in Messages /\ Encodable(m) /\ EndsAt(m, ReportCount(m), 1)
    BY <2>2 DEF StreamInv, OnTheWire
  <2> HIDE DEF m
  <2>4. ReportCount(m) \in 1 .. ReportCount(m) /\ ~(ReportCount(m) < ReportCount(m))
    BY <2>3, CountType, FramingAssumption
  <2>5. result' = "message" /\ returned' = m
    BY <2>1, <2>3, <2>4, ReadingOf
  <2> QED BY <2>5 DEF m
<1> QED BY <1>1, StreamSpec, PTL DEF Spec, UninterruptedMessagesArrive

\* Without junk on the wire no fragment of an abandoned message is delivered, nor a
\* part of one and a part of another (push, the start report).
THEOREM FragmentTheorem == Spec => FragmentsAreDropped
<1> DEFINE Drops == ~junk /\ wire # << >> /\ wire' = Tail(wire) /\ result' = "message"
                    => Head(wire).completes # Idle
<1>1. IInv /\ StreamInv /\ [Next]_vars => Drops
  <2> SUFFICES ASSUME IInv, StreamInv, [Next]_vars, ~junk, wire # << >>, wire' = Tail(wire),
                      Head(wire).completes = Idle
               PROVE  result' # "message"
    OBVIOUS
  <2>1. Push
    BY OnlyPushReads
  <2>2. Head(wire) = wire[1] /\ 1 \in 1 .. Len(wire)
    BY DEF IInv, TypeOK
  <2>3. PICK m \in Messages : \E k \in 1 .. ReportCount(m) - 1 : Encodable(m) /\ EndsAt(m, k, 1)
    BY <2>2 DEF StreamInv, OnTheWire
  <2>4. PICK k \in 1 .. ReportCount(m) - 1 : Encodable(m) /\ EndsAt(m, k, 1)
    BY <2>3
  <2>5. k \in 1 .. ReportCount(m) /\ k < ReportCount(m)
    BY CountType, FramingAssumption
  <2>6. result' = "none"
    BY <2>1, <2>4, <2>5, ReadingOf
  <2> QED BY <2>6
<1> QED BY <1>1, StreamSpec, PTL DEF Spec, FragmentsAreDropped
=============================================================================
