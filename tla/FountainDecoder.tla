--------------------------- MODULE FountainDecoder ---------------------------
(***************************************************************************)
(* The fountain code an animated UR travels in: the parts FountainEncoder  *)
(* makes of a message and the FountainDecoder that puts them together      *)
(* (helpers/ur2/fountain_encoder.py, fountain_decoder.py and               *)
(* fountain_utils.py).                                                     *)
(*                                                                         *)
(* A part carries the exclusive or of some fragments of its message.  Data *)
(* is symbolic: the set of the fragments that went into it, so that the    *)
(* exclusive or is the symmetric difference.  Which fragments a part mixes *)
(* is pseudo-random in the code; here it may be any of them.               *)
(*                                                                         *)
(* receive_part queues a part and then works the queue off; one step here  *)
(* is one item of the queue.                                               *)
(***************************************************************************)
EXTENDS Integers, Sequences, FiniteSets, FiniteSetsExt, SequencesExt

CONSTANTS
  Messages,   \* messages senders may show
  Fragments,  \* how many fragments a message is cut into, [Messages -> Nat \ {0}]
  NoMessage,  \* None
  BadChecksum \* an InvalidChecksum

ASSUME FountainAssumption ==
  /\ Fragments \in [Messages -> Nat \ {0}]
  /\ NoMessage \notin Messages
  /\ BadChecksum \notin Messages

VARIABLES
  expected,   \* the message the first part was of: expected_part_indexes, _checksum, ...
  simple,     \* simple_parts and received_part_indexes: data by index
  mixed,      \* mixed_parts, in the order of the dict
  queued,     \* queued_parts
  result,     \* NoMessage, a message or BadChecksum
  had         \* what receive_part noted before it began

fountainVars == <<expected, simple, mixed, queued, result, had>>

Fragment(m, i)  == [of |-> m, index |-> i]
IndexesOf(m)    == 0 .. Fragments[m] - 1
Part(ix, data)  == [indexes |-> ix, data |-> data]
IsSimple(p)     == Cardinality(p.indexes) = 1
Index(p)        == CHOOSE i \in p.indexes : TRUE

\* FountainEncoder.mix and next_part; choose_fragments may choose any fragments.
Mix(m, ix)         == {Fragment(m, i) : i \in ix}
EncoderPart(m, ix) == Part(ix, Mix(m, ix))
EncoderParts(m)    == {EncoderPart(m, ix) : ix \in (SUBSET IndexesOf(m)) \ {{}}}

FountainTypeOK ==
  /\ expected \in Messages \union {NoMessage}
  /\ DOMAIN simple # {} => expected # NoMessage /\ DOMAIN simple \subseteq IndexesOf(expected)
  /\ \A p \in Range(mixed) \union Range(queued) : p.indexes \subseteq IndexesOf(expected)
  /\ result \in Messages \union {NoMessage, BadChecksum}

FountainInit ==
  /\ expected = NoMessage
  /\ simple = << >>
  /\ mixed = << >> /\ queued = << >>
  /\ result = NoMessage
  /\ had = [received |-> 0, mixed |-> 0]

-----------------------------------------------------------------------------
(* Reducing parts by parts. *)

\* Mutant: the indexes are taken out, the data is left as it was.
ReducePartByPart_DataStays(a, b) ==
  IF b.indexes \subseteq a.indexes THEN Part(a.indexes \ b.indexes, a.data) ELSE a

\* is_strict_subset is not strict: a part can be reduced to nothing.
ReducePartByPart(a, b) ==
  IF b.indexes \subseteq a.indexes
  THEN Part(a.indexes \ b.indexes, SymDiff(a.data, b.data)) ELSE a

\* Mixed parts are keyed by their indexes: setting a key again keeps its place.
Put(parts, p) ==
  LET k == SelectInSeq(parts, LAMBDA q : q.indexes = p.indexes)
  IN  IF k = 0 THEN Append(parts, p) ELSE [parts EXCEPT ![k] = p]

\* reduce_mixed_by: the mixed parts one after the other, each reduced by p; those
\* that became simple, and those that remain mixed.
MixedReducedBy(p) ==
  LET after[k \in 0 .. Len(mixed)] ==
        IF k = 0 THEN [mixed |-> << >>, simple |-> << >>]
        ELSE LET r == ReducePartByPart(mixed[k], p)
             IN  IF IsSimple(r) THEN [after[k - 1] EXCEPT !.simple = Append(@, r)]
                 ELSE [after[k - 1] EXCEPT !.mixed = Put(@, r)]
  IN  after[Len(mixed)]

NowSimple(p)  == MixedReducedBy(p).simple
StillMixed(p) == MixedReducedBy(p).mixed

\* The simple parts, of which the order makes no difference, and then the mixed ones in
\* theirs.  For a fragment that is not there yet there is a part of nothing, by which
\* nothing is reduced.
SimpleParts ==
  [k \in 1 .. Fragments[expected] |->
     IF k - 1 \in DOMAIN simple THEN Part({k - 1}, simple[k - 1]) ELSE Part({}, {})]
Held == SimpleParts \o mixed

\* A part reduced by all of them.
Reduced(p) ==
  LET after[k \in 0 .. Len(Held)] ==
        IF k = 0 THEN p ELSE ReducePartByPart(after[k - 1], Held[k])
  IN  after[Len(Held)]

-----------------------------------------------------------------------------
(* FountainDecoder.receive_part. *)

Resting == queued = << >> \/ result # NoMessage

\* The first part fixes the message; parts of another one are thrown away.
PartIsValid(m) == expected \in {NoMessage, m}

ReceivePart(m, p) ==
  /\ Resting
  /\ IF result # NoMessage \/ ~PartIsValid(m)
     THEN UNCHANGED fountainVars
     ELSE /\ expected' = IF expected = NoMessage THEN m ELSE expected
          /\ queued' = <<p>>
          /\ had' = [received |-> Cardinality(DOMAIN simple), mixed |-> Len(mixed)]
          /\ UNCHANGED <<simple, mixed, result>>

\* Did the part that was just worked off bring anything new?
NewInfo == had.received # Cardinality(DOMAIN simple) \/ had.mixed # Len(mixed)

\* The fragments in the order of their indexes, checked against the checksum.
Joined(parts) ==
  IF \A i \in DOMAIN parts : parts[i] = {Fragment(expected, i)} THEN expected ELSE BadChecksum

ProcessSimplePart ==
  /\ ~Resting /\ IsSimple(Head(queued))
  /\ LET p == Head(queued)
         i == Index(p)
         known == [j \in DOMAIN simple \union {i} |-> IF j = i THEN p.data ELSE simple[j]]
     IN  IF i \in DOMAIN simple
         THEN queued' = Tail(queued) /\ UNCHANGED <<simple, mixed, result>>
         ELSE /\ simple' = known
              /\ IF DOMAIN known = IndexesOf(expected)
                 THEN /\ result' = Joined(known)
                      /\ queued' = Tail(queued)
                      /\ UNCHANGED mixed
                 ELSE /\ mixed' = StillMixed(p)
                      /\ queued' = Tail(queued) \o NowSimple(p)
                      /\ UNCHANGED result
  /\ UNCHANGED <<expected, had>>

\* The test for duplicates compares a part with a set of indexes and never holds.
ProcessMixedPart ==
  /\ ~Resting /\ ~IsSimple(Head(queued))
  /\ LET p == Reduced(Head(queued))
     IN  IF IsSimple(p)
         THEN queued' = Append(Tail(queued), p) /\ UNCHANGED mixed
         ELSE /\ queued' = Tail(queued) \o NowSimple(p)
              /\ mixed' = Put(StillMixed(p), p)
  /\ UNCHANGED <<expected, simple, result, had>>

ProcessQueueItem == ProcessSimplePart \/ ProcessMixedPart

-----------------------------------------------------------------------------
(* The decoder as an ErasureCode: what is known is what the parts it holds *)
(* combine to, the ones in the queue included.                             *)

Span(parts) ==
  LET known[k \in 0 .. Len(parts)] ==
        IF k = 0 THEN {{}}
        ELSE UNION {{ix, SymDiff(parts[k].indexes, ix)} : ix \in known[k - 1]}
  IN  known[Len(parts)]

Known == IF expected = NoMessage THEN {{}} ELSE Span(Held \o queued)

Abstract == INSTANCE ErasureCode
              WITH message <- expected, known <- Known, delivered <- result
=============================================================================
