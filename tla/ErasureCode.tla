----------------------------- MODULE ErasureCode -----------------------------
(***************************************************************************)
(* What a receiver of a fountain code promises, said without how it works: *)
(* it locks on to the message of the first part, never forgets what a part *)
(* told it, and delivers that message, whole, only when the parts it has   *)
(* determine all fragments.  FountainDecoder implements it.                *)
(*                                                                         *)
(* What the parts tell is the set of the combinations of fragments one can *)
(* work out from them: it is closed under exclusive or.                    *)
(***************************************************************************)
EXTENDS Integers, FiniteSetsExt

CONSTANTS Messages, Fragments, NoMessage

VARIABLES message, known, delivered

Init == message = NoMessage /\ known = {{}} /\ delivered = NoMessage

Learn(m) ==
  /\ delivered = NoMessage
  /\ message \in {NoMessage, m}
  /\ message' = m
  /\ \E ix \in SUBSET (0 .. Fragments[m] - 1) : known' = known \union {SymDiff(ix, k) : k \in known}
  /\ UNCHANGED delivered

Deliver ==
  /\ delivered = NoMessage /\ message # NoMessage
  /\ known = SUBSET (0 .. Fragments[message] - 1)
  /\ delivered' = message
  /\ UNCHANGED <<message, known>>

Next == Deliver \/ \E m \in Messages : Learn(m)

Spec == Init /\ [][Next]_<<message, known, delivered>>
=============================================================================
