----------------------------- MODULE MCHidFraming -----------------------------
(***************************************************************************)
(* Reports of 2 and 3 payload bytes and messages of at most 7 bytes: the   *)
(* lengths 0, 2, 3, 5 and 7 sit on and next to the chunk boundaries, 8 is  *)
(* one too long.                                                           *)
(***************************************************************************)
EXTENDS HidFraming

Message(n) == [i \in 1 .. n |-> 10 * n + i]
MCMessages == {Message(n) : n \in {0, 1, 2, 3, 5, 6, 7, 8}}
=============================================================================
