---------------------------- MODULE MCUsbProtocol ----------------------------
(***************************************************************************)
(* A small instance of UsbProtocol.  The bounds of a round are scaled down *)
(* (a mix needs 1 foreign input in 2 to 3 inputs); the psbts the host may  *)
(* send are one good round per fee and, for every check of the policy, a   *)
(* round that fails just that check.                                       *)
(***************************************************************************)
EXTENDS UsbProtocol

Account1 == <<1>>
Account2 == <<2>>
MCPaths  == {Account1, Account2, << >>}

Ours(path)  == <<[names_us |-> TRUE, derives |-> TRUE, path |-> path]>>
Forged      == <<[names_us |-> TRUE, derives |-> FALSE, path |-> <<1, 7>>]>>
Foreign     == <<[names_us |-> FALSE, derives |-> FALSE, path |-> <<1, 7>>]>>
\* A multisig scope with a slot of ours behind somebody else's.
Shared      == Foreign \o Ours(<<1, 4>>)
\* One true claim first, a false one behind it.
HalfForged  == Ours(<<1, 4>>) \o Forged

Input(outpoint, claims, value) ==
  [outpoint |-> outpoint, claims |-> claims, sighash |-> "none",
   utxo |-> "previous_tx", value |-> value, signed |-> FALSE]
Output(claims) == [claims |-> claims, pays_claim |-> TRUE]
\* The key is ours, the script is somebody else's.
DressedUp      == [Output(Ours(<<1, 5>>)) EXCEPT !.pays_claim = FALSE]

OurInput      == Input(1, Ours(<<1, 3>>), 3)
ForeignInput  == Input(2, Foreign, 0)

\* A round that puts in 3 and takes back 3 - fee.
GoodRound(fee) ==
  [inputs  |-> <<OurInput, ForeignInput>>,
   outputs |-> <<Output(Foreign), Output(Ours(<<1, 5>>))>>,
   vout    |-> <<0, 3 - fee>>]

WithInput(r, k, inp)  == [r EXCEPT !.inputs[k] = inp]
WithOutput(r, k, out) == [r EXCEPT !.outputs[k] = out]

GoodRounds == {GoodRound(fee) : fee \in {-1, 0, 1, 2}}

\* The first input again, each time with one thing wrong with it.
BadOwnInputs ==
  { [OurInput EXCEPT !.claims = Ours(<<2, 3>>)],
    [OurInput EXCEPT !.claims = Ours(<< >>)],
    [OurInput EXCEPT !.claims = Forged],
    [OurInput EXCEPT !.claims = HalfForged],
    [OurInput EXCEPT !.claims = Foreign],
    [OurInput EXCEPT !.sighash = "SINGLE"],
    [OurInput EXCEPT !.utxo = "absent"],
    [OurInput EXCEPT !.utxo = "witness_only"],
    [OurInput EXCEPT !.utxo = "wrong_previous_tx"],
    [OurInput EXCEPT !.outpoint = 2] }

\* A multisig input a cosigner has signed already.
SharedInput == [OurInput EXCEPT !.claims = Shared, !.signed = TRUE]

\* All inputs are taproot.
TaprootRound ==
  [GoodRound(2) EXCEPT
     !.inputs = <<[OurInput EXCEPT !.utxo = "taproot", !.sighash = "DEFAULT"],
                  [ForeignInput EXCEPT !.utxo = "taproot"]>>]

OddRounds ==
  {WithInput(GoodRound(2), 1, inp) : inp \in BadOwnInputs \union {SharedInput}}
  \union { WithInput(GoodRound(2), 2, [ForeignInput EXCEPT !.signed = TRUE]),
           WithInput(GoodRound(2), 2, Input(2, Ours(<<1, 8>>), 0)),
           WithOutput(GoodRound(2), 2, Output(Ours(<<2, 5>>))),
           WithOutput(GoodRound(2), 2, Output(Forged)),
           WithOutput(GoodRound(2), 2, Output(Foreign)),
           WithOutput(GoodRound(2), 2, DressedUp),
           TaprootRound,
           [GoodRound(2) EXCEPT !.inputs = <<OurInput>>],
           [GoodRound(2) EXCEPT !.inputs = @ \o <<Input(3, Foreign, 0), Input(4, Foreign, 0)>>],
           [GoodRound(2) EXCEPT !.inputs = <<Input(3, Ours(<<1, 9>>), 1)>> \o @],
           [GoodRound(2) EXCEPT !.outputs = <<Output(Ours(<<1, 5>>))>>, !.vout = <<1>>],
           [GoodRound(2) EXCEPT !.vout = @ \o <<0>>] }

MCRounds == GoodRounds \union OddRounds

MCRoundLimits == {0, 1, 3, 4}
MCFeeLimits   == {0, 2, 3}
=============================================================================
