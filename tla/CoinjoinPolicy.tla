--------------------------- MODULE CoinjoinPolicy ---------------------------
(***************************************************************************)
(* The rules by which the device decides, without asking anybody, whether  *)
(* it signs a coinjoin round: usb/policy.py.                               *)
(*                                                                         *)
(* This module holds values and operators only; UsbProtocol.tla puts them  *)
(* in motion.  A round is the psbt as the policy reads it:                 *)
(*                                                                         *)
(*   inputs   sequence of [outpoint, claims, sighash, utxo, value, signed] *)
(*   outputs  sequence of [claims, pays_claim]                             *)
(*   vout     sequence of amounts, the outputs of the transaction itself   *)
(*                                                                         *)
(* "claims" are the keys listed in a psbt scope.  Of each the policy wants *)
(* to know three things: does it carry this seed's fingerprint, does       *)
(* re-deriving the path give that very key, and what the path is.  Whether *)
(* the script of an output pays that key ("pays_claim") is a fact about    *)
(* the transaction which the policy never looks at.                        *)
(***************************************************************************)
EXTENDS Integers, Sequences, FiniteSets, SequencesExt

CONSTANTS
  MIN_FOREIGN_INPUTS,                   \* other participants a mix needs
  MIN_TOTAL_INPUTS,  MAX_TOTAL_INPUTS,  \* shape of a round, inputs
  MIN_TOTAL_OUTPUTS, MAX_TOTAL_OUTPUTS, \* shape of a round, outputs
  NoPath                                \* "no key in this scope is ours"

ASSUME PolicyBoundsAssumption ==
  /\ MIN_FOREIGN_INPUTS \in Nat
  /\ MIN_TOTAL_INPUTS \in Nat /\ MAX_TOTAL_INPUTS \in Nat
  /\ MIN_TOTAL_OUTPUTS \in Nat /\ MAX_TOTAL_OUTPUTS \in Nat

ClaimType == [names_us : BOOLEAN, derives : BOOLEAN, path : Seq(Nat)]
InputType ==
  [ outpoint : Nat, claims : Seq(ClaimType), value : Nat, signed : BOOLEAN,
    sighash : {"none", "ALL", "DEFAULT", "SINGLE"},
    utxo : {"absent", "witness_only", "wrong_previous_tx", "previous_tx", "taproot"} ]
RoundType ==
  [ inputs : Seq(InputType), vout : Seq(Int),
    outputs : Seq([claims : Seq(ClaimType), pays_claim : BOOLEAN]) ]

-----------------------------------------------------------------------------
(* The authorization: what the user approved and what is left of it. *)

NewAuthorization(account, rounds, per_round, total) ==
  [ account_path          |-> account,
    max_rounds            |-> rounds,
    max_fee_per_round_sat |-> per_round,
    max_total_fee_sat     |-> total,
    rounds_used           |-> 0,
    total_fee_spent_sat   |-> 0 ]

\* The constructor refuses these arguments with a ValueError.
AuthorizationAccepts(account, rounds, per_round, total) ==
  rounds > 0 /\ per_round >= 0 /\ total >= 0 /\ account # << >>

RoundsRemaining(a)  == a.max_rounds - a.rounds_used
FeeRemainingSat(a)  == a.max_total_fee_sat - a.total_fee_spent_sat
\* Mutant: one round too many.
IsLive_OffByOne(a) == RoundsRemaining(a) >= 0 /\ FeeRemainingSat(a) >= 0

IsLive(a)           == RoundsRemaining(a) > 0 /\ FeeRemainingSat(a) >= 0

\* A round that earned us money costs nothing and gives nothing back.
ChargedFee(fee) == IF fee > 0 THEN fee ELSE 0

\* Mutant: a gain is given back to the budget.
Consume_CreditsGains(a, fee) ==
  [a EXCEPT !.rounds_used = @ + 1, !.total_fee_spent_sat = @ + fee]

Consume(a, fee) ==
  [a EXCEPT !.rounds_used = @ + 1,
            !.total_fee_spent_sat = @ + ChargedFee(fee)]

-----------------------------------------------------------------------------
(* Ownership of an input or an output. *)

IsUnderAccount(path, account) == IsPrefix(account, path)

OwnClaims(scope)     == SelectSeq(scope.claims, LAMBDA c : c.names_us)
\* Every key that names us is re-derived; one false claim refuses the round.
ClaimsHold(scope)    == \A i \in DOMAIN OwnClaims(scope) : OwnClaims(scope)[i].derives
\* The path returned is the first verified one, whatever the others are.
SeedDerivationPath(scope) ==
  IF OwnClaims(scope) = << >> THEN NoPath ELSE OwnClaims(scope)[1].path

OurScopes(scopes)    == {i \in DOMAIN scopes : SeedDerivationPath(scopes[i]) # NoPath}
OurInputs(round)     == OurScopes(round.inputs)
OurOutputs(round)    == OurScopes(round.outputs)
ForeignInputCount(round) == Len(round.inputs) - Cardinality(OurInputs(round))

-----------------------------------------------------------------------------
(* What the round costs us, in the device's own reading of it. *)

OurInputSat(round)  == MapThenSumSet(LAMBDA i : round.inputs[i].value, OurInputs(round))
VoutSat(round, some) == MapThenSumSet(LAMBDA i : round.vout[i], some)
\* An output counts as ours by its claim alone: its script is not compared.
OurOutputSat(round) == VoutSat(round, OurOutputs(round))
OurFeeSat(round)    == OurInputSat(round) - OurOutputSat(round)

-----------------------------------------------------------------------------
(* The checks of validate_coinjoin_psbt.  Each refusal raises before anything *)
(* is changed, so their order only picks the text of the refusal.             *)

ShapeIsAcceptable(round) ==
  /\ Len(round.inputs)  \in MIN_TOTAL_INPUTS .. MAX_TOTAL_INPUTS
  /\ Len(round.outputs) \in MIN_TOTAL_OUTPUTS .. MAX_TOTAL_OUTPUTS
  /\ Len(round.outputs) = Len(round.vout)

OutpointsAreDistinct(round) ==
  \A i, j \in DOMAIN round.inputs :
    round.inputs[i].outpoint = round.inputs[j].outpoint => i = j

AcceptableSighashes == {"none", "ALL", "DEFAULT"}

\* The amount is believed when the previous transaction hashes to the outpoint;
\* taproot signatures commit to every amount, so there witness_utxo is enough.
AmountIsTrusted(inp) == inp.utxo \in {"taproot", "previous_tx"}

InputsAreAcceptable(round, a) ==
  /\ \A i \in DOMAIN round.inputs : ClaimsHold(round.inputs[i])
  /\ \A i \in OurInputs(round) :
       /\ IsUnderAccount(SeedDerivationPath(round.inputs[i]), a.account_path)
       /\ round.inputs[i].sighash \in AcceptableSighashes
       /\ AmountIsTrusted(round.inputs[i])

IsAMix(round) ==
  /\ OurInputs(round) # {}
  /\ ForeignInputCount(round) >= MIN_FOREIGN_INPUTS

OutputsAreAcceptable(round, a) ==
  /\ \A i \in DOMAIN round.outputs : ClaimsHold(round.outputs[i])
  /\ \A i \in OurOutputs(round) :
       IsUnderAccount(SeedDerivationPath(round.outputs[i]), a.account_path)

FeeIsWithinBudget(fee, a) ==
  /\ fee <= a.max_fee_per_round_sat
  /\ fee <= FeeRemainingSat(a)

Validates(round, a) ==
  /\ IsLive(a)
  /\ ShapeIsAcceptable(round)
  /\ OutpointsAreDistinct(round)
  /\ InputsAreAcceptable(round, a)
  /\ IsAMix(round)
  /\ OutputsAreAcceptable(round, a)
  /\ FeeIsWithinBudget(OurFeeSat(round), a)

-----------------------------------------------------------------------------
(* embit's sign_with decides by itself which inputs it signs: any of them, as  *)
(* far as the policy knows (the master key needs no derivation to be found,    *)
(* psbt_parser.py:751).  A signature goes to partial_sigs or taproot_sigs, the *)
(* fields the policy reads ("listed"); the signature for the key path of a     *)
(* taproot input goes to final_scriptwitness ("key_path").                     *)

TaprootInputs(round) == {i \in DOMAIN round.inputs : round.inputs[i].utxo = "taproot"}

SignWith(round) ==
  [listed : SUBSET DOMAIN round.inputs, key_path : SUBSET TaprootInputs(round)]

\* Signatures that came with the psbt in the listed fields stay in it.
ListedSignatures(round, new) ==
  new.listed \union {i \in DOMAIN round.inputs : round.inputs[i].signed}

\* Mutant: embit is trusted to sign what was validated.
SignedResultIsApproved_Unchecked(round, new) ==
  ListedSignatures(round, new) \intersect OurInputs(round) # {}

\* The check made on the signed psbt, before the round is charged.  It looks at
\* the listed signatures only.
SignedResultIsApproved(round, new) ==
  /\ ListedSignatures(round, new) \subseteq OurInputs(round)
  /\ ListedSignatures(round, new) \intersect OurInputs(round) # {}

=============================================================================
