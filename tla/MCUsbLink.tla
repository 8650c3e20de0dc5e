------------------------------ MODULE MCUsbLink ------------------------------
(***************************************************************************)
(* A small instance of UsbLink.  The requests are one of each fate: one    *)
(* answered at once, one the user is asked about, one that is answered at  *)
(* once only after a grant.                                                *)
(***************************************************************************)
EXTENDS UsbLink

Account == <<1>>
Ours    == [names_us |-> TRUE, derives |-> TRUE, path |-> <<1, 3>>]
Foreign == [names_us |-> FALSE, derives |-> FALSE, path |-> <<2, 7>>]

Input(outpoint, claim, value) ==
  [outpoint |-> outpoint, claims |-> <<claim>>, sighash |-> "none",
   utxo |-> "previous_tx", value |-> value, signed |-> FALSE]

GoodRound ==
  [inputs  |-> <<Input(1, Ours, 3), Input(2, Foreign, 0)>>,
   outputs |-> <<[claims |-> <<Foreign>>, pays_claim |-> TRUE],
               [claims |-> <<Ours>>, pays_claim |-> TRUE]>>,
   vout    |-> <<0, 2>>]

MCRounds == {GoodRound}
MCPaths  == {Account}

GetVersion == [t |-> "get_version"]
Authorize  == [t |-> "authorize_coinjoin", account_path |-> Account, max_rounds |-> 2,
               max_fee_per_round_sat |-> 1, max_total_fee_sat |-> 2]
SignRound  == [t |-> "sign_coinjoin", psbt |-> GoodRound]

AllRequests == {GetVersion, Authorize, SignRound}
TwoRequests == {GetVersion, Authorize}
=============================================================================
