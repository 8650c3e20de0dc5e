------------------------------- MODULE MCScan -------------------------------
(***************************************************************************)
(* Scenarios for the scan: one sender's psbt in three fragments with every *)
(* part there is, of which only a mixed one and two simple ones are        *)
(* steady; two senders of the same UR type; segments of two psbts; the     *)
(* segments of a Specter wallet; and single codes, right and wrong ones,   *)
(* in each View.  Transactions: one or two inputs, one or two outputs.     *)
(***************************************************************************)
EXTENDS Scan, TLC

CONSTANTS s1, s2, o1, psbtA, psbtB, long, wallet, setup, seedMsg, other

MCFragments == (psbtA :> 3) @@ (psbtB :> 3) @@ (long :> 4) @@ [m \in {wallet, setup, seedMsg, other} |-> 2]
MCHolds == (psbtA :> "psbt") @@ (psbtB :> "psbt") @@ (long :> "junk") @@ (wallet :> "multisig descriptor")
           @@ (setup :> "setup file") @@ (seedMsg :> "seed") @@ (other :> "junk")

Ur(t, m)       == {UrPart({t}, m, p) : p \in EncoderParts(m)}
UrOf(t, m, ix) == UrPart({t}, m, EncoderPart(m, ix))
Pieces(looks, m, n) == {Segment(looks, m, i, n) : i \in 1 .. n}

SimpleAnd(t, m, ixs) == {UrOf(t, m, ix) : ix \in ixs}

ThreeFragments == Scenario("ScanPSBTView", Ur("psbt__ur2", psbtA),
                           SimpleAnd("psbt__ur2", psbtA, {{0, 1, 2}, {1, 2}, {0, 1}}), psbtA)
FourFragments  == Scenario("ScanView",
                           SimpleAnd("psbt__ur2", long, (SUBSET (0 .. 3)) \ {{}, {2}, {3}, {1, 3}, {0, 1, 3}}),
                           {}, long)
TwoSenders     == Scenario("ScanPSBTView",
                           SimpleAnd("psbt__ur2", psbtA, {{0}, {1, 2}, {1}}) \union
                           SimpleAnd("psbt__ur2", psbtB, {{0}, {0, 1}}) \union
                           {UrWhole({"psbt__ur2"}, other), UrDamaged({"psbt__ur2"}),
                            UrOf("bytes__ur", setup, {0})}, {}, NoMessage)
TwoBbqr        == Scenario("ScanPSBTView",
                           Pieces({"psbt__bbqr"}, psbtA, 3) \union Pieces({"psbt__bbqr"}, psbtB, 3) \union
                           {Segment({"psbt__bbqr"}, psbtB, 4, 3), Segment({"psbt__bbqr"}, other, 1, 2)},
                           {}, NoMessage)
OneBbqr        == Scenario("ScanPSBTView", Pieces({"psbt__bbqr"}, psbtA, 3),
                           Pieces({"psbt__bbqr"}, psbtA, 3), psbtA)
SpecterPsbt    == Scenario("ScanPSBTView", Pieces({"psbt__specter"}, psbtA, 3) \union {Segment({"psbt__specter"}, psbtB, 0, 3)},
                           {}, NoMessage)
\* The text of a segment may look like a wallet of another format, too.
SpecterText(m) == {Segment({"wallet__specter", "wallet__generic"}, m, 1, 2), Segment({"wallet__specter"}, m, 2, 2)}
SpecterWallet  == Scenario("ScanWalletDescriptorView", SpecterText(wallet), SpecterText(wallet), wallet)
\* The last piece is in base64 characters only.
SpecterMisread == Scenario("ScanWalletDescriptorView",
                           {Segment({"wallet__specter"}, wallet, 1, 2),
                            Segment({"psbt__specter", "wallet__specter"}, wallet, 2, 2)}, {}, wallet)
\* JSON in which there is no descriptor.
SpecterOther   == Scenario("ScanWalletDescriptorView", SpecterText(other), SpecterText(other), other)
SpecterWallets == Scenario("ScanWalletDescriptorView",
                           Pieces({"wallet__specter"}, wallet, 2) \union
                           {Segment({"wallet__specter", "psbt__specter"}, wallet, 2, 2),
                            Segment({"wallet__specter"}, other, 2, 2)}, {}, NoMessage)

\* A psbt may look like the descriptor of a wallet further down the list.
SinglePsbt    == Single({"psbt__base64", "wallet__specter"}, psbtA, "COMPLETE")
WrongBase43   == Single({"psbt__base43"}, other, "INVALID")
WrongMnemonic == Single({"seed__mnemonic"}, other, "raises")

SingleCodes ==
  {SinglePsbt,
   WrongBase43, WrongMnemonic,
   Single({"seed__seedqr"}, seedMsg, "COMPLETE"), Single({"seed__compactseedqr"}, other, "INVALID"),
   Single({"settings"}, other, "COMPLETE"), Single({"bitcoin_address"}, other, "COMPLETE"),
   Single({"sign_message"}, other, "COMPLETE"),
   Single({"wallet__generic"}, wallet, "COMPLETE"), Single({"wallet__configfile"}, other, "COMPLETE"),
   UrWhole({"account__ur"}, other), UrWhole({"output__ur"}, wallet), UrWhole({"bytes__ur"}, setup),
   UrWhole({"bytes__ur"}, other),
   Single({}, other, "INVALID")}

Views == {"ScanView", "ScanPSBTView", "ScanSeedQRView", "ScanWalletDescriptorView", "ScanAddressView"}

MCScenarios ==
  [threeFragments |-> ThreeFragments, fourFragments |-> FourFragments, twoSenders |-> TwoSenders,
   twoBbqr |-> TwoBbqr, oneBbqr |-> OneBbqr, specterPsbt |-> SpecterPsbt,
   specterWallet |-> SpecterWallet, specterWallets |-> SpecterWallets,
   specterMisread |-> SpecterMisread, specterOther |-> SpecterOther,
   wrongMnemonic |-> Scenario("ScanSeedQRView", {WrongMnemonic}, {}, other),
   wrongBase43 |-> Scenario("ScanPSBTView", {WrongBase43}, {WrongBase43}, other),
   singlePsbt |-> Scenario("ScanPSBTView", {SinglePsbt}, {SinglePsbt}, psbtA)]
  @@ [v \in Views |-> Scenario(v, SingleCodes, {}, NoMessage)]

-----------------------------------------------------------------------------
(* Transactions. *)

W == Key(s1, "w")   \* the first seed's keys
C == Key(s1, "c")
X == Key(s2, "w")   \* the second seed's
Y == Key(o1, "w")   \* somebody else's

Plain(spk, claims, v)    == Scope(spk, claims, NoScript, NoScript, v)
WithWs(ws, claims, v)    == Scope(P2wsh(ws), claims, ws, NoScript, v)
WithRs(spk, rs, claims, v) == Scope(spk, claims, NoScript, rs, v)

Xpub(r) == [root |-> r, fp |-> r]
Ms(k1, k2) == Multisig(1, <<k1, k2>>)
By(k) == Claim(k.root, k, k.path)

MCInputs ==
  {Plain(P2wpkh(W), <<By(W)>>, 3),
   [Plain(P2wpkh(W), <<Claim(Zero, W, "w")>>, 2) EXCEPT !.utxo = "non_witness"],
   Plain(P2wpkh(X), <<By(X)>>, 3),
   Plain(P2wpkh(Y), <<Claim(s1, Y, "w")>>, 3),
   Plain(P2tr(W), <<TapClaim(s1, [W EXCEPT !.flipped = TRUE], "w")>>, 3),
   WithRs(P2sh(P2wpkh(W)), P2wpkh(W), <<By(W)>>, 3),
   WithWs(Ms(W, Y), <<By(W), By(Y)>>, 3),
   WithWs(Ms(W, X), <<By(W), By(X)>>, 2),
   Scope(P2wsh(Ms(Y, Y)), <<By(W), By(Y)>>, Ms(W, Y), NoScript, 3),
   Plain(Bare(W), <<By(W)>>, 3),
   [Plain(P2wpkh(W), <<By(W)>>, 3) EXCEPT !.utxo = "none"]}

MCOutputs ==
  {Plain(P2wpkh(C), <<By(C)>>, 1),
   Plain(P2wpkh(C), <<Claim(Zero, C, "c")>>, 1),
   Plain(P2wpkh(Y), <<Claim(s1, C, "c")>>, 1),
   Plain(P2wpkh(Y), <<Claim(s1, Y, "c")>>, 1),
   Plain(P2wpkh(Y), <<>>, 1),
   Plain(P2tr(C), <<TapClaim(s1, C, "c")>>, 1),
   WithRs(P2sh(P2wpkh(C)), P2wpkh(C), <<By(C)>>, 1),
   WithWs(Ms(C, Key(o1, "c")), <<By(C), By(Key(o1, "c"))>>, 1),
   WithWs(Ms(Key(o1, "c"), Y), <<Claim(o1, Key(o1, "c"), "c"), By(Y)>>, 1),
   WithWs(Ms(C, Key(o1, "c")), <<By(C), Claim(s2, Key(o1, "c"), "c")>>, 1),
   WithWs(OpReturn("data"), <<By(C)>>, 1),
   WithWs(Multisig(2, <<C>>), <<By(C)>>, 1),
   Plain(OpReturn("data"), <<>>, 0),
   Plain(OpReturn("more"), <<>>, 1)}

Xpubs == {{}, {Xpub(s1), Xpub(o1)}, {Xpub(s1), Xpub(s2), [root |-> o1, fp |-> s2]}}

One(S) == {<<a>> : a \in S}
Two(S) == {<<a, b>> : a, b \in S}

MCPsbts == [inputs : One(MCInputs), outputs : One(MCOutputs) \union Two(MCOutputs), xpubs : Xpubs]
           \union [inputs : Two(MCInputs), outputs : One(MCOutputs), xpubs : Xpubs]
=============================================================================
