----------------------------- MODULE PsbtParser -----------------------------
(***************************************************************************)
(* PSBTParser: what a transaction is to one seed before its user is shown  *)
(* anything (models/psbt_parser.py), and the Views that choose the seed    *)
(* (PSBTSelectSeedView and PSBTOverviewView of views/psbt_views.py).       *)
(*                                                                         *)
(* A psbt is written by somebody else.  Keys and scripts are symbolic: a   *)
(* key is the root it derives from, the path and whether its parity is the *)
(* one it has; a script pays to what was hashed into it.  A fingerprint is *)
(* the name of a root, which any key may claim.                            *)
(***************************************************************************)
EXTENDS Integers, Sequences, FiniteSets, FiniteSetsExt, SequencesExt

CONSTANTS
  Seeds,      \* roots on this device
  Others,     \* roots of other cosigners and wallets
  Zero,       \* the fingerprint of nobody: four zero bytes
  NoScript, NoPsbt, NoSeed, NoReport, NoData

ASSUME ParserAssumption ==
  Seeds \intersect Others = {} /\ Zero \notin Seeds \union Others /\ NoSeed \notin Seeds

Roots == Seeds \union Others

VARIABLES
  psbt,     \* controller.psbt, which the parser completes in place
  seed,     \* controller.psbt_seed
  verdict,  \* "select", "parsed", or why parsing ended
  report    \* controller.psbt_parser: what it found out, and for which seed

parserVars == <<psbt, seed, verdict, report>>

-----------------------------------------------------------------------------
(* Keys, scripts and scopes. *)

Key(r, p)   == [root |-> r, path |-> p, flipped |-> FALSE]
XOnly(k)    == [k EXCEPT !.flipped = FALSE]

Multisig(m, keys) == [kind |-> "multisig", m |-> m, keys |-> keys]
P2wpkh(k)   == [kind |-> "p2wpkh", key |-> k]
P2pkh(k)    == [kind |-> "p2pkh", key |-> k]
P2tr(k)     == [kind |-> "p2tr", key |-> XOnly(k)]
P2wsh(s)    == [kind |-> "p2wsh", script |-> s]
P2sh(s)     == [kind |-> "p2sh", script |-> s]
OpReturn(d) == [kind |-> "op_return", data |-> d]
Bare(k)     == [kind |-> "bare", key |-> k]

\* A derivation entry: the key, and the fingerprint and path claimed for it.
Claim(fp, k, p)    == [fp |-> fp, key |-> k, path |-> p, taproot |-> FALSE]
TapClaim(fp, k, p) == [fp |-> fp, key |-> k, path |-> p, taproot |-> TRUE]

\* Inputs and outputs alike; an input without a utxo has nothing to parse.
Scope(spk, claims, wscript, rscript, value) ==
  [spk |-> spk, claims |-> claims, witness_script |-> wscript, redeem_script |-> rscript,
   value |-> value, utxo |-> "witness"]

\* What embit has read: the fields there are, and in a multisig a number and some keys.
IsScript(w) == w = NoScript \/ (w.kind = "multisig" => w.m \in Nat /\ w.keys \in Seq(Range(w.keys)))

IsScope(x) ==
  /\ x = [Scope(x.spk, x.claims, x.witness_script, x.redeem_script, x.value) EXCEPT !.utxo = x.utxo]
  /\ IsScript(x.witness_script) /\ IsScript(x.redeem_script)
  /\ \A i \in DOMAIN x.claims :
       LET c == x.claims[i] IN c = [Claim(c.fp, c.key, c.path) EXCEPT !.taproot = c.taproot]

IsTransaction(p) ==
  /\ p = [inputs |-> p.inputs, outputs |-> p.outputs, xpubs |-> p.xpubs]
  /\ \A i \in DOMAIN p.inputs  : IsScope(p.inputs[i])
  /\ \A i \in DOMAIN p.outputs : IsScope(p.outputs[i])

-----------------------------------------------------------------------------
(* Ownership: _derive_with_cache and seed_owns_pubkey. *)

\* A taproot key is compared without its parity, any other with it.
SeedOwnsPubkey(s, c) ==
  IF c.taproot THEN XOnly(c.key) = Key(s, c.path) ELSE c.key = Key(s, c.path)

\* _fill_missing_fingerprints
Filled(scope, s) ==
  [scope EXCEPT !.claims =
     [i \in DOMAIN scope.claims |->
        LET c == scope.claims[i]
        IN  IF c.fp = Zero /\ SeedOwnsPubkey(s, c) THEN [c EXCEPT !.fp = s] ELSE c]]

FilledPsbt(p, s) ==
  [p EXCEPT !.inputs  = [i \in DOMAIN p.inputs  |-> Filled(p.inputs[i], s)],
            !.outputs = [i \in DOMAIN p.outputs |-> Filled(p.outputs[i], s)]]

\* _get_seed_derivation_path: a claim that does not hold raises, another gives its path.
ClaimsFalsely(scope, s) ==
  \E i \in DOMAIN scope.claims : scope.claims[i].fp = s /\ ~SeedOwnsPubkey(s, scope.claims[i])

HasClaim(scope, s) == \E i \in DOMAIN scope.claims : scope.claims[i].fp = s

\* Mutant: a missing fingerprint is no match.
HasMatchingInputFingerprint_Exact(p, s) ==
  \E i \in DOMAIN p.inputs : \E k \in DOMAIN p.inputs[i].claims : p.inputs[i].claims[k].fp = s

\* has_matching_input_fingerprint, the hint of the seed selection.
HasMatchingInputFingerprint(p, s) ==
  \E i \in DOMAIN p.inputs : \E k \in DOMAIN p.inputs[i].claims :
    LET c == p.inputs[i].claims[k]
    IN  c.fp = s \/ (c.fp = Zero /\ SeedOwnsPubkey(s, c))

-----------------------------------------------------------------------------
(* Policies: _get_policy, _parse_multisig and _get_cosigners. *)

\* Of a script embit does not know the type is None.
ScriptType(scope) ==
  IF scope.spk.kind \in {"bare", "op_return"} THEN "None"
  ELSE IF scope.spk.kind # "p2sh" THEN scope.spk.kind
  ELSE IF scope.witness_script # NoScript THEN "p2sh-p2wsh"
  ELSE IF scope.redeem_script # NoScript /\ scope.redeem_script.kind = "p2wpkh" THEN "p2sh-p2wpkh"
  ELSE "p2sh"

PolicyScript(scope) ==
  CASE ScriptType(scope) \in {"p2wsh", "p2sh-p2wsh"} -> scope.witness_script
    [] ScriptType(scope) = "p2sh"                    -> scope.redeem_script
    [] OTHER                                         -> NoScript

IsMultisig(script) ==
  script.kind = "multisig" /\ script.m \in 1 .. Len(script.keys) /\ Len(script.keys) <= 16

PolicyRaises(scope) == PolicyScript(scope) # NoScript /\ ~IsMultisig(PolicyScript(scope))

\* Mutant: an xpub with the right fingerprint and path will do.
Resolves_ByClaim(x, c, k) == x.fp = c.fp /\ c.key = k

\* The xpub of the psbt that the derivation entry names, and that derives to the key.
Resolves(x, c, k) == x.fp = c.fp /\ c.key = k /\ ~c.taproot /\ Key(x.root, c.path) = k

ResolvedBy(k, scope, xpubs) ==
  {x \in xpubs : \E i \in DOMAIN scope.claims : Resolves(x, scope.claims[i], k)}

\* The cosigners as a bag of xpubs, or nothing but m and n if one is not found.
Cosigners(script, scope, xpubs) ==
  IF \E i \in DOMAIN script.keys : ResolvedBy(script.keys[i], scope, xpubs) = {}
  THEN << >>
  ELSE LET by == [i \in DOMAIN script.keys |->
                    CHOOSE x \in ResolvedBy(script.keys[i], scope, xpubs) : TRUE]
       IN  [x \in Range(by) |-> Cardinality({i \in DOMAIN by : by[i] = x})]

Policy(scope, xpubs) ==
  LET script == PolicyScript(scope)
  IN  IF script = NoScript
      THEN [type |-> ScriptType(scope), m |-> 0, n |-> 0, cosigners |-> << >>]
      ELSE [type |-> ScriptType(scope), m |-> script.m, n |-> Len(script.keys),
            cosigners |-> Cosigners(script, scope, xpubs)]

-----------------------------------------------------------------------------
(* _parse_inputs and _parse_outputs. *)

Total(scopes, indexes) == MapThenSumSet(LAMBDA i : scopes[i].value, indexes)

InputAmount(p) == Total(p.inputs, DOMAIN p.inputs)

InputsRaise(p) ==
  \/ \E i \in DOMAIN p.inputs : p.inputs[i].utxo = "none" \/ PolicyRaises(p.inputs[i])
  \/ \E i \in DOMAIN p.inputs : Policy(p.inputs[i], p.xpubs) # Policy(p.inputs[1], p.xpubs)

\* The seed's own key at the path the first entry of that kind claims.
OwnKeys(out, s, taproot) ==
  LET entries == SelectSeq(out.claims, LAMBDA c : c.taproot = taproot)
  IN  IF entries = << >> THEN {} ELSE {Key(s, entries[1].path)}

\* The script an output of this type pays to if it is change.
ChangeScripts(type, out, s) ==
  CASE type = "p2wsh"       -> {P2wsh(out.witness_script)}
    [] type = "p2sh-p2wsh"  -> {P2sh(P2wsh(out.witness_script))}
    [] type = "p2sh"        -> {P2sh(out.redeem_script)}
    [] type = "p2pkh"       -> {P2pkh(k) : k \in OwnKeys(out, s, FALSE)}
    [] type = "p2wpkh"      -> {P2wpkh(k) : k \in OwnKeys(out, s, FALSE)}
    [] type = "p2sh-p2wpkh" -> {P2sh(P2wpkh(k)) : k \in OwnKeys(out, s, FALSE)}
    [] type = "p2tr"        -> {P2tr(k) : k \in OwnKeys(out, s, TRUE)}
    [] OTHER                -> {}

SamePolicy(p, i) == Policy(p.outputs[i], p.xpubs) = Policy(p.inputs[1], p.xpubs)

IsChange(p, i, s) ==
  SamePolicy(p, i) /\ p.outputs[i].spk \in ChangeScripts(Policy(p.inputs[1], p.xpubs).type, p.outputs[i], s)

\* An output whose script is not a multisig raises, and so does one of the inputs'
\* policy that should have a script of its own and has none, or has no known type.
OutputsRaise(p) ==
  \E i \in DOMAIN p.outputs :
    \/ PolicyRaises(p.outputs[i])
    \/ SamePolicy(p, i) /\ ScriptType(p.outputs[i]) \in {"p2wsh", "p2sh-p2wsh", "p2sh"}
                        /\ PolicyScript(p.outputs[i]) = NoScript
    \/ SamePolicy(p, i) /\ ScriptType(p.outputs[i]) = "None"

OpReturns(p) == {i \in DOMAIN p.outputs : p.outputs[i].spk.kind = "op_return"}

ReportOf(p, s) ==
  LET change == {i \in DOMAIN p.outputs \ OpReturns(p) : IsChange(p, i, s)}
      paid   == DOMAIN p.outputs \ (change \union OpReturns(p))
  IN  [seed          |-> s,
       input_amount  |-> InputAmount(p),
       change_data   |-> change,
       change_amount |-> Total(p.outputs, change),
       destinations  |-> paid,
       spend_amount  |-> Total(p.outputs, paid),
       fee_amount    |-> Total(p.inputs, DOMAIN p.inputs) - Total(p.outputs, DOMAIN p.outputs),
       op_return_data |-> IF OpReturns(p) = {} THEN NoData ELSE p.outputs[Max(OpReturns(p))].spk.data]

-----------------------------------------------------------------------------
(* PSBTSelectSeedView, PSBTOverviewView and PSBTParser.parse. *)

ParserInit == psbt = NoPsbt /\ seed = NoSeed /\ verdict = "idle" /\ report = NoReport

Selects(s) ==
  /\ verdict = "select" /\ psbt # NoPsbt
  /\ seed' = s

IsParsedFor(s) == report # NoReport /\ report.seed = s

\* The same seed again: its parser is still there.
ReportIsKept(s) ==
  /\ Selects(s) /\ IsParsedFor(s)
  /\ verdict' = "parsed"
  /\ UNCHANGED <<psbt, report>>

Parse(s) ==
  /\ Selects(s) /\ ~IsParsedFor(s)
  /\ psbt' = FilledPsbt(psbt, s)

\* Outputs are looked at before inputs.
RejectsOutputClaim(s) ==
  /\ Parse(s)
  /\ \E i \in DOMAIN psbt'.outputs : ClaimsFalsely(psbt'.outputs[i], s)
  /\ verdict' = "output claim"
  /\ UNCHANGED report

NoOutputClaimsFalsely(s) == \A i \in DOMAIN psbt'.outputs : ~ClaimsFalsely(psbt'.outputs[i], s)
NoInputClaimsFalsely(s)  == \A i \in DOMAIN psbt'.inputs : ~ClaimsFalsely(psbt'.inputs[i], s)
CanSign(s)               == \E i \in DOMAIN psbt'.inputs : HasClaim(psbt'.inputs[i], s)

RejectsInputClaim(s) ==
  /\ Parse(s) /\ NoOutputClaimsFalsely(s) /\ ~NoInputClaimsFalsely(s)
  /\ verdict' = "input claim"
  /\ UNCHANGED report

\* The wrong seed: PSBTSeedCannotSignView, and another seed is chosen.
RejectsSeed(s) ==
  /\ Parse(s) /\ NoOutputClaimsFalsely(s) /\ NoInputClaimsFalsely(s) /\ ~CanSign(s)
  /\ verdict' = "cannot sign"
  /\ report' = NoReport

Parsable(p) == ~InputsRaise(p) /\ ~OutputsRaise(p)

ParsingRaises(s) ==
  /\ Parse(s) /\ NoOutputClaimsFalsely(s) /\ NoInputClaimsFalsely(s) /\ CanSign(s)
  /\ ~Parsable(psbt')
  /\ verdict' = "raised"
  /\ UNCHANGED report

Parses(s) ==
  /\ Parse(s) /\ NoOutputClaimsFalsely(s) /\ NoInputClaimsFalsely(s) /\ CanSign(s)
  /\ Parsable(psbt')
  /\ report' = ReportOf(psbt', s)
  /\ verdict' = "parsed"

\* BACK from the overview, or on from PSBTSeedCannotSignView.
SelectsAgain ==
  /\ verdict \in {"parsed", "cannot sign"}
  /\ verdict' = "select" /\ seed' = NoSeed
  /\ UNCHANGED <<psbt, report>>

\* PSBTSelectSeedView raises when there is no psbt.
NothingToSign ==
  /\ verdict = "select" /\ psbt = NoPsbt
  /\ verdict' = "raised"
  /\ UNCHANGED <<psbt, seed, report>>

ParserNext ==
  \/ \E s \in Seeds : \/ ReportIsKept(s) \/ RejectsOutputClaim(s) \/ RejectsInputClaim(s)
                      \/ RejectsSeed(s) \/ ParsingRaises(s) \/ Parses(s)
  \/ SelectsAgain \/ NothingToSign

-----------------------------------------------------------------------------
(* Properties. *)

KeysOf(spk) ==
  CASE spk.kind \in {"p2pkh", "p2wpkh", "p2tr"} -> {spk.key}
    [] spk.kind = "p2wsh" -> Range(spk.script.keys)
    [] spk.kind = "p2sh"  -> IF spk.script.kind = "p2wpkh" THEN {spk.script.key}
                             ELSE IF spk.script.kind = "p2wsh" THEN Range(spk.script.script.keys)
                             ELSE Range(spk.script.keys)

RootsOf(spk) == {k.root : k \in KeysOf(spk)}

\* Scripts are shown when they are spent: with another one an input is not valid.
HasItsScript(scope) == scope.spk \in ChangeScripts(ScriptType(scope), scope, seed)

\* PSBTParser's "Invariant: no verified_ value is ever assigned from a claimed_
\* value": what is shown as change of a single-sig wallet pays a key of this
\* seed; what is shown as change of a multisig whose cosigners are known pays
\* keys of just the wallets that the keys of every input come from which can be
\* spent.  Whatever the psbt claims, and whichever seeds were tried before.
ChangeIsOurs ==
  verdict = "parsed" =>
    LET policy == Policy(psbt.inputs[1], psbt.xpubs)
    IN  \A i \in report.change_data :
          \/ policy.n = 0 /\ RootsOf(psbt.outputs[i].spk) = {seed}
          \/ policy.n > 0 /\ policy.cosigners = << >>
          \/ /\ policy.n > 0 /\ policy.cosigners # << >>
             /\ \A j \in DOMAIN psbt.inputs :
                  HasItsScript(psbt.inputs[j]) => RootsOf(psbt.outputs[i].spk) = RootsOf(psbt.inputs[j].spk)

\* The hint of the seed selection and the parser, which look at the claims in
\* different ways, agree: a seed is marked (?) exactly when the parser will say
\* that it cannot sign, unless it rejects the transaction for its outputs.
HintIsRight ==
  [][\A s \in Seeds :
       verdict = "select" /\ verdict' # "select" /\ seed' = s /\ verdict' # "output claim" =>
         (HasMatchingInputFingerprint(psbt, s) <=> verdict' # "cannot sign")]_parserVars
=============================================================================
