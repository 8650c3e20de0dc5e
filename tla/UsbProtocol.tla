----------------------------- MODULE UsbProtocol -----------------------------
(***************************************************************************)
(* The request handlers of one USB session (usb/protocol.py) and the       *)
(* coinjoin policy they apply (usb/policy.py).                             *)
(*                                                                         *)
(* The app handles one message at a time on the thread that draws the      *)
(* screen, so a handler is atomic up to the moment it asks the user        *)
(* something.  From there until the user answers, the handler is suspended *)
(* in `prompt'.  Everything the host sends, decoded psbts included, is     *)
(* chosen freely from the sets the constants give.                         *)
(***************************************************************************)
EXTENDS CoinjoinPolicy

CONSTANTS
  Rounds,              \* psbts the host may send, as CoinjoinPolicy reads them
  Paths,               \* derivation paths the parser accepts (<< >> is "m")
  RoundLimits,         \* values of max_rounds the host may ask for
  FeeLimits,           \* values of both fee limits the host may ask for
  MAX_ROUNDS_LIMIT,    \* largest max_rounds accepted, 1000 in the code
  Malformed,           \* stands for any field that does not parse
  NoAuthorization, NoPrompt

-----------------------------------------------------------------------------
(* Messages. *)

SignPsbtRequests ==
  [t : {"sign_psbt", "sign_coinjoin"}, psbt : Rounds \union {Malformed}]

AuthorizeRequests ==
  [t : {"authorize_coinjoin"}, account_path : Paths \union {Malformed},
   max_rounds : RoundLimits,
   max_fee_per_round_sat : FeeLimits, max_total_fee_sat : FeeLimits]

Requests ==
  [t : {"get_version", "unknown"}]
  \union [t : {"get_xpub"}, path : Paths \union {Malformed}]
  \union SignPsbtRequests
  \union AuthorizeRequests

Attended   == {"get_xpub", "sign_psbt", "authorize_coinjoin"}
Unattended == {"get_version", "sign_coinjoin"}

AuthorizationType ==
  [ account_path : Paths, max_rounds : Nat, max_fee_per_round_sat : Nat,
    max_total_fee_sat : Nat, rounds_used : Nat, total_fee_spent_sat : Nat ]

\* The psbt amounts are integers, so what a round costs is one too.
ASSUME ProtocolAssumption ==
  /\ RoundLimits \subseteq Int
  /\ FeeLimits \subseteq Int
  /\ MAX_ROUNDS_LIMIT \in Nat
  /\ Rounds \subseteq RoundType
  /\ \A r \in Rounds : OurFeeSat(r) \in Int

ASSUME SentinelAssumption ==
  /\ NoAuthorization \notin AuthorizationType
  /\ NoPrompt \notin Requests
  /\ Malformed \notin Paths \union Rounds

VARIABLES
  authorization,  \* UsbSession.authorization
  prompt,         \* the request whose confirm() call is on the screen
  reply,          \* the last reply: its type and the request it answers
  \* History, not in the code:
  approved,       \* the coinjoin request the user last said yes to
  signed          \* rounds signed unattended since that yes, in order

vars == <<authorization, prompt, reply, approved, signed>>

-----------------------------------------------------------------------------
(* Replies. *)

NoReply     == [t |-> "none"]
ErrorReply  == [t |-> "error"]
OkReply(re) == [t |-> "ok", re |-> re]
ReplyType   == {NoReply, ErrorReply} \union [t : {"ok"}, re : Attended \union Unattended]

\* handle_message turns every refusal and every exception into an error reply.
Refuse ==
  /\ reply' = ErrorReply
  /\ UNCHANGED <<authorization, approved, signed>>

-----------------------------------------------------------------------------
(* The handlers.  Each starts with no prompt on the screen. *)

Init ==
  /\ authorization = NoAuthorization
  /\ prompt = NoPrompt
  /\ reply = NoReply
  /\ approved = NoPrompt
  /\ signed = << >>

\* confirm() draws the screen for this request and blocks.
Ask(req) ==
  /\ prompt' = req
  /\ UNCHANGED <<authorization, reply, approved, signed>>

HandleUnknown(req) ==
  /\ req.t = "unknown"
  /\ Refuse
  /\ UNCHANGED prompt

HandleGetVersion(req) ==
  /\ req.t = "get_version"
  /\ reply' = OkReply("get_version")
  /\ UNCHANGED <<authorization, prompt, approved, signed>>

HandleGetXpub(req) ==
  /\ req.t = "get_xpub"
  /\ \/ req.path = Malformed /\ Refuse /\ UNCHANGED prompt
     \/ req.path # Malformed /\ Ask(req)

HandleSignPsbt(req) ==
  /\ req.t = "sign_psbt"
  /\ \/ req.psbt = Malformed /\ Refuse /\ UNCHANGED prompt
     \/ req.psbt # Malformed /\ Ask(req)

\* The fields of authorize_coinjoin that are looked at before the user is asked.
AuthorizeFieldsAreValid(req) ==
  /\ req.account_path # Malformed
  /\ req.max_rounds \in 1 .. MAX_ROUNDS_LIMIT
  /\ req.max_fee_per_round_sat >= 0
  /\ req.max_total_fee_sat >= 0
  /\ req.max_fee_per_round_sat <= req.max_total_fee_sat

HandleAuthorizeCoinjoin(req) ==
  /\ req.t = "authorize_coinjoin"
  /\ \/ ~AuthorizeFieldsAreValid(req) /\ Refuse /\ UNCHANGED prompt
     \/ AuthorizeFieldsAreValid(req) /\ Ask(req)

\* What is kept of a round that was signed: the signatures the check saw, and
\* those embit made where it does not look.
SignedEntry(round, new) ==
  [round |-> round, listed |-> ListedSignatures(round, new), key_path |-> new.key_path]
SignedType == [round : Rounds, listed : SUBSET Nat, key_path : SUBSET Nat]

\* sign_coinjoin asks nobody.  embit may raise while it signs, and the signed
\* psbt is looked at before the round is charged; a refusal discards it.
SignCoinjoinRound(round) ==
  IF ~Validates(round, authorization)
  THEN Refuse
  ELSE \/ Refuse
       \/ \E new \in SignWith(round) :
            IF ~SignedResultIsApproved(round, new)
            THEN Refuse
            ELSE /\ authorization' = Consume(authorization, OurFeeSat(round))
                 /\ signed' = Append(signed, SignedEntry(round, new))
                 /\ reply' = OkReply("sign_coinjoin")
                 /\ UNCHANGED approved

HandleSignCoinjoin(req) ==
  /\ req.t = "sign_coinjoin"
  /\ IF authorization = NoAuthorization \/ req.psbt = Malformed
     THEN Refuse
     ELSE SignCoinjoinRound(req.psbt)
  /\ UNCHANGED prompt

HandleMessage(req) ==
  /\ prompt = NoPrompt
  /\ \/ HandleUnknown(req)
     \/ HandleGetVersion(req)
     \/ HandleGetXpub(req)
     \/ HandleSignPsbt(req)
     \/ HandleAuthorizeCoinjoin(req)
     \/ HandleSignCoinjoin(req)

-----------------------------------------------------------------------------
(* The user answers.  The suspended handler runs to its end. *)

\* No, or a screen that failed, or a transaction the device could not describe.
Decline ==
  /\ prompt # NoPrompt
  /\ prompt' = NoPrompt
  /\ Refuse

AcceptExportXpub ==
  /\ prompt # NoPrompt /\ prompt.t = "get_xpub"
  /\ prompt' = NoPrompt
  /\ reply' = OkReply("get_xpub")
  /\ UNCHANGED <<authorization, approved, signed>>

\* The seed may sign nothing in it, and embit may raise.
AcceptSignPsbt ==
  /\ prompt # NoPrompt /\ prompt.t = "sign_psbt"
  /\ prompt' = NoPrompt
  /\ \/ Refuse
     \/ \E new \in SignWith(prompt.psbt) :
          /\ new.listed \union new.key_path # {}
          /\ reply' = OkReply("sign_psbt")
          /\ UNCHANGED <<authorization, approved, signed>>

\* The new authorization replaces the old one whole.  "m" passes the parser but
\* not the constructor, which raises after the user has said yes.
AcceptAuthorizeCoinjoin ==
  /\ prompt # NoPrompt /\ prompt.t = "authorize_coinjoin"
  /\ prompt' = NoPrompt
  /\ IF AuthorizationAccepts(prompt.account_path, prompt.max_rounds,
                             prompt.max_fee_per_round_sat, prompt.max_total_fee_sat)
     THEN /\ authorization' = NewAuthorization(prompt.account_path, prompt.max_rounds,
                                prompt.max_fee_per_round_sat, prompt.max_total_fee_sat)
          /\ approved' = prompt
          /\ signed' = << >>
          /\ reply' = OkReply("authorize_coinjoin")
     ELSE Refuse

Answer == Decline \/ AcceptExportXpub \/ AcceptSignPsbt \/ AcceptAuthorizeCoinjoin

\* Mutant: the authorization outlives its session.
EndSession_KeepsAuthorization ==
  /\ prompt = NoPrompt
  /\ reply' = NoReply
  /\ approved' = NoPrompt
  /\ signed' = << >>
  /\ UNCHANGED <<authorization, prompt>>

\* The user leaves the screen or the link dies: UsbSessionRunner.stop() drops the
\* authorization, and the next session starts with a new UsbSession.
EndSession ==
  /\ prompt = NoPrompt
  /\ authorization' = NoAuthorization
  /\ reply' = NoReply
  /\ approved' = NoPrompt
  /\ signed' = << >>
  /\ UNCHANGED prompt

Next ==
  \/ \E req \in Requests : HandleMessage(req)
  \/ Answer
  \/ EndSession

Spec == Init /\ [][Next]_vars

-----------------------------------------------------------------------------
(* Properties. *)

TypeOK ==
  /\ authorization \in AuthorizationType \union {NoAuthorization}
  /\ prompt \in Requests \union {NoPrompt}
  /\ reply \in ReplyType
  /\ approved \in AuthorizeRequests \union {NoPrompt}
  /\ signed \in Seq(SignedType)

\* What a round really costs the wallet: of the outputs claimed for it, only
\* those whose script pays the claimed key bring anything back.
PaidOutputs(round)  == {i \in OurOutputs(round) : round.outputs[i].pays_claim}
RealCostSat(round)  == OurInputSat(round) - VoutSat(round, PaidOutputs(round))
\* Nothing in the round is dressed up as ours.
ClaimsArePaid(round) == \A i \in OurOutputs(round) : round.outputs[i].pays_claim

\* What some of the signed rounds really cost together.
CostOf(broadcast) ==
  LET cost[i \in 0 .. Len(signed)] ==
        IF i = 0 THEN 0
        ELSE cost[i - 1] + (IF i \in broadcast THEN RealCostSat(signed[i].round) ELSE 0)
  IN  cost[Len(signed)]

\* Whichever of the rounds signed since the user's yes end up in the chain, they
\* really cost no more together than the total the user was shown, as long as
\* every output that claims a key of ours pays it, and there are no more of them
\* than the user was shown.  The coordinator chooses which rounds to broadcast,
\* so a round in which we gained must not pay for a later one (policy.py consume,
\* is_live, the two fee tests).  Of a round with an output that pays somebody
\* else under a claim of ours it says nothing: the policy does not look, see
\* NoOutputIsDressedUp.
BudgetIsKept ==
  approved # NoPrompt =>
    /\ Len(signed) <= approved.max_rounds
    /\ \A broadcast \in SUBSET {i \in DOMAIN signed : ClaimsArePaid(signed[i].round)} :
         CostOf(broadcast) <= approved.max_total_fee_sat

\* The same promise as the device keeps it: the counters of the authorization
\* never pass what it was opened with, whatever sequence of authorizations, gains
\* and refusals led there (policy.py is_live, consume).
NeverOverdrawn ==
  authorization # NoAuthorization =>
    /\ authorization.rounds_used <= authorization.max_rounds
    /\ authorization.total_fee_spent_sat <= authorization.max_total_fee_sat

\* What the user's yes covers of an input: it names a key of this seed, and
\* every such key the policy goes by is of the approved account.
IsCovered(input) ==
  /\ SeedDerivationPath(input) # NoPath
  /\ IsPrefix(approved.account_path, SeedDerivationPath(input))

\* A psbt leaves the device unattended only as a round the user's yes covers.
\* Every input that claims a key of ours is of the approved account; every
\* signature in partial_sigs or taproot_sigs, made here or brought along, is on
\* such an input, with enough foreign inputs beside them; and if every output
\* claimed for us pays us, the round really costs no more than the per-round limit
\* (policy.py sign_coinjoin_round).  Signatures for a taproot key path are left
\* out: embit puts them in final_scriptwitness, where the check does not look.
SignedRoundsAreCovered ==
  \A i \in DOMAIN signed :
    LET round == signed[i].round IN
      /\ approved # NoPrompt
      /\ \A k \in OurInputs(round) \union signed[i].listed : IsCovered(round.inputs[k])
      /\ Len(round.inputs) - Cardinality(signed[i].listed) >= MIN_FOREIGN_INPUTS
      /\ ClaimsArePaid(round) => RealCostSat(round) <= approved.max_fee_per_round_sat

\* "a coordinator cannot dress a foreign output up as ours to make the value check
\* balance" (policy.py:201-202): no signed round really costs more than the
\* per-round limit.  Violated: the policy adds vout[i].value for every scope with
\* a true claim and never compares the script of the output with the claimed key.
NoOutputIsDressedUp ==
  \A i \in DOMAIN signed : RealCostSat(signed[i].round) <= approved.max_fee_per_round_sat

\* The authorization in force is the one the user said yes to in this session,
\* figure for figure, and what it says is used up is what was signed
\* (protocol.py _handle_authorize_coinjoin, session.py stop).
AuthorizationIsTheApprovedOne ==
  /\ authorization = NoAuthorization <=> approved = NoPrompt
  /\ authorization # NoAuthorization =>
       /\ authorization.account_path = approved.account_path
       /\ authorization.max_rounds = approved.max_rounds
       /\ authorization.max_fee_per_round_sat = approved.max_fee_per_round_sat
       /\ authorization.max_total_fee_sat = approved.max_total_fee_sat
       /\ authorization.rounds_used = Len(signed)

\* The session implements the allowance the user was promised.
Allowance == INSTANCE SpendingAllowance WITH
  rounds_left <- IF authorization = NoAuthorization THEN 0 ELSE RoundsRemaining(authorization),
  sats_left   <- IF authorization = NoAuthorization THEN 0 ELSE FeeRemainingSat(authorization),
  signed      <- Len(signed)

ImplementsAllowance == Allowance!Spec
=============================================================================
