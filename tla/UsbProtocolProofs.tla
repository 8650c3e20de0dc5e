-------------------------- MODULE UsbProtocolProofs --------------------------
(***************************************************************************)
(* Proofs about UsbProtocol: its type invariant, the budget of an          *)
(* authorization, what a signed round has been checked for, and that a     *)
(* session implements SpendingAllowance.                                   *)
(***************************************************************************)
EXTENDS UsbProtocol, FiniteSetTheorems, TLAPS

-----------------------------------------------------------------------------
(* Lemmas about the policy's operators. *)

\* A round that validates costs at most what is left, and an authorization it
\* validates against is live.
LEMMA ValidatesBounds ==
  ASSUME NEW round \in Rounds, NEW a \in AuthorizationType, Validates(round, a)
  PROVE  /\ OurFeeSat(round) \in Int
         /\ a.rounds_used < a.max_rounds
         /\ a.total_fee_spent_sat <= a.max_total_fee_sat
         /\ a.total_fee_spent_sat + ChargedFee(OurFeeSat(round)) <= a.max_total_fee_sat
         /\ ChargedFee(OurFeeSat(round)) \in Nat
         /\ OurFeeSat(round) <= a.max_fee_per_round_sat
<1>1. OurFeeSat(round) \in Int
  BY ProtocolAssumption
<1>2. /\ IsLive(a)
      /\ FeeIsWithinBudget(OurFeeSat(round), a)
  BY DEF Validates
<1>3. /\ a.max_rounds \in Nat /\ a.rounds_used \in Nat
      /\ a.max_total_fee_sat \in Nat /\ a.total_fee_spent_sat \in Nat
      /\ a.max_fee_per_round_sat \in Nat
  BY DEF AuthorizationType
<1> QED
  BY <1>1, <1>2, <1>3
  DEF IsLive, FeeIsWithinBudget, RoundsRemaining, FeeRemainingSat, ChargedFee

\* Charging a round keeps the record an authorization and touches two fields.
LEMMA ConsumeFields ==
  ASSUME NEW a \in AuthorizationType, NEW fee \in Int
  PROVE  LET b == Consume(a, fee) IN
         /\ b \in AuthorizationType
         /\ b.account_path = a.account_path
         /\ b.max_rounds = a.max_rounds
         /\ b.max_fee_per_round_sat = a.max_fee_per_round_sat
         /\ b.max_total_fee_sat = a.max_total_fee_sat
         /\ b.rounds_used = a.rounds_used + 1
         /\ b.total_fee_spent_sat = a.total_fee_spent_sat + ChargedFee(fee)
<1>1. ChargedFee(fee) \in Nat
  BY DEF ChargedFee
<1>2. /\ a.rounds_used + 1 \in Nat
      /\ a.total_fee_spent_sat + ChargedFee(fee) \in Nat
  BY <1>1 DEF AuthorizationType
<1>3. ASSUME NEW used \in Nat, NEW spent \in Nat
      PROVE  [a EXCEPT !.rounds_used = used, !.total_fee_spent_sat = spent]
               \in AuthorizationType
  BY DEF AuthorizationType
<1>4. Consume(a, fee) \in AuthorizationType
  BY <1>2, <1>3 DEF Consume
<1> QED
  BY <1>4 DEF Consume, AuthorizationType

\* The inputs that carry a listed signature in an approved result are the
\* account's own, and they leave room for the foreign inputs a mix needs.
LEMMA ApprovedResult ==
  ASSUME NEW round \in Rounds, NEW a \in AuthorizationType, NEW new \in SignWith(round),
         Validates(round, a), SignedResultIsApproved(round, new)
  PROVE  LET sigs == ListedSignatures(round, new) IN
         /\ SignedEntry(round, new) \in SignedType
         /\ \A k \in OurInputs(round) \union sigs :
              /\ SeedDerivationPath(round.inputs[k]) # NoPath
              /\ IsPrefix(a.account_path, SeedDerivationPath(round.inputs[k]))
         /\ Len(round.inputs) - Cardinality(sigs) >= MIN_FOREIGN_INPUTS
<1> DEFINE sigs == ListedSignatures(round, new)
           ours == OurInputs(round)
<1>1. sigs \subseteq ours
  BY DEF SignedResultIsApproved
<1>2. ours \subseteq 1 .. Len(round.inputs) /\ Len(round.inputs) \in Nat
  BY ProtocolAssumption DEF OurInputs, OurScopes, RoundType
<1>3. \A k \in ours : SeedDerivationPath(round.inputs[k]) # NoPath
  BY DEF OurInputs, OurScopes
<1>4. \A k \in ours : IsPrefix(a.account_path, SeedDerivationPath(round.inputs[k]))
  BY DEF Validates, InputsAreAcceptable, IsUnderAccount
<1>5. IsFiniteSet(ours)
  <2>1. IsFiniteSet(1 .. Len(round.inputs))
    BY <1>2, FS_Interval
  <2> QED
    BY <2>1, <1>2, FS_Subset
<1>6. Cardinality(sigs) <= Cardinality(ours)
      /\ Cardinality(sigs) \in Nat /\ Cardinality(ours) \in Nat
  BY <1>1, <1>5, FS_Subset, FS_CardinalityType
<1>7. Len(round.inputs) - Cardinality(ours) >= MIN_FOREIGN_INPUTS
  BY DEF Validates, IsAMix, ForeignInputCount
<1>8. Len(round.inputs) - Cardinality(sigs) >= MIN_FOREIGN_INPUTS
  BY <1>2, <1>6, <1>7, PolicyBoundsAssumption
<1>9. SignedEntry(round, new) \in SignedType
  <2>1. new.key_path \subseteq DOMAIN round.inputs
    BY DEF SignWith, TaprootInputs
  <2>2. DOMAIN round.inputs \subseteq Nat
    BY ProtocolAssumption DEF RoundType
  <2>3. sigs \subseteq Nat
    BY <1>1, <1>2
  <2> QED
    BY <2>1, <2>2, <2>3 DEF SignedEntry, SignedType
<1> QED
  BY <1>1, <1>3, <1>4, <1>8, <1>9

\* Of a round without a dressed-up output the policy's reading is the real cost.
LEMMA PaidClaimsAreCounted ==
  ASSUME NEW round, ClaimsArePaid(round)
  PROVE  RealCostSat(round) = OurFeeSat(round)
<1>1. PaidOutputs(round) = OurOutputs(round)
  BY DEF ClaimsArePaid, PaidOutputs
<1> QED
  BY <1>1 DEF RealCostSat, OurFeeSat, OurOutputSat

-----------------------------------------------------------------------------
(* The inductive invariant.  What TypeOK and the properties leave out is that *)
(* an authorization prompt is only ever up for a request whose fields were    *)
(* checked: the authorization is built from the prompt when the user says yes.*)

PromptWasChecked ==
  prompt # NoPrompt /\ prompt.t = "authorize_coinjoin" => AuthorizeFieldsAreValid(prompt)

IInv ==
  /\ TypeOK
  /\ PromptWasChecked
  /\ NeverOverdrawn
  /\ AuthorizationIsTheApprovedOne
  /\ SignedRoundsAreCovered

\* A step that leaves the authorization and its history alone keeps all of it.
LEMMA QuietStep ==
  ASSUME IInv,
         UNCHANGED <<authorization, approved, signed>>,
         prompt' \in Requests \union {NoPrompt}, PromptWasChecked',
         reply' \in ReplyType
  PROVE  IInv'
<1>1. TypeOK'
  BY DEF IInv, TypeOK
<1>2. NeverOverdrawn' /\ AuthorizationIsTheApprovedOne'
  BY DEF IInv, NeverOverdrawn, AuthorizationIsTheApprovedOne
<1>3. SignedRoundsAreCovered'
  BY DEF IInv, SignedRoundsAreCovered, IsCovered
<1> QED
  BY <1>1, <1>2, <1>3 DEF IInv

LEMMA RefuseStep ==
  ASSUME IInv, Refuse, prompt' = prompt \/ prompt' = NoPrompt
  PROVE  IInv'
<1>1. prompt' \in Requests \union {NoPrompt} /\ PromptWasChecked'
  BY SentinelAssumption DEF IInv, TypeOK, PromptWasChecked, AuthorizeFieldsAreValid
<1>2. reply' \in ReplyType
  BY DEF Refuse, ReplyType
<1> QED
  BY <1>1, <1>2, QuietStep DEF Refuse

\* A round is signed and charged.
LEMMA ChargeStep ==
  ASSUME IInv, NEW round \in Rounds, NEW new \in SignWith(round),
         authorization # NoAuthorization,
         Validates(round, authorization), SignedResultIsApproved(round, new),
         authorization' = Consume(authorization, OurFeeSat(round)),
         signed' = Append(signed, SignedEntry(round, new)),
         reply' = OkReply("sign_coinjoin"), UNCHANGED <<approved, prompt>>
  PROVE  IInv'
<1> DEFINE a == authorization
           fee == OurFeeSat(round)
           entry == SignedEntry(round, new)
<1>1. a \in AuthorizationType /\ signed \in Seq(SignedType)
  BY DEF IInv, TypeOK
<1>2. /\ fee \in Int /\ a.rounds_used < a.max_rounds
      /\ a.total_fee_spent_sat + ChargedFee(fee) <= a.max_total_fee_sat
      /\ fee <= a.max_fee_per_round_sat
  BY <1>1, ValidatesBounds
<1>3. /\ authorization' \in AuthorizationType
      /\ authorization'.account_path = a.account_path
      /\ authorization'.max_rounds = a.max_rounds
      /\ authorization'.max_fee_per_round_sat = a.max_fee_per_round_sat
      /\ authorization'.max_total_fee_sat = a.max_total_fee_sat
      /\ authorization'.rounds_used = a.rounds_used + 1
      /\ authorization'.total_fee_spent_sat = a.total_fee_spent_sat + ChargedFee(fee)
  BY <1>1, <1>2, ConsumeFields
<1>4. /\ entry \in SignedType
      /\ \A k \in OurInputs(round) \union entry.listed :
           /\ SeedDerivationPath(round.inputs[k]) # NoPath
           /\ IsPrefix(a.account_path, SeedDerivationPath(round.inputs[k]))
      /\ Len(round.inputs) - Cardinality(entry.listed) >= MIN_FOREIGN_INPUTS
  BY <1>1, ApprovedResult DEF SignedEntry
<1>5. /\ entry \in SignedType /\ entry.round = round
      /\ signed' = Append(signed, entry)
  BY <1>4 DEF SignedEntry
<1>6. /\ Len(signed') = Len(signed) + 1
      /\ DOMAIN signed' = DOMAIN signed \union {Len(signed) + 1}
      /\ \A i \in DOMAIN signed : signed'[i] = signed[i]
      /\ signed'[Len(signed) + 1] = entry
      /\ signed' \in Seq(SignedType)
  BY <1>1, <1>5
<1>7. TypeOK'
  <2>1. reply' \in ReplyType
    BY DEF OkReply, ReplyType, Unattended
  <2> QED
    BY <1>3, <1>6, <2>1 DEF IInv, TypeOK
<1>8. PromptWasChecked'
  BY DEF IInv, PromptWasChecked, AuthorizeFieldsAreValid
<1>9. a.rounds_used \in Nat /\ a.max_rounds \in Nat
  BY <1>1 DEF AuthorizationType
<1>10. NeverOverdrawn'
  BY <1>2, <1>3, <1>9 DEF NeverOverdrawn
<1>11. AuthorizationIsTheApprovedOne'
  BY <1>3, <1>6, SentinelAssumption DEF IInv, AuthorizationIsTheApprovedOne
<1>12. SignedRoundsAreCovered'
  <2>1. /\ approved' = approved /\ approved # NoPrompt
        /\ approved.account_path = a.account_path
        /\ approved.max_fee_per_round_sat = a.max_fee_per_round_sat
    BY DEF IInv, AuthorizationIsTheApprovedOne
  <2> SUFFICES ASSUME NEW i \in DOMAIN signed'
               PROVE  /\ approved' # NoPrompt
                      /\ \A k \in OurInputs(signed'[i].round) \union signed'[i].listed :
                           /\ SeedDerivationPath(signed'[i].round.inputs[k]) # NoPath
                           /\ IsPrefix(approved'.account_path,
                                SeedDerivationPath(signed'[i].round.inputs[k]))
                      /\ Len(signed'[i].round.inputs) - Cardinality(signed'[i].listed)
                           >= MIN_FOREIGN_INPUTS
                      /\ ClaimsArePaid(signed'[i].round) =>
                           RealCostSat(signed'[i].round) <= approved'.max_fee_per_round_sat
    BY DEF SignedRoundsAreCovered, IsCovered
  <2>2. CASE i \in DOMAIN signed
    BY <1>6, <2>1, <2>2 DEF IInv, SignedRoundsAreCovered, IsCovered
  <2>3. CASE i = Len(signed) + 1
    <3>1. ClaimsArePaid(round) => RealCostSat(round) <= a.max_fee_per_round_sat
      BY <1>2, PaidClaimsAreCounted
    <3> HIDE DEF entry
    <3> QED
      BY <1>4, <1>5, <1>6, <2>1, <2>3, <3>1
  <2> QED
    BY <1>6, <2>2, <2>3
<1> QED
  BY <1>7, <1>8, <1>10, <1>11, <1>12 DEF IInv

\* The user says yes to an authorization the constructor accepts.
LEMMA GrantStep ==
  ASSUME IInv, AcceptAuthorizeCoinjoin
  PROVE  IInv'
<1> DEFINE a == NewAuthorization(prompt.account_path, prompt.max_rounds,
                  prompt.max_fee_per_round_sat, prompt.max_total_fee_sat)
<1>1. /\ prompt \in Requests /\ prompt.t = "authorize_coinjoin"
      /\ AuthorizeFieldsAreValid(prompt)
  BY DEF AcceptAuthorizeCoinjoin, IInv, TypeOK, PromptWasChecked
<1>2. prompt \in AuthorizeRequests
  BY <1>1 DEF Requests, SignPsbtRequests, AuthorizeRequests
<1>3. /\ prompt.account_path \in Paths /\ prompt.max_rounds \in Nat
      /\ prompt.max_fee_per_round_sat \in Nat /\ prompt.max_total_fee_sat \in Nat
  <2>1. /\ prompt.account_path \in Paths \union {Malformed}
        /\ prompt.max_fee_per_round_sat \in Int /\ prompt.max_total_fee_sat \in Int
    BY <1>2, ProtocolAssumption DEF AuthorizeRequests
  <2>2. /\ prompt.account_path # Malformed
        /\ prompt.max_rounds \in 1 .. MAX_ROUNDS_LIMIT
        /\ prompt.max_fee_per_round_sat >= 0 /\ prompt.max_total_fee_sat >= 0
    BY <1>1 DEF AuthorizeFieldsAreValid
  <2> QED
    BY <2>1, <2>2, ProtocolAssumption
<1>4. CASE Refuse
  BY <1>4, RefuseStep DEF AcceptAuthorizeCoinjoin
<1>5. CASE /\ authorization' = a /\ approved' = prompt /\ signed' = << >>
           /\ reply' = OkReply("authorize_coinjoin") /\ prompt' = NoPrompt
  <2>1. a \in AuthorizationType /\ a # NoAuthorization
    BY <1>3, SentinelAssumption DEF NewAuthorization, AuthorizationType
  <2>2. TypeOK'
    <3>1. reply' \in ReplyType
      BY <1>5 DEF OkReply, ReplyType, Attended
    <3> QED
      BY <1>2, <1>5, <2>1, <3>1 DEF TypeOK
  <2>3. PromptWasChecked'
    BY <1>5 DEF PromptWasChecked
  <2>4. NeverOverdrawn'
    BY <1>3, <1>5 DEF NeverOverdrawn, NewAuthorization
  <2>5. prompt # NoPrompt
    BY <1>1, SentinelAssumption
  <2>6. AuthorizationIsTheApprovedOne'
    BY <1>5, <2>1, <2>5 DEF AuthorizationIsTheApprovedOne, NewAuthorization
  <2>7. SignedRoundsAreCovered'
    BY <1>5 DEF SignedRoundsAreCovered
  <2> QED
    BY <2>2, <2>3, <2>4, <2>6, <2>7 DEF IInv
<1> QED
  BY <1>4, <1>5 DEF AcceptAuthorizeCoinjoin

LEMMA EndSessionStep ==
  ASSUME IInv, EndSession
  PROVE  IInv'
<1>1. TypeOK'
  BY DEF IInv, EndSession, TypeOK, ReplyType
<1>2. PromptWasChecked'
  BY DEF EndSession, PromptWasChecked
<1>3. NeverOverdrawn' /\ AuthorizationIsTheApprovedOne' /\ SignedRoundsAreCovered'
  BY DEF EndSession, NeverOverdrawn, AuthorizationIsTheApprovedOne, SignedRoundsAreCovered
<1> QED
  BY <1>1, <1>2, <1>3 DEF IInv

\* A request is handled, up to its reply or its prompt.
LEMMA HandleMessageStep ==
  ASSUME IInv, NEW req \in Requests, HandleMessage(req)
  PROVE  IInv'
<1>0. prompt = NoPrompt
  BY DEF HandleMessage
<1>1. CASE Refuse /\ UNCHANGED prompt
  BY <1>1, RefuseStep
<1>2. CASE Ask(req) /\ (req.t = "authorize_coinjoin" => AuthorizeFieldsAreValid(req))
  <2>1. PromptWasChecked'
    BY <1>2 DEF Ask, PromptWasChecked, AuthorizeFieldsAreValid
  <2>2. reply' \in ReplyType
    BY <1>2 DEF Ask, IInv, TypeOK
  <2> QED
    BY <1>2, <2>1, <2>2, QuietStep DEF Ask
<1>3. CASE HandleUnknown(req)
  BY <1>1, <1>3 DEF HandleUnknown
<1>4. CASE HandleGetVersion(req)
  <2>1. reply' \in ReplyType
    BY <1>4 DEF HandleGetVersion, OkReply, ReplyType, Unattended
  <2>2. prompt' \in Requests \union {NoPrompt} /\ PromptWasChecked'
    BY <1>0, <1>4 DEF HandleGetVersion, PromptWasChecked
  <2> QED
    BY <1>4, <2>1, <2>2, QuietStep DEF HandleGetVersion
<1>5. CASE HandleGetXpub(req)
  BY <1>1, <1>2, <1>5 DEF HandleGetXpub
<1>6. CASE HandleSignPsbt(req)
  BY <1>1, <1>2, <1>6 DEF HandleSignPsbt
<1>7. CASE HandleAuthorizeCoinjoin(req)
  BY <1>1, <1>2, <1>7 DEF HandleAuthorizeCoinjoin
<1>8. CASE HandleSignCoinjoin(req)
  <2>1. CASE Refuse
    BY <1>1, <1>8, <2>1 DEF HandleSignCoinjoin
  <2>2. CASE ~Refuse
    <3>1. /\ authorization # NoAuthorization /\ req.psbt # Malformed
          /\ SignCoinjoinRound(req.psbt) /\ UNCHANGED prompt
      BY <1>8, <2>2 DEF HandleSignCoinjoin
    <3>2. req.psbt \in Rounds
      BY <1>8, <3>1 DEF HandleSignCoinjoin, Requests, SignPsbtRequests, AuthorizeRequests
    <3>3. PICK new \in SignWith(req.psbt) :
            /\ Validates(req.psbt, authorization) /\ SignedResultIsApproved(req.psbt, new)
            /\ authorization' = Consume(authorization, OurFeeSat(req.psbt))
            /\ signed' = Append(signed, SignedEntry(req.psbt, new))
            /\ reply' = OkReply("sign_coinjoin") /\ UNCHANGED approved
      BY <2>2, <3>1 DEF SignCoinjoinRound
    <3> QED
      BY <3>1, <3>2, <3>3, ChargeStep
  <2> QED
    BY <2>1, <2>2
<1> QED
  BY <1>3, <1>4, <1>5, <1>6, <1>7, <1>8 DEF HandleMessage

\* The user answers a prompt.
LEMMA AnswerStep ==
  ASSUME IInv, Answer
  PROVE  IInv'
<1>1. CASE Decline
  BY <1>1, RefuseStep DEF Decline
<1>2. ASSUME NEW re \in Attended, reply' = OkReply(re), prompt' = NoPrompt,
             UNCHANGED <<authorization, approved, signed>>
      PROVE  IInv'
  <2>1. reply' \in ReplyType
    BY <1>2 DEF OkReply, ReplyType
  <2>2. PromptWasChecked'
    BY <1>2 DEF PromptWasChecked
  <2> QED
    BY <1>2, <2>1, <2>2, QuietStep
<1>3. CASE AcceptExportXpub
  BY <1>2, <1>3 DEF AcceptExportXpub, Attended
<1>4. CASE AcceptSignPsbt
  BY <1>2, <1>4, RefuseStep DEF AcceptSignPsbt, Attended
<1>5. CASE AcceptAuthorizeCoinjoin
  BY <1>5, GrantStep
<1> QED
  BY <1>1, <1>3, <1>4, <1>5 DEF Answer

-----------------------------------------------------------------------------
(* Theorems. *)

LEMMA Initially == Init => IInv
<1> SUFFICES ASSUME Init PROVE IInv
  OBVIOUS
<1>1. TypeOK
  BY DEF Init, TypeOK, ReplyType
<1> QED
  BY <1>1 DEF Init, IInv, PromptWasChecked, NeverOverdrawn,
              AuthorizationIsTheApprovedOne, SignedRoundsAreCovered

LEMMA Inductive == IInv /\ [Next]_vars => IInv'
<1> SUFFICES ASSUME IInv, [Next]_vars PROVE IInv'
  OBVIOUS
<1>1. ASSUME NEW req \in Requests, HandleMessage(req) PROVE IInv'
  BY <1>1, HandleMessageStep
<1>2. CASE Answer
  BY <1>2, AnswerStep
<1>3. CASE EndSession
  BY <1>3, EndSessionStep
<1>4. CASE UNCHANGED vars
  <2>1. PromptWasChecked'
    BY <1>4 DEF vars, IInv, PromptWasChecked, AuthorizeFieldsAreValid
  <2> QED
    BY <1>4, <2>1, QuietStep DEF vars, IInv, TypeOK
<1> QED
  BY <1>1, <1>2, <1>3, <1>4 DEF Next

\* Every reachable state satisfies the inductive invariant.
THEOREM Invariance == Spec => []IInv
  BY Initially, Inductive, PTL DEF Spec

\* The variables keep their types.
THEOREM TypeCorrect == Spec => []TypeOK
<1>1. IInv => TypeOK
  BY DEF IInv
<1> QED
  BY <1>1, Invariance, PTL

\* The counters of an authorization never pass its limits, for any psbts, any
\* limits and any number of authorizations (policy.py consume, is_live).
THEOREM BudgetTheorem == Spec => []NeverOverdrawn
<1>1. IInv => NeverOverdrawn
  BY DEF IInv
<1> QED
  BY <1>1, Invariance, PTL

\* Whatever embit signs and whatever signatures a psbt brings along: in a round
\* that is released every input claimed for us is of the approved account, and so
\* is every signature in partial_sigs or taproot_sigs (policy.py
\* sign_coinjoin_round).  Of a signature for a taproot key path it says nothing.
THEOREM CoverTheorem == Spec => []SignedRoundsAreCovered
<1>1. IInv => SignedRoundsAreCovered
  BY DEF IInv
<1> QED
  BY <1>1, Invariance, PTL

\* The authorization in force is the approved one and counts what was signed.
THEOREM ApprovalTheorem == Spec => []AuthorizationIsTheApprovedOne
<1>1. IInv => AuthorizationIsTheApprovedOne
  BY DEF IInv
<1> QED
  BY <1>1, Invariance, PTL

-----------------------------------------------------------------------------
(* The budget.  CostOf is a recursive function: what it is for a longer list  *)
(* of rounds follows from what it was for the list before, so that it exists  *)
(* and what it comes to are shown along the steps of the session.             *)

Sums(f, log, b) ==
  f = [i \in 0 .. Len(log) |->
         IF i = 0 THEN 0
         ELSE f[i - 1] + (IF i \in b THEN RealCostSat(log[i].round) ELSE 0)]

\* No round of the selection holds an output dressed up as ours.
PaidSelection(log, b) == \A i \in b \intersect DOMAIN log : ClaimsArePaid(log[i].round)

\* Any selection of the signed rounds has a cost, and whatever was gained in some
\* of them, what the authorization was charged covers it when the claims are paid.
EverySelectionIsCharged ==
  \A b :
    /\ \E f : Sums(f, signed, b)
    /\ \A f : Sums(f, signed, b) /\ PaidSelection(signed, b) =>
         /\ f[Len(signed)] \in Int
         /\ authorization # NoAuthorization =>
              f[Len(signed)] <= authorization.total_fee_spent_sat

\* A sum over a longer log is one over the log, and then the last round.
LEMMA SumsRestrict ==
  ASSUME NEW S, NEW log \in Seq(S), NEW entry \in S, NEW b, NEW f, Sums(f, Append(log, entry), b)
  PROVE  \E g :
           /\ Sums(g, log, b)
           /\ f[Len(log) + 1] = g[Len(log)]
                + (IF Len(log) + 1 \in b THEN RealCostSat(entry.round) ELSE 0)
<1> DEFINE g == [i \in 0 .. Len(log) |-> f[i]]
           new == Append(log, entry)
           fee(l, i) == IF i \in b THEN RealCostSat(l[i].round) ELSE 0
<1>1. /\ Len(log) \in Nat /\ Len(new) = Len(log) + 1 /\ new[Len(log) + 1] = entry
      /\ \A i \in 1 .. Len(log) : new[i] = log[i]
  OBVIOUS
<1>2. \A i \in 0 .. (Len(log) + 1) : f[i] = IF i = 0 THEN 0 ELSE f[i - 1] + fee(new, i)
  BY <1>1 DEF Sums
<1>3. \A i \in 0 .. Len(log) : g[i] = IF i = 0 THEN 0 ELSE g[i - 1] + fee(log, i)
  BY <1>1, <1>2
<1>4. Sums(g, log, b)
  BY <1>3 DEF Sums
<1>5. f[Len(log) + 1] = g[Len(log)]
        + (IF Len(log) + 1 \in b THEN RealCostSat(entry.round) ELSE 0)
  BY <1>1, <1>2
<1> QED
  BY <1>4, <1>5

LEMMA SumsExtend ==
  ASSUME NEW S, NEW log \in Seq(S), NEW entry \in S, NEW b, NEW g, Sums(g, log, b)
  PROVE  \E f : Sums(f, Append(log, entry), b)
<1> DEFINE n == Len(log) + 1
           new == Append(log, entry)
           fee(l, i) == IF i \in b THEN RealCostSat(l[i].round) ELSE 0
           f == [i \in 0 .. n |-> IF i = n THEN g[Len(log)] + fee(new, n) ELSE g[i]]
<1>1. /\ Len(log) \in Nat /\ Len(new) = n
      /\ \A i \in 1 .. Len(log) : new[i] = log[i]
  OBVIOUS
<1>2. \A i \in 0 .. Len(log) : g[i] = IF i = 0 THEN 0 ELSE g[i - 1] + fee(log, i)
  BY <1>1 DEF Sums
<1>3. \A i \in 0 .. n : f[i] = IF i = 0 THEN 0 ELSE f[i - 1] + fee(new, i)
  BY <1>1, <1>2
<1>4. Sums(f, new, b)
  BY <1>1, <1>3 DEF Sums
<1> QED
  BY <1>4

\* Before anything is signed there is nothing to pay.
LEMMA NothingSigned ==
  ASSUME signed' = << >>, authorization' # NoAuthorization =>
                            authorization'.total_fee_spent_sat = 0
  PROVE  EverySelectionIsCharged'
<1> SUFFICES ASSUME NEW b
             PROVE  /\ \E f : Sums(f, << >>, b)
                    /\ \A f : Sums(f, << >>, b) => f[0] = 0
  BY DEF EverySelectionIsCharged
<1>1. Sums([i \in {0} |-> 0], << >>, b)
  BY DEF Sums
<1>2. ASSUME NEW f, Sums(f, << >>, b)
      PROVE  f[0] = 0
  BY <1>2 DEF Sums
<1> QED
  BY <1>1, <1>2

\* A round that is signed is charged what it costs, or nothing if it is a gain.
LEMMA ChargeCovers ==
  ASSUME IInv, EverySelectionIsCharged, NEW round \in Rounds, NEW new \in SignWith(round),
         authorization # NoAuthorization,
         Validates(round, authorization), SignedResultIsApproved(round, new),
         authorization' = Consume(authorization, OurFeeSat(round)),
         signed' = Append(signed, SignedEntry(round, new))
  PROVE  EverySelectionIsCharged'
<1> DEFINE entry == SignedEntry(round, new)
           a == authorization
<1>1. a \in AuthorizationType /\ signed \in Seq(SignedType)
  BY DEF IInv, TypeOK
<1>2. entry \in SignedType /\ entry.round = round
  BY <1>1, ApprovedResult DEF SignedEntry
<1>3. /\ OurFeeSat(round) \in Int /\ ChargedFee(OurFeeSat(round)) \in Nat
      /\ authorization'.total_fee_spent_sat
           = a.total_fee_spent_sat + ChargedFee(OurFeeSat(round))
      /\ a.total_fee_spent_sat \in Nat
  BY <1>1, ValidatesBounds, ConsumeFields DEF AuthorizationType
<1>4. OurFeeSat(round) <= ChargedFee(OurFeeSat(round))
  BY <1>3 DEF ChargedFee
<1> HIDE DEF entry
<1>5. Len(signed') = Len(signed) + 1 /\ signed' = Append(signed, entry)
  BY <1>1, <1>2 DEF entry
<1> SUFFICES ASSUME NEW b
             PROVE  /\ \E f : Sums(f, signed', b)
                    /\ \A f : Sums(f, signed', b) /\ PaidSelection(signed', b) =>
                         /\ f[Len(signed')] \in Int
                         /\ f[Len(signed')] <= authorization'.total_fee_spent_sat
  BY DEF EverySelectionIsCharged
<1>6. \E f : Sums(f, signed', b)
  BY <1>1, <1>2, <1>5, SumsExtend DEF EverySelectionIsCharged
<1>7. ASSUME NEW f, Sums(f, signed', b), PaidSelection(signed', b)
      PROVE  /\ f[Len(signed')] \in Int
             /\ f[Len(signed')] <= authorization'.total_fee_spent_sat
  <2>1. PICK g :
          /\ Sums(g, signed, b)
          /\ f[Len(signed) + 1] = g[Len(signed)]
               + (IF Len(signed) + 1 \in b THEN RealCostSat(round) ELSE 0)
    <3>1. Sums(f, Append(signed, entry), b)
      BY <1>5, <1>7
    <3> HIDE DEF SignedType
    <3>2. \E g :
            /\ Sums(g, signed, b)
            /\ f[Len(signed) + 1] = g[Len(signed)]
                 + (IF Len(signed) + 1 \in b THEN RealCostSat(entry.round) ELSE 0)
      <4>1. signed \in Seq(SignedType) /\ entry \in SignedType
        BY <1>1, <1>2
      <4> QED
        BY <3>1, <4>1, SumsRestrict
    <3> QED
      BY <1>2, <3>2
  <2>2. PaidSelection(signed, b)
    BY <1>1, <1>2, <1>5, <1>7 DEF PaidSelection
  <2>3. g[Len(signed)] \in Int /\ g[Len(signed)] <= a.total_fee_spent_sat
    BY <2>1, <2>2 DEF EverySelectionIsCharged
  <2>4. Len(signed) + 1 \in b => RealCostSat(round) = OurFeeSat(round)
    <3>1. Len(signed) + 1 \in DOMAIN signed' /\ signed'[Len(signed) + 1] = entry
      BY <1>1, <1>2, <1>5
    <3>2. Len(signed) + 1 \in b => ClaimsArePaid(round)
      BY <1>2, <1>7, <3>1 DEF PaidSelection
    <3> QED
      BY <3>2, PaidClaimsAreCounted
  <2> QED
    BY <1>3, <1>4, <1>5, <2>1, <2>3, <2>4
<1> QED
  BY <1>6, <1>7

LEMMA ChargedQuiet ==
  ASSUME EverySelectionIsCharged, UNCHANGED <<authorization, signed>>
  PROVE  EverySelectionIsCharged'
BY DEF EverySelectionIsCharged

LEMMA ChargedInductive ==
  ASSUME IInv, EverySelectionIsCharged, [Next]_vars
  PROVE  EverySelectionIsCharged'
<1>1. ASSUME NEW req \in Requests, HandleMessage(req) PROVE EverySelectionIsCharged'
  <2>1. CASE UNCHANGED <<authorization, signed>>
    BY <2>1, ChargedQuiet
  <2>2. CASE ~UNCHANGED <<authorization, signed>>
    <3>1. /\ HandleSignCoinjoin(req)
          /\ authorization # NoAuthorization /\ req.psbt # Malformed
          /\ SignCoinjoinRound(req.psbt)
      BY <1>1, <2>2
      DEF HandleMessage, HandleUnknown, HandleGetVersion, HandleGetXpub, HandleSignPsbt,
          HandleAuthorizeCoinjoin, HandleSignCoinjoin, Ask, Refuse
    <3>2. req.psbt \in Rounds
      BY <3>1 DEF HandleSignCoinjoin, Requests, SignPsbtRequests, AuthorizeRequests
    <3>3. PICK new \in SignWith(req.psbt) :
            /\ Validates(req.psbt, authorization) /\ SignedResultIsApproved(req.psbt, new)
            /\ authorization' = Consume(authorization, OurFeeSat(req.psbt))
            /\ signed' = Append(signed, SignedEntry(req.psbt, new))
      BY <2>2, <3>1 DEF SignCoinjoinRound, Refuse
    <3> QED
      BY <3>1, <3>2, <3>3, ChargeCovers
  <2> QED
    BY <2>1, <2>2
<1>2. CASE Answer
  <2>1. CASE UNCHANGED <<authorization, signed>>
    BY <2>1, ChargedQuiet
  <2>2. CASE ~UNCHANGED <<authorization, signed>>
    <3>1. signed' = << >> /\ authorization'.total_fee_spent_sat = 0
      BY <1>2, <2>2
      DEF Answer, Decline, AcceptExportXpub, AcceptSignPsbt, AcceptAuthorizeCoinjoin, Refuse,
          NewAuthorization
    <3> QED
      BY <3>1, NothingSigned
  <2> QED
    BY <2>1, <2>2
<1>3. CASE EndSession
  BY <1>3, NothingSigned DEF EndSession
<1>4. CASE UNCHANGED vars
  BY <1>4, ChargedQuiet DEF vars
<1> QED
  BY <1>1, <1>2, <1>3, <1>4 DEF Next

\* Whichever of the signed rounds are broadcast, if the outputs that claim to be
\* ours pay us, they cost no more than the user agreed to, and there are no more
\* of them (policy.py consume, is_live).
THEOREM SpendingTheorem == Spec => []BudgetIsKept
<1>1. Init => EverySelectionIsCharged
  <2> SUFFICES ASSUME Init, NEW b
               PROVE  /\ \E f : Sums(f, << >>, b)
                      /\ \A f : Sums(f, << >>, b) => f[0] = 0
    BY DEF Init, EverySelectionIsCharged
  <2>1. Sums([i \in {0} |-> 0], << >>, b)
    BY DEF Sums
  <2>2. ASSUME NEW f, Sums(f, << >>, b)
        PROVE  f[0] = 0
    BY <2>2 DEF Sums
  <2> QED
    BY <2>1, <2>2
<1>2. IInv /\ EverySelectionIsCharged => BudgetIsKept
  <2> SUFFICES ASSUME IInv, EverySelectionIsCharged, approved # NoPrompt
               PROVE  /\ Len(signed) <= approved.max_rounds
                      /\ \A b \in SUBSET {i \in DOMAIN signed : ClaimsArePaid(signed[i].round)} :
                           CostOf(b) <= approved.max_total_fee_sat
    BY DEF BudgetIsKept
  <2>1. /\ authorization \in AuthorizationType /\ authorization # NoAuthorization
        /\ authorization.max_rounds = approved.max_rounds
        /\ authorization.rounds_used = Len(signed)
        /\ authorization.rounds_used <= authorization.max_rounds
        /\ authorization.max_total_fee_sat = approved.max_total_fee_sat
        /\ authorization.total_fee_spent_sat <= authorization.max_total_fee_sat
    BY DEF IInv, TypeOK, AuthorizationIsTheApprovedOne, NeverOverdrawn
  <2>2. /\ authorization.total_fee_spent_sat \in Nat /\ authorization.max_total_fee_sat \in Nat
    BY <2>1 DEF AuthorizationType
  <2>3. ASSUME NEW b \in SUBSET {i \in DOMAIN signed : ClaimsArePaid(signed[i].round)}
        PROVE  CostOf(b) <= approved.max_total_fee_sat
    <3> DEFINE g == CHOOSE f : Sums(f, signed, b)
    <3>1. Sums(g, signed, b)
      BY DEF EverySelectionIsCharged
    <3>2. CostOf(b) = g[Len(signed)]
      BY DEF CostOf, Sums
    <3> HIDE DEF g
    <3>3. g[Len(signed)] \in Int /\ g[Len(signed)] <= authorization.total_fee_spent_sat
      <4>1. PaidSelection(signed, b)
        BY DEF PaidSelection
      <4> QED
        BY <2>1, <3>1, <4>1 DEF EverySelectionIsCharged
    <3> QED
      BY <2>1, <2>2, <3>2, <3>3
  <2> QED
    BY <2>1, <2>3
<1>3. IInv /\ EverySelectionIsCharged /\ [Next]_vars => EverySelectionIsCharged'
  BY ChargedInductive
<1> QED
  BY <1>1, <1>2, <1>3, Invariance, PTL DEF Spec

-----------------------------------------------------------------------------
(* Refinement: every step of a session is a step of SpendingAllowance, or     *)
(* leaves the allowance alone.                                                *)

LEMMA QuietRefines ==
  ASSUME UNCHANGED <<authorization, signed>>
  PROVE  UNCHANGED Allowance!vars
BY DEF Allowance!vars, RoundsRemaining, FeeRemainingSat

LEMMA RefuseRefines == Refuse => UNCHANGED Allowance!vars
  BY QuietRefines DEF Refuse

LEMMA SignCoinjoinRefines ==
  ASSUME IInv, NEW req \in Requests, HandleSignCoinjoin(req)
  PROVE  [Allowance!Next]_Allowance!vars
<1>1. CASE Refuse
  BY <1>1, RefuseRefines
<1>2. CASE ~Refuse
  <2> DEFINE round == req.psbt
             a == authorization
             fee == OurFeeSat(round)
  <2>1. /\ a # NoAuthorization /\ round # Malformed /\ SignCoinjoinRound(round)
    BY <1>2 DEF HandleSignCoinjoin
  <2>2. round \in Rounds /\ a \in AuthorizationType
    BY <2>1 DEF HandleSignCoinjoin, Requests, SignPsbtRequests, AuthorizeRequests, IInv, TypeOK
  <2>3. PICK new \in SignWith(round) :
          /\ Validates(round, a)
          /\ authorization' = Consume(a, fee)
          /\ signed' = Append(signed, SignedEntry(round, new))
    BY <1>2, <2>1 DEF SignCoinjoinRound
  <2>4. /\ fee \in Int /\ a.rounds_used < a.max_rounds /\ ChargedFee(fee) \in Nat
        /\ a.total_fee_spent_sat + ChargedFee(fee) <= a.max_total_fee_sat
    BY <2>2, <2>3, ValidatesBounds
  <2>5. /\ authorization' \in AuthorizationType
        /\ authorization'.max_rounds = a.max_rounds
        /\ authorization'.max_total_fee_sat = a.max_total_fee_sat
        /\ authorization'.rounds_used = a.rounds_used + 1
        /\ authorization'.total_fee_spent_sat = a.total_fee_spent_sat + ChargedFee(fee)
    BY <2>2, <2>3, <2>4, ConsumeFields
  <2>6. /\ a.max_rounds \in Nat /\ a.rounds_used \in Nat
        /\ a.max_total_fee_sat \in Nat /\ a.total_fee_spent_sat \in Nat
    BY <2>2 DEF AuthorizationType
  <2>7. authorization' # NoAuthorization
    BY <2>5, SentinelAssumption
  <2>8. Len(signed') = Len(signed) + 1
    BY <2>3 DEF IInv, TypeOK
  <2>9. /\ RoundsRemaining(a) > 0
        /\ RoundsRemaining(authorization') = RoundsRemaining(a) - 1
        /\ FeeRemainingSat(authorization') \in 0 .. FeeRemainingSat(a)
    BY <2>4, <2>5, <2>6 DEF RoundsRemaining, FeeRemainingSat
  <2> QED
    BY <2>1, <2>7, <2>8, <2>9 DEF Allowance!Next, Allowance!SignRound
<1> QED
  BY <1>1, <1>2

LEMMA GrantRefines ==
  ASSUME IInv, AcceptAuthorizeCoinjoin
  PROVE  [Allowance!Next]_Allowance!vars
<1>1. CASE Refuse
  BY <1>1, RefuseRefines
<1>2. CASE ~Refuse
  <2> DEFINE a == NewAuthorization(prompt.account_path, prompt.max_rounds,
                    prompt.max_fee_per_round_sat, prompt.max_total_fee_sat)
  <2>1. /\ authorization' = a /\ signed' = << >>
        /\ prompt.max_rounds > 0
    BY <1>2 DEF AcceptAuthorizeCoinjoin, AuthorizationAccepts
  <2>2. IInv'
    BY GrantStep
  <2>3. /\ a.max_rounds = prompt.max_rounds /\ a.rounds_used = 0
        /\ a.total_fee_spent_sat = 0
    BY DEF NewAuthorization
  <2>4. a # NoAuthorization /\ a.max_rounds \in Nat /\ a.max_total_fee_sat \in Nat
    <3>1. prompt # NoPrompt /\ prompt' = NoPrompt /\ approved' = prompt
      BY <1>2 DEF AcceptAuthorizeCoinjoin
    <3>2. authorization' # NoAuthorization
      BY <2>2, <3>1 DEF IInv, AuthorizationIsTheApprovedOne
    <3> QED
      BY <2>1, <2>2, <3>2 DEF IInv, TypeOK, AuthorizationType
  <2>5. RoundsRemaining(a) \in Nat \ {0} /\ FeeRemainingSat(a) \in Nat
    BY <2>1, <2>3, <2>4 DEF RoundsRemaining, FeeRemainingSat
  <2>6. Len(signed') = 0
    BY <2>1
  <2> QED
    BY <2>1, <2>4, <2>5, <2>6 DEF Allowance!Next, Allowance!Grant
<1> QED
  BY <1>1, <1>2

LEMMA StepRefines == IInv /\ [Next]_vars => [Allowance!Next]_Allowance!vars
<1> SUFFICES ASSUME IInv, [Next]_vars PROVE [Allowance!Next]_Allowance!vars
  OBVIOUS
<1>1. ASSUME NEW req \in Requests, HandleMessage(req)
      PROVE  [Allowance!Next]_Allowance!vars
  <2>1. CASE HandleSignCoinjoin(req)
    BY <2>1, SignCoinjoinRefines
  <2>2. CASE ~HandleSignCoinjoin(req)
    <3>1. UNCHANGED <<authorization, signed>>
      BY <1>1, <2>2
      DEF HandleMessage, HandleUnknown, HandleGetVersion, HandleGetXpub, HandleSignPsbt,
          HandleAuthorizeCoinjoin, Ask, Refuse
    <3> QED
      BY <3>1, QuietRefines
  <2> QED
    BY <2>1, <2>2
<1>2. CASE Answer
  <2>1. CASE AcceptAuthorizeCoinjoin
    BY <2>1, GrantRefines
  <2>2. CASE ~AcceptAuthorizeCoinjoin
    <3>1. UNCHANGED <<authorization, signed>>
      BY <1>2, <2>2 DEF Answer, Decline, AcceptExportXpub, AcceptSignPsbt, Refuse
    <3> QED
      BY <3>1, QuietRefines
  <2> QED
    BY <2>1, <2>2
<1>3. CASE EndSession
  <2>1. Allowance!Withdraw
    BY <1>3 DEF EndSession, Allowance!Withdraw
  <2> QED
    BY <2>1 DEF Allowance!Next
<1>4. CASE UNCHANGED vars
  BY <1>4, QuietRefines DEF vars
<1> QED
  BY <1>1, <1>2, <1>3, <1>4 DEF Next

\* A session never signs unattended outside the allowance the user granted it,
\* and nothing but the user's yes ever puts anything into that allowance.
THEOREM AllowanceRefinement == Spec => ImplementsAllowance
<1>1. Init => Allowance!Init
  BY DEF Init, Allowance!Init
<1> QED
  BY <1>1, StepRefines, Invariance, PTL DEF Spec, ImplementsAllowance, Allowance!Spec
=============================================================================
