------------------------------ MODULE PsbtFlow ------------------------------
(***************************************************************************)
(* Signing a transaction (views/psbt_views.py): choose the seed, read the  *)
(* transaction on its behalf, review every output, sign.                   *)
(***************************************************************************)
EXTENDS AddressFlow

CONSTANT
  Transactions  \* what may be scanned: records of the fields listed below

\* What the flow reads of a psbt, and what PSBTParser finds in it for a seed.
\*   dests      addresses paid that are not the wallet's; outputs of value zero
\*              are left out, here and in change
\*   change     per output that comes back: the seeds it names, and the seeds or
\*              descriptors that derive its address
\*   names      the seeds the inputs name; controls: those with a key for them
\*   falseIn, falseOut   the seeds that an input or output is falsely said to be of
\*   signed     whose signatures it carries
ASSUME PsbtAssumption ==
  \A tx \in Transactions :
    /\ tx # None /\ \A seed \in Seeds : None # [psbt |-> tx, seed |-> seed]
    /\ tx.change \in Seq(Range(tx.change))
    /\ tx.dests \in Nat /\ tx.multisig \in BOOLEAN
    /\ tx.opReturn \in BOOLEAN /\ tx.mixed \in BOOLEAN
    /\ \A c \in Range(tx.change) : DOMAIN c = {"names", "derives"}

-----------------------------------------------------------------------------
(* The transaction and its signer. *)

\* Mutant: the parser of an earlier transaction stays.
ScanPsbt_ParserStays ==
  /\ Scanned("psbt")
  /\ \E tx \in Transactions \cap errand.scans :
       GoWith(Skipping(To("PSBTSelectSeedView")), [controller EXCEPT !.psbt = tx])

ScanPsbt ==
  /\ Scanned("psbt")
  /\ \E tx \in Transactions \cap errand.scans :
       GoWith(Skipping(To("PSBTSelectSeedView")), [controller EXCEPT !.psbt = tx, !.parser = None])

\* A seed that was chosen before the transaction was scanned is taken, when the
\* inputs name it.
PSBTSelectSeedView ==
  /\ At("PSBTSelectSeedView")
  /\ IF controller.psbt = None THEN Raise
     ELSE IF controller.psbtSeed # None /\ controller.psbtSeed \in controller.psbt.names
     THEN Go(To("PSBTOverviewView"))
     ELSE \/ Go(Back)
          \/ \E seed \in storage.seeds :
               ChooseLeaving("PSBTOverviewView", [controller EXCEPT !.psbtSeed = seed])
          \/ LoadASeed("ScanSeedQRView", [controller EXCEPT !.resume = "psbt"])

\* Where PSBTParser.parse ends on the first of these that is so.
Verdict(tx, seed) ==
  CASE seed \in tx.falseOut    -> "PSBTOutputOwnershipClaimFailedView"
    [] seed \in tx.falseIn     -> "PSBTInputOwnershipClaimFailedView"
    [] seed \notin tx.controls -> "PSBTSeedCannotSignView"
    [] tx.mixed                -> "raises"
    [] OTHER                   -> "parsed"

OverviewScreen(parser) ==
  LET ready == [controller EXCEPT !.parser = parser] IN
  \/ GoWith(Back, [ready EXCEPT !.psbtSeed = None])
  \/ ChooseLeaving(IF parser.psbt.change = << >> THEN "PSBTNoChangeWarningView" ELSE "PSBTMathView", ready)

\* A parser that read the transaction for this seed is kept.
PSBTOverviewView ==
  /\ At("PSBTOverviewView")
  /\ LET tx == controller.psbt  seed == controller.psbtSeed IN
     IF controller.parser # None /\ controller.parser.seed = seed THEN OverviewScreen(controller.parser)
     ELSE CASE Verdict(tx, seed) = "parsed" -> OverviewScreen([psbt |-> tx, seed |-> seed])
            [] Verdict(tx, seed) = "raises" -> Raise
            [] Verdict(tx, seed) = "PSBTSeedCannotSignView" ->
                 GoWith(Skipping(To("PSBTSeedCannotSignView")),
                        [controller EXCEPT !.parser = None, !.psbtSeed = None])
            [] OTHER -> Go(Clearing(Skipping(To(Verdict(tx, seed)))))

\* Mutant: the history stays when another seed is to be selected.
PSBTRejected_HistoryStays ==
  \/ At("PSBTSeedCannotSignView") /\ Go(To("PSBTSelectSeedView"))
  \/ /\ \E cls \in {"PSBTOutputOwnershipClaimFailedView", "PSBTInputOwnershipClaimFailedView",
                    "PSBTAddressVerificationFailedView"} : At(cls)
     /\ Go(Clearing(To("MainMenuView")))

\* The ways out of a transaction that is not to be signed, or not with this seed.
PSBTRejected ==
  \/ At("PSBTSeedCannotSignView") /\ Go(Clearing(To("PSBTSelectSeedView")))
  \/ /\ \E cls \in {"PSBTOutputOwnershipClaimFailedView", "PSBTInputOwnershipClaimFailedView",
                    "PSBTAddressVerificationFailedView"} : At(cls)
     /\ Go(Clearing(To("MainMenuView")))

-----------------------------------------------------------------------------
(* The review.  What a screen displays is noted, with the parser it comes     *)
(* from, whatever the user answers.                                           *)

Reviewing     == controller.parser.psbt
Parsed        == controller.parser # None
Show(d, item) == Turn(d, controller, storage, {item})
ShowOnward(d, item) == Onward(d.cls) /\ Show(d, item)

AddressOf(parser, n)            == <<"destination", parser, n>>
ChangeOf(parser, n, verified)   == <<"change", parser, n, verified>>
OpReturnOf(parser)              == <<"opReturn", parser>>

\* Mutant: the OP_RETURN is left out.
AfterChange_NoOpReturn == To("PSBTFinalizeView")

AfterChange == IF Reviewing.opReturn THEN To("PSBTOpReturnView") ELSE To("PSBTFinalizeView")
ChangeDetails(n) == ToWith("PSBTChangeDetailsView", [num |-> n])
AddressDetails(n) == ToWith("PSBTAddressDetailsView", [num |-> n])

PSBTNoChangeWarningView ==
  /\ At("PSBTNoChangeWarningView")
  /\ Go(Back) \/ ChooseSkipping("PSBTMathView", None)

PSBTMathView ==
  /\ At("PSBTMathView")
  /\ IF ~Parsed THEN Go(To("MainMenuView"))
     ELSE \/ Go(Back)
          \/ LET next == IF Reviewing.dests > 0 THEN AddressDetails(0) ELSE ChangeDetails(0) IN
             Onward(next.cls) /\ Go(next)

PSBTAddressDetailsView ==
  /\ At("PSBTAddressDetailsView")
  /\ LET n == view.args.num
         next == IF n < Reviewing.dests - 1 THEN AddressDetails(n + 1)
                 ELSE IF Reviewing.change # << >> THEN ChangeDetails(0) ELSE AfterChange
         item == AddressOf(controller.parser, n) IN
     IF ~Parsed THEN Raise ELSE Show(Back, item) \/ ShowOnward(next, item)

\* What the address of a change output is checked against: the seed, or for
\* multisig the descriptor, when there is one.
Verifier == IF Reviewing.multisig THEN controller.descriptor ELSE controller.psbtSeed

PSBTChangeDetailsScreen(n, change) ==
  LET verified == Verifier # None /\ Verifier \in change.derives
      item == ChangeOf(controller.parser, n, verified)
      next == IF n < Len(Reviewing.change) - 1 THEN ChangeDetails(n + 1) ELSE AfterChange IN
  IF ~verified /\ Verifier # None
  THEN Go(Clearing(ToWith("PSBTAddressVerificationFailedView", [isMultisig |-> Reviewing.multisig])))
  ELSE \/ Show(Back, item)
       \/ ShowOnward(next, item)
       \/ /\ Verifier = None /\ Onward("LoadMultisigWalletDescriptorView")
          /\ Turn(To("LoadMultisigWalletDescriptorView"), [controller EXCEPT !.resume = "psbt"],
                  storage, {item})

\* A transaction whose only output is an OP_RETURN gets here without change.
PSBTChangeDetailsView ==
  /\ At("PSBTChangeDetailsView")
  /\ LET n == view.args.num IN
     IF ~Parsed THEN Go(To("MainMenuView"))
     ELSE IF n >= Len(Reviewing.change) \/ controller.psbtSeed = None THEN Raise
     ELSE IF controller.psbtSeed \notin Reviewing.change[n + 1].names
     THEN Go(To("NotYetImplementedView"))
     ELSE PSBTChangeDetailsScreen(n, Reviewing.change[n + 1])

PSBTOpReturnView ==
  /\ At("PSBTOpReturnView")
  /\ IF ~Parsed THEN Raise
     ELSE LET item == OpReturnOf(controller.parser) IN
          Show(Back, item) \/ ShowOnward(To("PSBTFinalizeView"), item)

-----------------------------------------------------------------------------
(* Signing, with the key of the seed that the parser was made for. *)

Trimmed(tx, seed) == [tx EXCEPT !.signed = @ \union {seed}, !.names = {}]
AddsSignature(tx, seed) == seed \in tx.controls \ tx.signed

PSBTFinalizeView ==
  /\ At("PSBTFinalizeView")
  /\ IF ~Parsed THEN Go(To("MainMenuView"))
     ELSE \/ Go(Back)
          \/ /\ ~AddsSignature(controller.psbt, controller.parser.seed)
             /\ Choose("PSBTSigningErrorView")
          \/ /\ AddsSignature(controller.psbt, controller.parser.seed)
             /\ ChooseLeaving("PSBTSignedQRDisplayView",
                  [controller EXCEPT !.psbt = Trimmed(@, controller.parser.seed)])

PSBTSignedQRDisplayView ==
  At("PSBTSignedQRDisplayView") /\ Go(Clearing(To("MainMenuView")))

PSBTSigningErrorView ==
  /\ At("PSBTSigningErrorView")
  /\ IF ~Parsed THEN Go(To("MainMenuView"))
     ELSE \/ Go(Back)
          \/ /\ Onward("PSBTSelectSeedView")
             /\ GoWith(Clearing(To("PSBTSelectSeedView")), [controller EXCEPT !.psbtSeed = None])

PsbtViews ==
  \/ ScanPsbt \/ PSBTSelectSeedView \/ PSBTOverviewView \/ PSBTRejected
  \/ PSBTNoChangeWarningView \/ PSBTMathView \/ PSBTAddressDetailsView
  \/ PSBTChangeDetailsView \/ PSBTOpReturnView \/ PSBTFinalizeView
  \/ PSBTSignedQRDisplayView \/ PSBTSigningErrorView
=============================================================================
