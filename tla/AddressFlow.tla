---------------------------- MODULE AddressFlow ----------------------------
(***************************************************************************)
(* Addresses: verifying one that was scanned, the multisig descriptor that *)
(* may be needed for it, and exporting an xpub                             *)
(* (views/seed_views.py); the address explorer (views/tools_views.py).     *)
(***************************************************************************)
EXTENDS BackupFlow

CONSTANTS
  Addresses,    \* records [type, owner]: what a scanned address looks like, and
                \* the seed or descriptor that derives it
  Descriptors,  \* multisig descriptors
  ScriptTypes,  \* SETTING__SCRIPT_TYPES
  SigTypes      \* SETTING__SIG_TYPES

AddressTypes == {"legacy", "nested", "native", "nativeLong", "taproot"}

ASSUME AddressAssumption ==
  /\ \A a \in Addresses : a.type \in AddressTypes
  /\ None \notin Descriptors
  /\ ScriptTypes # {} /\ SigTypes \subseteq {"ss", "ms"} /\ SigTypes # {}

-----------------------------------------------------------------------------
(* Verifying an address. *)

VerifyWithSeed == ToWith("SeedSelectSeedView", [flow |-> "singlesig_addr"])

ScanAddress ==
  /\ Scanned("address")
  /\ \E a \in Addresses \cap errand.scans : Go(Skipping(ToWith("AddressVerificationStartView", a)))

\* unverified_address as it stands once the kind of signature is known, or not.
Unverified(sigType) == [controller EXCEPT !.unverified = [address |-> view.args, sigType |-> sigType]]

\* With the descriptor at hand the search can start; otherwise it is loaded first.
VerifyWithDescriptor(temps) ==
  IF controller.descriptor # None
  THEN [to |-> To("SeedAddressVerificationView"), temps |-> temps]
  ELSE [to |-> To("LoadMultisigWalletDescriptorView"),
        temps |-> [temps EXCEPT !.resume = "multisig_addr"]]

AddressVerificationStartView ==
  /\ At("AddressVerificationStartView")
  /\ CASE view.args.type = "nested" ->
            GoWith(Skipping(To("AddressVerificationSigTypeView")), Unverified(None))
       [] view.args.type = "nativeLong" ->
            LET v == VerifyWithDescriptor(Unverified("ms")) IN GoWith(Skipping(v.to), v.temps)
       [] OTHER -> GoWith(Skipping(VerifyWithSeed), Unverified("ss"))

\* BACK forgets the address, also for the same screen further down the history,
\* where either choice then fails.
AddressVerificationSigTypeView ==
  /\ At("AddressVerificationSigTypeView")
  /\ \/ GoWith(Back, [controller EXCEPT !.unverified = None])
     \/ /\ controller.unverified = None /\ Onward("SeedSelectSeedView") /\ Raise
     \/ /\ controller.unverified # None /\ Onward("SeedSelectSeedView")
        /\ GoWith(VerifyWithSeed, [controller EXCEPT !.unverified.sigType = "ss"])
     \/ /\ controller.unverified # None /\ Onward("LoadMultisigWalletDescriptorView")
        /\ LET v == VerifyWithDescriptor([controller EXCEPT !.unverified.sigType = "ms"]) IN
           GoWith(v.to, v.temps)

\* The search itself is AddressSearch.  It takes the descriptor, if one is in
\* memory, before it takes the seed.
SearchedIn == IF controller.descriptor # None THEN controller.descriptor ELSE view.args.seed

SeedAddressVerificationView ==
  /\ At("SeedAddressVerificationView")
  /\ IF controller.unverified = None \/ (controller.unverified.sigType # "ms" /\ view.args = None)
     THEN Raise
     ELSE \/ Go(To("MainMenuView"))
          \/ /\ controller.unverified.address.owner = SearchedIn
             /\ Choose("SeedAddressVerificationSuccessView")

SeedAddressVerificationSuccessView ==
  At("SeedAddressVerificationSuccessView") /\ Go(To("MainMenuView"))

-----------------------------------------------------------------------------
(* The multisig descriptor. *)

ScanDescriptor ==
  /\ Scanned("descriptor")
  /\ \E d \in Descriptors \cap errand.scans :
       GoWith(Skipping(To("MultisigWalletDescriptorView")), [controller EXCEPT !.descriptor = d])

LoadMultisigWalletDescriptorView ==
  /\ At("LoadMultisigWalletDescriptorView")
  /\ \/ Choose("ScanWalletDescriptorView")
     \/ Go(IF controller.resume = "psbt" THEN Back ELSE To("MainMenuView"))

\* Mutant: the review goes on at the second change output.
ReturnToFlow_NextOutput ==
  LET resumed == [controller EXCEPT !.resume = None] IN
  IF controller.resume = "psbt" THEN GoWith(ToWith("PSBTChangeDetailsView", [num |-> 1]), resumed)
  ELSE Go(To("MainMenuView"))

\* One button: its label and target depend on the flow that wanted a descriptor.
ReturnToFlow ==
  LET resumed == [controller EXCEPT !.resume = None] IN
  CASE controller.resume = "psbt" ->
         GoWith(ToWith("PSBTChangeDetailsView", [num |-> 0]), resumed)
    [] controller.resume = "multisig_addr" /\ controller.unverified # None ->
         GoWith(To("SeedAddressVerificationView"), resumed)
    [] controller.resume = "address_explorer" ->
         GoWith(To("ToolsAddressExplorerAddressTypeView"), resumed)
    [] OTHER -> Go(To("MainMenuView"))

MultisigWalletDescriptorView ==
  /\ At("MultisigWalletDescriptorView")
  /\ \/ GoWith(Back, [controller EXCEPT !.descriptor = None])
     \/ ~leaving /\ ReturnToFlow

VerificationViews ==
  \/ ScanAddress \/ AddressVerificationStartView \/ AddressVerificationSigTypeView
  \/ SeedAddressVerificationView \/ SeedAddressVerificationSuccessView
  \/ ScanDescriptor \/ LoadMultisigWalletDescriptorView \/ MultisigWalletDescriptorView

-----------------------------------------------------------------------------
(* Exporting an xpub.  The explorer takes the first two of these screens. *)

Exploring     == controller.resume = "address_explorer"
CameFromSeedOptions ==
  Len(backStack) >= 2 /\ backStack[Len(backStack) - 1].cls = "SeedOptionsView"

SeedExportXpubSigTypeView ==
  /\ At("SeedExportXpubSigTypeView")
  /\ IF Cardinality(SigTypes) = 1
     THEN \E t \in SigTypes :
            Go(Skipping(ToWith("SeedExportXpubScriptTypeView", [seed |-> view.args.seed, sigType |-> t])))
     ELSE \/ Go(Back)
          \/ \E t \in {"ss", "ms"} :
               ChooseWith("SeedExportXpubScriptTypeView", [seed |-> view.args.seed, sigType |-> t])

WithScript(t) == [seed |-> view.args.seed, script |-> t]
AfterScriptType(t) ==
  IF Exploring THEN ToWith("ToolsAddressExplorerAddressTypeView", WithScript(t))
               ELSE ToWith("SeedExportXpubQRFormatView", WithScript(t))

\* Back at the View where it was set, resume_main_flow has served; anywhere else
\* the flow goes on.
BackFromExplorer(temps) ==
  GoWith(Back, IF CameFromSeedOptions THEN temps ELSE controller)

SeedExportXpubScriptTypeView ==
  /\ At("SeedExportXpubScriptTypeView")
  /\ LET offered == IF view.args.seed.electrum THEN {"native"} ELSE ScriptTypes IN
     IF Cardinality(offered) = 1
     THEN \E t \in offered : Go(Skipping(AfterScriptType(t)))
     ELSE \/ BackFromExplorer([controller EXCEPT !.resume = None])
          \/ \E t \in offered :
               IF t = "custom"
               THEN ChooseWith("SeedExportXpubCustomDerivationView", WithScript(t))
               ELSE Onward(AfterScriptType(t).cls) /\ Go(AfterScriptType(t))

SeedExportXpubCustomDerivationView ==
  /\ At("SeedExportXpubCustomDerivationView")
  /\ \/ Go(Back)
     \/ Onward(AfterScriptType("custom").cls) /\ Go(AfterScriptType("custom"))

ExportXpub ==
  \/ /\ At("SeedExportXpubQRFormatView")
     /\ Go(Back) \/ ChooseWith("SeedExportXpubWarningView", view.args)
  \/ /\ At("SeedExportXpubWarningView")
     /\ Go(Back) \/ ChooseSkipping("SeedExportXpubDetailsView", view.args)
  \/ /\ At("SeedExportXpubDetailsView")
     /\ Go(Back) \/ ChooseWith("SeedExportXpubQRDisplayView", view.args)
  \/ At("SeedExportXpubQRDisplayView") /\ Go(To("MainMenuView"))

-----------------------------------------------------------------------------
(* The address explorer. *)

ToolsAddressExplorerSelectSourceView ==
  /\ At("ToolsAddressExplorerSelectSourceView")
  /\ LET exploring == [controller EXCEPT !.resume = "address_explorer"] IN
     \/ Go(Back)
     \/ /\ Onward("SeedExportXpubScriptTypeView")
        /\ \E seed \in storage.seeds :
             GoWith(ToWith("SeedExportXpubScriptTypeView", [seed |-> seed, sigType |-> "ss"]), exploring)
     \/ ChooseLeaving("ScanWalletDescriptorView", exploring)
     \/ LoadASeed("ScanSeedQRView", exploring)

\* Mutant: the data of an earlier exploration is kept.
Explored_Cached ==
  IF controller.explorer # None THEN controller.explorer
  ELSE IF view.args = None THEN [seed |-> None, script |-> None, descriptor |-> controller.descriptor]
  ELSE [seed |-> view.args.seed, script |-> view.args.script, descriptor |-> None]

\* Running this View is what sets address_explorer_data.
Explored ==
  IF view.args = None THEN [seed |-> None, script |-> None, descriptor |-> controller.descriptor]
  ELSE [seed |-> view.args.seed, script |-> view.args.script, descriptor |-> None]

ToolsAddressExplorerAddressTypeView ==
  /\ At("ToolsAddressExplorerAddressTypeView")
  /\ LET ready == [controller EXCEPT !.explorer = Explored] IN
     \/ GoWith(Back, IF CameFromSeedOptions
                     THEN [controller EXCEPT !.resume = None, !.explorer = None] ELSE ready)
     \/ /\ Onward("ToolsAddressExplorerAddressListView")
        /\ \E change \in BOOLEAN :
             GoWith(ToWith("ToolsAddressExplorerAddressListView", [change |-> change, start |-> 0]), ready)

\* What the user is shown: which addresses of what.
ToolsAddressExplorerAddressListView ==
  /\ At("ToolsAddressExplorerAddressListView")
  /\ IF controller.explorer.script = "custom" THEN Raise
     ELSE \/ Go(Back)
          \/ ChooseWith("ToolsAddressExplorerAddressListView", [view.args EXCEPT !.start = @ + 1])
          \/ ChooseSkipping("ToolsAddressExplorerAddressView", view.args)

ToolsAddressExplorerAddressView ==
  /\ At("ToolsAddressExplorerAddressView")
  /\ Go(Skipping(ToWith("ToolsAddressExplorerAddressListView", view.args)))

ExplorerViews ==
  \/ SeedExportXpubSigTypeView \/ SeedExportXpubScriptTypeView
  \/ SeedExportXpubCustomDerivationView \/ ExportXpub
  \/ ToolsAddressExplorerSelectSourceView \/ ToolsAddressExplorerAddressTypeView
  \/ ToolsAddressExplorerAddressListView \/ ToolsAddressExplorerAddressView
=============================================================================
