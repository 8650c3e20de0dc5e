----------------------------- MODULE MessageFlow -----------------------------
(***************************************************************************)
(* Signing a message (views/seed_views.py).  What the flow knows of it is  *)
(* in sign_message_data, which the Controller's Home leaves alone.         *)
(***************************************************************************)
EXTENDS AddressFlow

CONSTANTS
  Messages,  \* records [text, pages, path]: pages the screen needs for the text,
             \* and what parse_derivation_path makes of the path
  PathKinds  \* "clean", "custom" (a clean match of no known script) or "unclean"

\* None is not the arguments of a page.
ASSUME MessageAssumption ==
  /\ \A m \in Messages : m.pages \in Nat \ {0} /\ m.path \in PathKinds
  /\ None \notin [page : Nat]

ScanMessage ==
  /\ Scanned("message")
  /\ \E m \in Messages \cap errand.scans : Go(ToWith("SeedSignMessageStartView", m))

\* A seed that is already known is kept, and so is all else that is there.
Collected == IF controller.signData = None THEN NoMessage ELSE controller.signData

SeedSignMessageStartView ==
  /\ At("SeedSignMessageStartView")
  /\ IF view.args.path = "unclean"
     THEN GoWith(Skipping(To("NotYetImplementedView")), [controller EXCEPT !.resume = None])
     ELSE GoWith(Skipping(IF Collected.seed # None
                          THEN To("SeedSignMessageConfirmMessageView")
                          ELSE ToWith("SeedSelectSeedView", [flow |-> "sign_message"])),
                 [controller EXCEPT !.signData = [Collected EXCEPT !.message = view.args]])

PageNumber == IF view.args = None THEN 0 ELSE view.args.page

\* The screen pages the message the first time, and keeps the pages.
Paged(data) == IF data.paged = None THEN [data EXCEPT !.paged = data.message] ELSE data

\* Mutant: the address comes one page early.
ConfirmMessageScreen_OffByOne(data) ==
  LET page == <<"page", data.paged, PageNumber>>
      next == IF PageNumber + 1 >= data.paged.pages - 1 THEN To("SeedSignMessageConfirmAddressView")
              ELSE ToWith("SeedSignMessageConfirmMessageView", [page |-> PageNumber + 1])
      paged == [controller EXCEPT !.signData = data] IN
  \/ Turn(Back, IF PageNumber = 0 THEN [controller EXCEPT !.resume = None, !.signData = None] ELSE paged,
          storage, {page})
  \/ Onward(next.cls) /\ Turn(next, paged, storage, {page})

ConfirmMessageScreen(data) ==
  LET page == <<"page", data.paged, PageNumber>>
      next == IF PageNumber = data.paged.pages - 1 THEN To("SeedSignMessageConfirmAddressView")
              ELSE ToWith("SeedSignMessageConfirmMessageView", [page |-> PageNumber + 1])
      paged == [controller EXCEPT !.signData = data] IN
  \/ Turn(Back, IF PageNumber = 0 THEN [controller EXCEPT !.resume = None, !.signData = None] ELSE paged,
          storage, {page})
  \/ Onward(next.cls) /\ Turn(next, paged, storage, {page})

SeedSignMessageConfirmMessageView ==
  /\ At("SeedSignMessageConfirmMessageView")
  /\ LET data == controller.signData IN
     IF data = None \/ (data.paged = None /\ data.message = None) THEN Raise
     ELSE IF PageNumber >= Paged(data).paged.pages THEN Raise
     ELSE ConfirmMessageScreen(Paged(data))

\* The address is the one of the seed at the message's path.
SeedSignMessageConfirmAddressView ==
  /\ At("SeedSignMessageConfirmAddressView")
  /\ LET data == controller.signData IN
     IF data = None \/ data.seed = None \/ data.message = None \/ data.message.path = "custom"
     THEN Raise
     ELSE LET address == {<<"address", data.message, data.seed>>} IN
          \/ Turn(Back, controller, storage, address)
          \/ /\ Onward("SeedSignMessageSignedMessageQRView")
             /\ Turn(To("SeedSignMessageSignedMessageQRView"), controller, storage, address)

SeedSignMessageSignedMessageQRView ==
  /\ At("SeedSignMessageSignedMessageQRView")
  /\ GoWith(Skipping(To("MainMenuView")), [controller EXCEPT !.resume = None, !.signData = None])

MessageViews ==
  \/ ScanMessage \/ SeedSignMessageStartView \/ SeedSignMessageConfirmMessageView
  \/ SeedSignMessageConfirmAddressView \/ SeedSignMessageSignedMessageQRView
=============================================================================
