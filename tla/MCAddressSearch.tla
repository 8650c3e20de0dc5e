--------------------------- MODULE MCAddressSearch ---------------------------
(***************************************************************************)
(* Two toasts over a QR code, which whoever draws covers whole; one over a *)
(* menu and the search that is started from it.                            *)
(***************************************************************************)
EXTENDS AddressSearch, TLC

MCFollows  == [qr |-> {}, menu |-> {"search"}, search |-> {"search", "menu"}]
MCTargets  == {[index |-> 0, change |-> TRUE], [index |-> 1, change |-> FALSE], [index |-> 2, change |-> FALSE]}
MCToastsOn == [qr |-> {"t1", "t2"}, menu |-> {"t1"}, search |-> {"t1"}]
=============================================================================
