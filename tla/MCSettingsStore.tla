--------------------------- MODULE MCSettingsStore ---------------------------
(***************************************************************************)
(* Five SettingsQRs: complete but for the hidden setting, with persistence *)
(* on; one setting only, so that all others fall back to their defaults; a *)
(* setting given twice next to one nobody knows; and two whose second      *)
(* entry is malformed, by its value or for the lack of one.                *)
(***************************************************************************)
EXTENDS SettingsStore, TLC

CardSymmetry == Permutations(Cards)

NoEquals(a) == [attr |-> a, value |-> {}, split |-> FALSE]

MCSettingsQRs ==
  {<<QrEntry(Timer, {"inf"}), QrEntry(P, Enabled), QrEntry("sig_types", {"ms"})>>,
   <<QrEntry("sig_types", {"ss"})>>,
   <<QrEntry(Timer, {"inf"}), QrEntry("other", {"x"}), QrEntry(Timer, {"5s"})>>,
   <<QrEntry(Timer, {"inf"}), QrEntry("sig_types", {"ss", "bad"})>>,
   <<QrEntry(P, Enabled), NoEquals(Timer)>>}
=============================================================================
