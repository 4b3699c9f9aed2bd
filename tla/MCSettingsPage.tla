--------------------------- MODULE MCSettingsPage ---------------------------
(***************************************************************************)
(* Two owners, of whom one saves while the other changes tabs.              *)
(***************************************************************************)
EXTENDS SettingsPage, TLC

Symmetry == Permutations(Owners)
=============================================================================
