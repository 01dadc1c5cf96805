--------------------------- MODULE MCPlayerLibrary --------------------------
(***************************************************************************)
(* PlayerLibrary for TLC: no action and no property of it tells one        *)
(* version, entry or backup from another.                                  *)
(***************************************************************************)
EXTENDS PlayerLibrary, TLC

Symmetry ==
    Permutations(Entries) \cup Permutations(Backups) \cup Permutations(Installs)
=============================================================================
