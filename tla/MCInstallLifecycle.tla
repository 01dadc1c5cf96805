------------------------- MODULE MCInstallLifecycle -------------------------
(* Small instances of InstallLifecycle. *)
EXTENDS InstallLifecycle, TLC

Interchangeable ==
    Permutations(Ids) \cup Permutations(Builds) \cup Permutations(Workers)

=============================================================================
