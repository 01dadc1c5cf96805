---------------------------- MODULE MCLibraryMove ----------------------------
(* Small instances of LibraryMove. *)
EXTENDS LibraryMove, TLC

\* Nothing names one root, client, save or transfer: each set is symmetric.
Symmetry ==
  Permutations(Roots) \cup Permutations(Clients) \cup Permutations(Saves)
    \cup Permutations(Ids)

\* Bounds of the chain run: moves that are not aborted (the two-root runs
\* abort them everywhere), one command at a time; crashes, retries and the
\* client's steps fall anywhere in them.
ChainedMoves ==
  /\ Cardinality({s \in Roots : pc[s] # "idle"}) <= 1
  /\ \A s \in Roots, i \in Ids : activity[s][i] # "failed"

==============================================================================
