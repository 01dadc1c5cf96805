-------------------------- MODULE RelocatedLibrary --------------------------
(***************************************************************************)
(* A game that is played, switched and backed up while its versions move   *)
(* to another folder.                                                      *)
(***************************************************************************)
EXTENDS PlayerLibrary, OutputRelocation

allVars == <<vars, relocationVars>>

RInit == Init /\ relocation = NoRelocation /\ oldCopies = [i \in Installs |-> NoTree]

\* Everything else goes on beside an unfinished relocation.
Beside(A) == A /\ UNCHANGED relocationVars

RNext == RelocationNext \/ Beside(Next)

RSpec == RInit /\ [][RNext]_allVars

\* As in PlayerLibrary: a command goes on, a game ends, every start recovers, and
\* some start finds the lock free.
RFairness ==
    /\ WF_allVars(Beside(Proceed) \/ RelocateOn)
    /\ WF_allVars(Beside(GameExits))
    /\ WF_allVars(Beside(RecoverPreparing))
    /\ WF_allVars(Beside(RecoverLaunch))
    /\ SF_allVars(RecoverRelocation)

RFairSpec == RSpec /\ RFairness

-----------------------------------------------------------------------------

\* Whatever a crash or a failing step leaves, each version is either staged or in
\* place, never both, neither or half, until all are; only then do the rows change.
RelocationIsRecoverable ==
    /\ RelocationTypeOK
    /\ relocation.phase = "prepared" =>
         /\ relocation.copied \cap relocation.placed = {}
         /\ relocation.copied \cup relocation.placed = Installs
    /\ relocation.phase \in {"published", "committed", "cleanup"} =>
         relocation.placed = Installs /\ relocation.copied = {}
    /\ relocation.moved => relocation.phase \in {"published", "committed", "cleanup"}
    /\ relocation.phase \in {"committed", "cleanup"} => relocation.moved

\* A version never moves while a session is unfinished: recover_launch_session
\* gives up for good when the recorded path is not the registered one.
SessionsKeepTheirPath ==
    [][session # NoSession => relocation'.moved = relocation.moved]_allVars

\* Every relocation ends, or is left with changed old copies that are kept, or
\* stands still for one of three reasons: the game was played before the copies were
\* complete, a staged version was activated meanwhile, or a session waits for review.
RelocationsSettle ==
    relocation.phase # "none" ~>
      \/ relocation.phase = "none"
      \/ relocation.phase = "cleanup" /\ \E i \in Installs : ~Removable(i)
      \/ relocation.phase = "copying" /\ ~SourcesAsReviewed
      \/ staged # relocation.staged
      \/ LockFree /\ session.phase = "spawning"

-----------------------------------------------------------------------------

\* docs/ARCHITECTURE.md: "Sources, central user data, backups, and shared tools are
\* outside relocation ownership": a relocation does not change which saves the player
\* finds.
RelocationKeepsSaves ==
    [][relocation' # relocation => CurrentSaves' = CurrentSaves]_allVars
=============================================================================
