---------------------------- MODULE PlayerLibrary ---------------------------
(***************************************************************************)
(* One game's saves under everything that moves them: launches and their   *)
(* recovery, version switches, backups, restores and deletions, with a     *)
(* crash of any of them at any step.                                       *)
(***************************************************************************)
EXTENDS LaunchSession, VersionSwitch, BackupRestore

\* A game that may have been played before, with another version installed as
\* the previous or as the staged one.
Init ==
    /\ data \in [Installs -> {Empty}]
    /\ user = NoTree /\ launched = {}
    /\ active \in Installs
    /\ \E i \in Installs \ {active} :
         \/ previous = i /\ staged = None
         \/ previous = None /\ staged = i
    /\ activation = None
    /\ session = NoSession /\ played = {} /\ written = 0
    /\ backups = [b \in Backups |-> NoTree]
    /\ restore = NoRestore /\ stagedData = NoTree /\ previousData = NoTree
    /\ deletion = NoDeletion /\ quarantine = NoTree
    /\ op = Idle /\ mishaps = 0

Next ==
    \/ CollectEntry \/ ProvideEntry \/ Crash
    \/ LaunchNext \/ SwitchNext \/ BackupNext

Spec == Init /\ [][Next]_vars

-----------------------------------------------------------------------------
(* Fairness.  A command goes on until it ends, fails or dies with its       *)
(* process; a game ends at some time; every start of the application runs   *)
(* the recovery.  Nothing else can hold the lock while a session is         *)
(* unfinished, so weak fairness is enough for the session.  Other commands  *)
(* may hold it at every other start while a restore or a deletion waits:    *)
(* strong fairness says that some start finds it free.                      *)

Proceed ==
    \/ CollectEntry \/ ProvideEntry
    \/ ProvideForLaunch \/ CloseWindow \/ RecordSpawning \/ Spawn \/ RecordChild
    \/ WriteMarker \/ GameEnded \/ FinishCollecting \/ Finish \/ GiveUpPreparing
    \/ RecoverEnded
    \/ ProvideToTarget \/ MovePointers \/ RetireActivation
    \/ CollectedForSnapshot \/ PublishBackup \/ SafetyBackup \/ PrepareRestore
    \/ PassReview \/ RestoreOn
    \/ QuarantineBackup \/ RecordQuarantined \/ RemoveQuarantined \/ RetireDeletion

Fairness ==
    /\ WF_vars(Proceed) /\ WF_vars(GameExits)
    /\ WF_vars(RecoverPreparing) /\ WF_vars(RecoverLaunch)
    /\ SF_vars(RecoverRestore) /\ SF_vars(RecoverDeletion)

FairSpec == Spec /\ Fairness

-----------------------------------------------------------------------------
(* What the player may rely on.                                            *)

\* The progress made in the game is the abstract one of PlayerProgress: launches,
\* crashes, recoveries, version switches and half-done copies never lose or
\* replace a save, backups are true copies of it, and a restore replaces it as a
\* whole by the snapshot the player chose, with a safety copy of what was there.
Starting == session.child # "none" /\ session.phase = "spawning"
Progress == INSTANCE PlayerProgress WITH
    saves  <- CurrentSaves,
    before <- IF Starting THEN At(user) ELSE Empty,
    game   <- IF session.child = "none" THEN "off"
              ELSE IF Starting THEN "starting" ELSE "on",
    copies <- backups,
    chosen <- IF restore.phase = "prepared" THEN stagedData ELSE NoTree

ProgressIsKept == Progress!Spec

\* An unfinished restore and an unfinished session never wait for each other: the
\* recovery of a session collects only when no restore is pending, and that of a
\* restore takes the lock only when no session is unfinished.
RecoveriesNeverBlock == session = NoSession \/ NoRestorePending

\* Whatever a crash leaves of a restore or a deletion, the next start knows what to
\* do from the journal and the directories it finds: recover_restore and
\* recover_backup_deletion never meet a combination they refuse as ambiguous.
JournalsAreRecoverable ==
    LockFree =>
      /\ restore.phase = "prepared" => PublicationStep # "none"
      /\ restore.phase \in {"published", "committed"} => user # NoTree /\ stagedData = NoTree
      /\ deletion.phase = "prepared" =>
             (backups[deletion.backup] # NoTree) # (quarantine # NoTree)
      /\ deletion.phase \in {"quarantined", "deleted"} => backups[deletion.backup] = NoTree

\* A cancel request and the game exclude each other (begin_publication): either
\* the request wins and nothing is started, or it is refused.
CancelledNeverPlays == session.asked => session.child = "none"

\* While a game runs, its files are its own and its version stays the active one,
\* even when the supervisor that held the lock is dead.
GameKeepsItsFiles ==
    [][session.child = "alive" =>
         /\ active' = active
         /\ data' # data => written' # written]_vars

\* A session whose game was recorded is closed only when the canonical saves are
\* exactly what that version holds (supervise_launch_identified and
\* recover_launch_session: collect, then finish).
ClosedOnlyWhenCollected ==
    [][session.phase \in {"running", "collecting"} /\ session' = NoSession
         => At(user) = data[session.install]]_vars

\* Every session comes to an end, except the one whose supervisor died between
\* recording that it spawns the game and recording the game: that one waits for
\* the player.
SessionsSettle ==
    session # NoSession ~>
      \/ session = NoSession
      \/ LockFree /\ session.phase = "spawning"

\* Every restore that reached its journal, and every deletion, is brought to an
\* end, unless a session for review holds the port for good.
JournalsSettle ==
    (restore.phase # "none" \/ deletion.phase # "none") ~>
      \/ restore.phase = "none" /\ deletion.phase = "none"
      \/ LockFree /\ session.phase = "spawning"

=============================================================================
