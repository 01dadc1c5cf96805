------------------------ MODULE PlayerProgressProofs ------------------------
(***************************************************************************)
(* The progress a player makes is kept: PlayerLibrary implements           *)
(* PlayerProgress, for every number of versions, entries, backups, writes  *)
(* of the game and crashes.                                                *)
(*                                                                         *)
(* It rests on two invariants besides the one of PlayerLibraryProofs.  The *)
(* journal of a restore or a deletion is written before the directories    *)
(* are touched and the renames are single steps, so what the directories   *)
(* show says how far the command had come, and the next start knows how to *)
(* go on from it.  And between the canonical directory and the version     *)
(* that ran, the entries a command has copied so far are the same.         *)
(***************************************************************************)
EXTENDS PlayerLibraryProofs

-----------------------------------------------------------------------------
(* The journals and the directories.                                       *)

\* How far the directories show a restore to have come.
LooksAside == restore.replaces /\ stagedData # NoTree /\ user # NoTree /\ previousData = NoTree
LooksInstall ==
    /\ stagedData # NoTree /\ user = NoTree
    /\ restore.replaces <=> previousData # NoTree
LooksRecord ==
    /\ stagedData = NoTree /\ user # NoTree
    /\ restore.replaces <=> previousData # NoTree

\* What the journal of a restore says of the directories.
RestoreJournal ==
    /\ restore.phase = "none" => stagedData = NoTree /\ previousData = NoTree
    /\ restore.phase = "prepared" => LooksAside \/ LooksInstall \/ LooksRecord
    /\ restore.phase \in {"published", "committed"} => user # NoTree /\ stagedData = NoTree

\* What a step of a restore, or of its recovery, may count on.
RestoreCommand ==
    /\ op.step = "collect" => restore.phase = "none"
    /\ op.kind = "restore" /\ op.step \in {"collect", "safety", "prepare"} =>
         restore.phase = "none" /\ backups[op.backup] # NoTree
    /\ op.kind \in Restoring =>
         /\ op.step = "review" =>
              /\ restore.phase = "prepared"
              /\ IF restore.replaces THEN LooksAside ELSE LooksInstall
         /\ op.step = "aside" => restore.phase = "prepared" /\ LooksAside
         /\ op.step = "install" => restore.phase = "prepared" /\ LooksInstall
         /\ op.step = "record" => restore.phase = "prepared" /\ LooksRecord
         /\ op.step = "sync" => restore.phase \in {"published", "committed"}
         /\ op.step = "clean" => restore.phase = "committed"
         /\ op.step = "retire" => restore.phase = "committed" /\ previousData = NoTree

\* What the journal of a deletion says of the backup and of its quarantine.
Visible == backups[deletion.backup] # NoTree
DeletionJournal ==
    /\ deletion.phase = "none" => quarantine = NoTree
    /\ deletion.phase = "prepared" => Visible # (quarantine # NoTree)
    /\ deletion.phase \in {"quarantined", "deleted"} => ~Visible
    /\ deletion.phase = "deleted" => quarantine = NoTree

\* What a step of a deletion, or of its recovery, may count on.
DeletionCommand ==
    op.kind \in Deleting =>
      /\ op.step = "quarantine" => deletion.phase = "prepared" /\ Visible
      /\ op.step = "record" => deletion.phase = "prepared" /\ ~Visible
      /\ op.step = "remove" => deletion.phase \in {"quarantined", "deleted"}
      /\ op.step = "retire" => deletion.phase = "deleted"

-----------------------------------------------------------------------------
(* What recovery reads off the directories.                                *)

\* The step to take up again, in terms of which directories there are.
LEMMA PublicationStepIs ==
    ASSUME restore \in RestoreType
    PROVE  /\ PublicationStep \in {"aside", "install", "record", "none"}
           /\ PublicationStep = "aside" <=> LooksAside
           /\ PublicationStep = "install" <=> LooksInstall
           /\ PublicationStep = "record" <=> LooksRecord
<1> DEFINE s == stagedData # NoTree
           u == user # NoTree
           p == previousData # NoTree
<1>0. restore.replaces \in BOOLEAN
  BY DEF RestoreType
<1>1. PublicationStep =
        CASE restore.replaces /\ s /\ u /\ ~p -> "aside"
          [] restore.replaces /\ s /\ ~u /\ p -> "install"
          [] restore.replaces /\ ~s /\ u /\ p -> "record"
          [] ~restore.replaces /\ s /\ ~u /\ ~p -> "install"
          [] ~restore.replaces /\ ~s /\ u /\ ~p -> "record"
          [] OTHER -> "none"
  BY <1>0 DEF PublicationStep
<1> QED BY <1>0, <1>1 DEF LooksAside, LooksInstall, LooksRecord

-----------------------------------------------------------------------------
(* The restore.                                                            *)

\* A command that restores nothing and does not collect asks nothing of a restore.
LEMMA NoRestoreStep ==
    ASSUME op'.kind \notin Restoring, op'.step # "collect"
    PROVE  RestoreCommand'
BY DEF RestoreCommand, Restoring

\* Its directories and its journal kept, what it says is kept.
LEMMA RestoreJournalKept ==
    ASSUME RestoreJournal, UNCHANGED <<user, restore, stagedData, previousData>>
    PROVE  RestoreJournal'
BY DEF RestoreJournal, LooksAside, LooksInstall, LooksRecord

\* So is what its steps may count on.
LEMMA RestoreCommandKept ==
    ASSUME RestoreCommand, UNCHANGED <<op, backups, user, restore, stagedData, previousData>>
    PROVE  RestoreCommand'
<1>1. (LooksAside <=> LooksAside') /\ (LooksInstall <=> LooksInstall')
      /\ (LooksRecord <=> LooksRecord')
  BY DEF LooksAside, LooksInstall, LooksRecord
<1> QED BY <1>1 DEF RestoreCommand, Restoring

\* A version switch begins to collect only when no restore is pending.
LEMMA SwitchCollects ==
    ASSUME Control, SwitchNext, op'.step = "collect"
    PROVE  restore.phase = "none"
<1> USE DEF Control, RowKept
<1>0. /\ active \in Places /\ previous \in Places /\ staged \in Places /\ activation \in Places
      /\ \A k \in Switching : k \in Kinds
      /\ "provide" \in Steps /\ "retire" \in Steps
  BY DEF PointersTyped, Places, Switching, Kinds, Steps
<1>1. ASSUME NEW k \in Switching, NEW i \in Places, Collectable,
             op' = CollectFirst(k, "provide", i)
      PROVE  restore.phase = "none"
  <2>1. active \in launched
    <3>1. k \in Kinds
      BY <1>0
    <3> QED BY <1>0, <1>1, <3>1, CollectFirstFields
  <2> QED BY <1>1, <2>1 DEF Collectable, NoRestorePending
<1>2. CASE BeginRollback \/ BeginActivation
  <2>1. /\ Collectable
        /\ \/ op' = CollectFirst("rollback", "provide", previous)
           \/ op' = CollectFirst("activate", "provide", staged)
    BY <1>2 DEF BeginRollback, BeginActivation
  <2>2. "rollback" \in Switching /\ "activate" \in Switching
    BY DEF Switching
  <2> QED BY <1>0, <1>1, <2>1, <2>2
<1>3. ~ProvideToTarget
  <2>1. op' # Copying("provide", Target(op.kind))
    BY <1>0, CopyingFields DEF Target
  <2> QED BY <2>1 DEF ProvideToTarget
<1>4. ~MovePointers
  <2>1. op' # Idle /\ op' # Then("retire")
    BY <1>0, IdleFields, ThenFields
  <2> QED BY Zenon, <2>1 DEF MovePointers
<1>5. ~RetireActivation /\ ~SwitchFails
  BY IdleFields DEF RetireActivation, SwitchFails
<1>6. CASE RecoverActivation
  <2>1. "recover activate" \in Switching
    BY DEF Switching
  <2>2. \/ op' = Command("recover activate", "retire")
        \/ /\ Collectable
           /\ op' = CollectFirst("recover activate", "provide", activation)
    BY <1>6 DEF RecoverActivation
  <2>3. op' # Command("recover activate", "retire")
    <3>1. "recover activate" \in Kinds /\ "retire" \in Steps
      BY Zenon, <1>0, <2>1
    <3>2. Command("recover activate", "retire").step = "retire"
      BY Zenon, <3>1, CommandFields
    <3>3. "retire" # "collect"
      OBVIOUS
    <3> QED BY Zenon, <3>2, <3>3
  <2> QED BY Zenon, <1>0, <1>1, <2>1, <2>2, <2>3
<1> QED BY <1>2, <1>3, <1>4, <1>5, <1>6 DEF SwitchNext

\* Every step that is no backup, restore or deletion.
LEMMA OthersKeepTheRestore ==
    ASSUME Control, RestoreJournal, RestoreCommand, [Next]_vars, ~BackupNext
    PROVE  RestoreJournal' /\ RestoreCommand'
<1> USE DEF Control, RowKept
<1>1. CASE CollectEntry \/ ProvideEntry
  <2>1. UNCHANGED <<restore, stagedData, previousData, backups>>
    BY <1>1 DEF CollectEntry, ProvideEntry, backupVars
  <2>2. PICK e \in op.left : op' = Without(e)
    BY <1>1 DEF CollectEntry, ProvideEntry
  <2>3. op'.kind = op.kind /\ op'.step = op.step /\ op'.backup = op.backup
    BY <2>2, WithoutFields
  <2>4. CASE CollectEntry
    <3>1. op.step = "collect" /\ restore.phase = "none"
      BY <2>4 DEF CollectEntry, RestoreCommand
    <3> QED BY <2>1, <2>3, <3>1 DEF RestoreJournal, RestoreCommand
  <2>5. CASE ProvideEntry
    <3>1. op.step = "provide" /\ UNCHANGED user
      BY <2>5 DEF ProvideEntry
    <3> QED BY <2>1, <2>3, <3>1, RestoreJournalKept DEF RestoreCommand
  <2> QED BY <1>1, <2>4, <2>5
<1>2. CASE Crash
  <2>1. op' = Idle /\ UNCHANGED <<user, restore, stagedData, previousData>>
    BY <1>2 DEF Crash, copyVars, backupVars
  <2>2. op'.kind \notin Restoring /\ op'.step # "collect"
    BY <2>1, IdleFields DEF Restoring
  <2> QED BY <2>1, <2>2, RestoreJournalKept, NoRestoreStep
<1>3. CASE LaunchNext
  <2>1. UNCHANGED <<restore, stagedData, previousData, backups>> /\ LaunchOp
    BY <1>3, LaunchStep DEF RowContext, backupVars, PointersTyped
  <2>2. UNCHANGED user
    BY <1>3, LaunchKeepsUser
  <2>3. RestoreJournal'
    BY <2>1, <2>2, RestoreJournalKept
  <2>4. CASE op' = op
    BY <2>1, <2>2, <2>3, <2>4, RestoreCommandKept
  <2>5. CASE op' = Idle
    <3>1. op'.kind \notin Restoring /\ op'.step # "collect"
      BY <2>5, IdleFields DEF Restoring
    <3> QED BY <2>3, <3>1, NoRestoreStep
  <2>6. CASE op'.kind \in SessionKinds
    <3>1. restore'.phase = "none"
      BY <1>3, <2>6, LaunchStep, NoSessionPhase DEF KindsAndSessions, PointersTyped
    <3>2. op'.kind \notin Restoring
      BY <2>6 DEF SessionKinds, Restoring
    <3> QED BY <2>3, <3>1, <3>2 DEF RestoreCommand, Restoring
  <2> QED BY <2>1, <2>3, <2>4, <2>5, <2>6 DEF LaunchOp
<1>4. CASE SwitchNext
  <2>1. UNCHANGED <<user, restore, stagedData, previousData>> /\ SwitchOp
    BY <1>4, SwitchStep DEF copyVars, backupVars
  <2>2. op'.kind \notin Restoring
    BY <2>1, IdleFields DEF SwitchOp, Switching, Restoring
  <2>3. op'.step = "collect" => restore.phase = "none"
    BY <1>4, SwitchCollects
  <2>4. RestoreCommand'
    BY <2>1, <2>2, <2>3 DEF RestoreCommand, Restoring
  <2> QED BY <2>1, <2>4, RestoreJournalKept
<1>5. CASE UNCHANGED vars
  <2>1. UNCHANGED <<op, backups, user, restore, stagedData, previousData>>
    BY <1>5 DEF vars, copyVars, backupVars
  <2>2. RestoreCommand'
    BY <2>1, RestoreCommandKept
  <2> QED BY <2>1, <2>2, RestoreJournalKept
<1> QED BY <1>1, <1>2, <1>3, <1>4, <1>5 DEF Next

\* The steps of a restore and of its recovery, by what they leave of the directories.
LEMMA RestoreKeepsItsJournal ==
    ASSUME Control, FilesType, RestoreJournal, RestoreCommand,
           RestoreOn \/ SafetyBackup \/ PrepareRestore \/ RefuseRestore \/ PassReview
             \/ MoveInFails \/ RecoverRestore
    PROVE  RestoreJournal' /\ RestoreCommand'
<1> USE DEF Control, RowKept
<1>0. /\ restore \in RestoreType /\ op \in CommandType
      /\ "prepare" \in Steps /\ "review" \in Steps /\ "aside" \in Steps /\ "install" \in Steps
      /\ "record" \in Steps /\ "sync" \in Steps /\ "clean" \in Steps /\ "retire" \in Steps
      /\ "restore" \in Restoring
      /\ \A k \in Restoring : k \in Kinds
  BY DEF FilesType, VaultType, Steps, Kinds, Restoring
<1>idle. ASSUME op' = Idle PROVE RestoreCommand'
  <2>1. op'.kind \notin Restoring /\ op'.step # "collect"
    BY <1>idle, IdleFields DEF Restoring
  <2> QED BY <2>1, NoRestoreStep
<1>1. CASE SafetyBackup
  <2>1. /\ op.kind = "restore" /\ op.step = "safety" /\ op' = Then("prepare")
        /\ UNCHANGED <<user, restore, stagedData, previousData>>
        /\ backups' = backups \/ \E b \in Backups : Snapshot(b)
    BY <1>1 DEF SafetyBackup, copyVars, restoreVars
  <2>2. op'.kind = "restore" /\ op'.step = "prepare" /\ op'.backup = op.backup
    BY <1>0, <2>1, ThenFields
  <2>3. restore.phase = "none" /\ backups[op.backup] # NoTree /\ op.backup \in Backups
    BY <2>1 DEF RestoreCommand, RestoresHaveASource
  <2>4. backups'[op.backup] # NoTree
    <3>1. ASSUME NEW b \in Backups, Snapshot(b) PROVE backups'[op.backup] # NoTree
      <4>1. op.backup # b /\ backups' = [backups EXCEPT ![b] = user]
        BY <2>3, <3>1 DEF Snapshot, Unused
      <4> QED BY <2>3, <4>1 DEF FilesType, VaultType
    <3> QED BY <2>1, <2>3, <3>1
  <2>5. RestoreJournal'
    BY <2>1, RestoreJournalKept
  <2> QED BY <2>1, <2>2, <2>3, <2>4, <2>5 DEF RestoreCommand
<1>2. CASE PrepareRestore
  <2>1. /\ op.kind = "restore" /\ op.step = "prepare"
        /\ restore' = [phase |-> "prepared", replaces |-> user # NoTree]
        /\ stagedData' = backups[op.backup]
        /\ op' = Then("review") \/ op' = Idle
        /\ UNCHANGED <<user, previousData>>
    BY <1>2 DEF PrepareRestore, copyVars
  <2>2. restore.phase = "none" /\ stagedData' # NoTree
    BY <2>1 DEF RestoreCommand
  <2>3. /\ restore'.phase = "prepared" /\ restore'.replaces = (user' # NoTree)
        /\ previousData' = NoTree
    BY <2>1, <2>2 DEF RestoreJournal
  <2>4. IF restore'.replaces THEN LooksAside' ELSE LooksInstall'
    BY <2>2, <2>3 DEF LooksAside, LooksInstall
  <2>5. RestoreJournal'
    BY <2>3, <2>4 DEF RestoreJournal
  <2>6. CASE op' = Then("review")
    <3>1. op'.kind = "restore" /\ op'.step = "review"
      BY <1>0, <2>1, <2>6, ThenFields
    <3> QED BY <2>3, <2>4, <2>5, <3>1 DEF RestoreCommand
  <2> QED BY <1>idle, <2>1, <2>5, <2>6
<1>3. CASE RefuseRestore
  <2>1. /\ op.kind = "restore" /\ op.step = "review" /\ op' = Idle
        /\ \/ restore' = NoRestore /\ stagedData' = NoTree
           \/ UNCHANGED <<restore, stagedData>>
        /\ UNCHANGED <<user, previousData>>
    BY <1>3 DEF RefuseRestore, copyVars
  <2>2. IF restore.replaces THEN LooksAside ELSE LooksInstall
    BY <1>0, <2>1 DEF RestoreCommand
  <2>3. previousData = NoTree
    BY <2>2 DEF LooksAside, LooksInstall
  <2>4. CASE restore' = NoRestore /\ stagedData' = NoTree
    BY <1>idle, <2>1, <2>3, <2>4 DEF RestoreJournal, NoRestore
  <2>5. CASE UNCHANGED <<restore, stagedData>>
    BY <1>idle, <2>1, <2>5, RestoreJournalKept
  <2> QED BY <2>1, <2>4, <2>5
<1>4. CASE PassReview
  <2>1. /\ op.kind = "restore" /\ op.step = "review"
        /\ op' = Then(IF restore.replaces THEN "aside" ELSE "install")
        /\ UNCHANGED <<user, restore, stagedData, previousData>>
    BY <1>4 DEF PassReview, copyVars, backupVars
  <2>2. /\ restore.phase = "prepared"
        /\ IF restore.replaces THEN LooksAside ELSE LooksInstall
    BY <1>0, <2>1 DEF RestoreCommand
  <2>3. op'.kind = "restore" /\ op'.step = IF restore.replaces THEN "aside" ELSE "install"
    BY <1>0, <2>1, ThenFields
  <2>4. (LooksAside <=> LooksAside') /\ (LooksInstall <=> LooksInstall')
    BY <2>1 DEF LooksAside, LooksInstall
  <2>5. RestoreJournal'
    BY <2>1, RestoreJournalKept
  <2> QED BY <2>1, <2>2, <2>3, <2>4, <2>5 DEF RestoreCommand
<1>5. CASE MoveAside
  <2>1. /\ op.kind \in Restoring /\ op.step = "aside" /\ op' = Then("install")
        /\ previousData' = user /\ user' = NoTree /\ UNCHANGED <<restore, stagedData>>
    BY <1>5 DEF MoveAside
  <2>2. restore.phase = "prepared" /\ LooksAside
    BY <2>1 DEF RestoreCommand
  <2>3. op'.kind = op.kind /\ op'.step = "install"
    BY <1>0, <2>1, ThenFields
  <2>4. LooksInstall'
    BY <1>0, <2>1, <2>2 DEF LooksAside, LooksInstall
  <2> QED BY <2>1, <2>2, <2>3, <2>4 DEF RestoreJournal, RestoreCommand
<1>6. CASE MoveIn
  <2>1. /\ op.kind \in Restoring /\ op.step = "install" /\ op' = Then("record")
        /\ user' = stagedData /\ stagedData' = NoTree /\ UNCHANGED <<restore, previousData>>
    BY <1>6 DEF MoveIn
  <2>2. restore.phase = "prepared" /\ LooksInstall
    BY <2>1 DEF RestoreCommand
  <2>3. op'.kind = op.kind /\ op'.step = "record"
    BY <1>0, <2>1, ThenFields
  <2>4. LooksRecord'
    BY <2>1, <2>2 DEF LooksInstall, LooksRecord
  <2> QED BY <2>1, <2>2, <2>3, <2>4 DEF RestoreJournal, RestoreCommand
<1>7. CASE MoveInFails
  <2>1. /\ op.kind = "restore" /\ op.step = "install" /\ op' = Idle
        /\ \/ restore.replaces /\ user' = previousData /\ previousData' = NoTree
           \/ UNCHANGED <<user, previousData>>
        /\ UNCHANGED <<restore, stagedData>>
    BY <1>7 DEF MoveInFails
  <2>2. restore.phase = "prepared" /\ LooksInstall
    BY <1>0, <2>1 DEF RestoreCommand
  <2>3. CASE restore.replaces /\ user' = previousData /\ previousData' = NoTree
    <3>1. LooksAside'
      BY <2>1, <2>2, <2>3 DEF LooksInstall, LooksAside
    <3> QED BY <1>idle, <2>1, <2>2, <3>1 DEF RestoreJournal
  <2>4. CASE UNCHANGED <<user, previousData>>
    BY <1>idle, <2>1, <2>4, RestoreJournalKept
  <2> QED BY <2>1, <2>3, <2>4
<1>8. CASE RecordPublished
  <2>1. /\ op.kind \in Restoring /\ op.step = "record"
        /\ restore' = [restore EXCEPT !.phase = "published"]
        /\ op' = [op EXCEPT !.step = "sync", !.at = None, !.left = {}, !.todo = Installs]
        /\ UNCHANGED <<user, stagedData, previousData>>
    BY <1>8 DEF RecordPublished, copyVars
  <2>2. LooksRecord
    BY <2>1 DEF RestoreCommand
  <2>3. restore'.phase = "published"
    BY <1>0, <2>1 DEF RestoreType
  <2>4. op'.step = "sync"
    BY <1>0, <2>1 DEF CommandType
  <2> QED BY <2>1, <2>2, <2>3, <2>4 DEF RestoreJournal, RestoreCommand, LooksRecord
<1>9. CASE SyncNext \/ SyncEntry \/ ClearMarker
  <2>1. /\ op.kind \in Restoring /\ op.step = "sync"
        /\ UNCHANGED <<user, restore, stagedData, previousData>>
    BY <1>9 DEF SyncNext, SyncEntry, ClearMarker, Copied, copyVars, backupVars
  <2>2. op'.step = "sync"
    <3>1. CASE SyncNext
      BY <1>0, <2>1, <3>1 DEF SyncNext, CommandType
    <3>2. CASE SyncEntry
      BY <2>1, <3>2, WithoutFields DEF SyncEntry
    <3>3. CASE ClearMarker
      BY <1>0, <2>1, <3>3 DEF ClearMarker, CommandType
    <3> QED BY <1>9, <3>1, <3>2, <3>3
  <2>3. restore.phase \in {"published", "committed"}
    BY <2>1 DEF RestoreCommand
  <2>4. RestoreJournal'
    BY <2>1, RestoreJournalKept
  <2> QED BY <2>1, <2>2, <2>3, <2>4 DEF RestoreCommand
<1>10. CASE CommitRestore
  <2>1. /\ op.kind \in Restoring /\ op.step = "sync" /\ op' = Then("clean")
        /\ restore' = [restore EXCEPT !.phase = "committed"]
        /\ UNCHANGED <<user, stagedData, previousData>>
    BY <1>10 DEF CommitRestore, Copied, copyVars
  <2>2. restore.phase \in {"published", "committed"}
    BY <2>1 DEF RestoreCommand
  <2>3. restore'.phase = "committed"
    BY <1>0, <2>1 DEF RestoreType
  <2>4. op'.step = "clean"
    BY <1>0, <2>1, ThenFields
  <2> QED BY <2>1, <2>2, <2>3, <2>4 DEF RestoreJournal, RestoreCommand
<1>11. CASE RemovePrevious
  <2>1. /\ op.kind \in Restoring /\ op.step = "clean" /\ op' = Then("retire")
        /\ previousData' = NoTree /\ UNCHANGED <<user, restore, stagedData>>
    BY <1>11 DEF RemovePrevious, copyVars
  <2>2. restore.phase = "committed"
    BY <2>1 DEF RestoreCommand
  <2>3. op'.step = "retire"
    BY <1>0, <2>1, ThenFields
  <2> QED BY <2>1, <2>2, <2>3 DEF RestoreJournal, RestoreCommand
<1>12. CASE RetireRestore
  <2>1. /\ op.kind \in Restoring /\ op.step = "retire" /\ op' = Idle
        /\ restore' = NoRestore /\ UNCHANGED <<stagedData, previousData>>
    BY <1>12 DEF RetireRestore
  <2>2. restore.phase = "committed" /\ previousData = NoTree
    BY <2>1 DEF RestoreCommand
  <2> QED BY <1>idle, <2>1, <2>2 DEF RestoreJournal, NoRestore
<1>13. CASE RecoverRestore
  <2>1. /\ restore.phase # "none" /\ UNCHANGED <<user, restore, stagedData, previousData>>
        /\ \/ /\ restore.phase = "prepared" /\ PublicationStep # "none"
              /\ op' = Command("recover restore", PublicationStep)
           \/ /\ restore.phase # "prepared"
              /\ op' = [Command("recover restore", "sync") EXCEPT !.todo = Installs]
    BY Zenon, <1>13 DEF RecoverRestore, copyVars, backupVars
  <2>2. RestoreJournal'
    BY <2>1, RestoreJournalKept
  <2>3. \A k \in Kinds : k = "recover restore" => k # "restore"
    OBVIOUS
  <2>4. PICK k \in Kinds :
          /\ k # "restore"
          /\ \/ /\ restore.phase = "prepared" /\ PublicationStep # "none"
                /\ op' = Command(k, PublicationStep)
             \/ /\ restore.phase # "prepared"
                /\ op' = [Command(k, "sync") EXCEPT !.todo = Installs]
    <3>1. "recover restore" \in Kinds
      BY DEF Kinds
    <3> QED BY Zenon, <2>1, <2>3, <3>1
  <2>5. CASE /\ restore.phase = "prepared" /\ PublicationStep # "none"
             /\ op' = Command(k, PublicationStep)
    <3>1. PublicationStep \in {"aside", "install", "record"}
      BY <1>0, <2>5, PublicationStepIs
    <3>2. op'.kind = k /\ op'.step = PublicationStep
      BY <1>0, <2>5, <3>1, CommandFields
    <3>3. /\ op'.step = "aside" => LooksAside
          /\ op'.step = "install" => LooksInstall
          /\ op'.step = "record" => LooksRecord
      BY <1>0, <3>2, PublicationStepIs
    <3>4. (LooksAside <=> LooksAside') /\ (LooksInstall <=> LooksInstall')
          /\ (LooksRecord <=> LooksRecord')
      BY <2>1 DEF LooksAside, LooksInstall, LooksRecord
    <3> QED BY <2>1, <2>2, <2>4, <2>5, <3>1, <3>2, <3>3, <3>4 DEF RestoreCommand
  <2>6. CASE /\ restore.phase # "prepared"
             /\ op' = [Command(k, "sync") EXCEPT !.todo = Installs]
    <3> DEFINE c == Command(k, "sync")
    <3>1. c \in CommandType /\ c.kind = k /\ c.step = "sync"
      BY <1>0, CommandFields
    <3>2. op' = [c EXCEPT !.todo = Installs]
      BY <2>6
    <3> HIDE DEF c
    <3>3. op'.kind = k /\ op'.step = "sync"
      BY <3>1, <3>2 DEF CommandType
    <3>4. restore.phase \in {"published", "committed"}
      BY <1>0, <2>1, <2>6 DEF RestoreType
    <3> QED BY <2>1, <2>2, <2>4, <3>3, <3>4 DEF RestoreCommand
  <2> QED BY <2>4, <2>5, <2>6
<1> QED
  BY <1>1, <1>2, <1>3, <1>4, <1>5, <1>6, <1>7, <1>8, <1>9, <1>10, <1>11, <1>12, <1>13
     DEF RestoreOn

\* The kinds the commands about backups begin with.
LEMMA BackupBegins ==
    ASSUME Control, NEW k \in Kinds, NEW s \in Steps, s # "collect",
           op' = CollectFirst(k, s, None)
    PROVE  op'.kind = k /\ op'.step \in {"collect", s} /\ (op'.step = "collect" => active \in launched)
<1>1. active \in Places /\ None \in Places
  BY DEF Control, PointersTyped, Places
<1> QED BY <1>1, CollectFirstFields

\* The steps of the commands about backups that touch no restore.
LEMMA BackupKeepsTheRestore ==
    ASSUME Control, FilesType, RestoreJournal, RestoreCommand, BackupNext
    PROVE  RestoreJournal' /\ RestoreCommand'
<1> USE DEF Control, RowKept
<1>0. /\ "publish" \in Steps /\ "safety" \in Steps /\ "record" \in Steps /\ "remove" \in Steps
      /\ "retire" \in Steps /\ "quarantine" \in Steps /\ "backup" \in Kinds /\ "restore" \in Kinds
      /\ "backup" \notin Restoring /\ "restore" \in Restoring
      /\ \A k \in Deleting : k \notin Restoring /\ k \in Kinds
      /\ "delete" \in Deleting
  BY DEF Steps, Kinds, Restoring, Deleting
<1>1. CASE BeginBackup
  <2>1. /\ op' = CollectFirst("backup", "publish", None) /\ Collectable
        /\ UNCHANGED <<user, restore, stagedData, previousData>>
    BY <1>1 DEF BeginBackup, copyVars, backupVars
  <2>2. op'.kind = "backup" /\ (op'.step = "collect" => restore.phase = "none")
    BY <1>0, <2>1, BackupBegins DEF Collectable, NoRestorePending
  <2> QED BY <1>0, <2>1, <2>2, RestoreJournalKept DEF RestoreCommand
<1>2. CASE \E b \in Backups : BeginRestore(b)
  <2> DEFINE c == CollectFirst("restore", "safety", None)
  <2>1. PICK b \in Backups : BeginRestore(b)
    BY <1>2
  <2>2. /\ op' = [c EXCEPT !.backup = b] /\ restore.phase = "none" /\ backups[b] # NoTree
        /\ UNCHANGED <<user, restore, stagedData, previousData, backups>>
    BY <2>1 DEF BeginRestore, NoRestorePending, copyVars, backupVars
  <2>3. c \in CommandType /\ c.kind = "restore" /\ c.step \in {"collect", "safety"}
    <3>1. active \in Places /\ None \in Places
      BY DEF PointersTyped, Places
    <3> QED BY <1>0, <3>1, CollectFirstKind
  <2> HIDE DEF c
  <2>4. op'.kind = "restore" /\ op'.step = c.step /\ op'.backup = b
    BY <2>2, <2>3 DEF CommandType
  <2> QED BY <2>2, <2>3, <2>4, RestoreJournalKept DEF RestoreCommand
<1>3. CASE CollectedForSnapshot
  <2>1. /\ op.kind \in Snapshotting /\ op.step = "collect"
        /\ op' = Then(IF op.kind = "backup" THEN "publish" ELSE "safety")
        /\ UNCHANGED <<user, restore, stagedData, previousData, backups>>
    BY <1>3 DEF CollectedForSnapshot, Copied, copyVars, backupVars
  <2>2. /\ op'.kind = op.kind /\ op'.backup = op.backup
        /\ op'.step = IF op.kind = "backup" THEN "publish" ELSE "safety"
    BY <1>0, <2>1, ThenFields
  <2>3. op.kind = "backup" \/ op.kind = "restore"
    BY <2>1 DEF Snapshotting
  <2> QED BY <1>0, <2>1, <2>2, <2>3, RestoreJournalKept DEF RestoreCommand
<1>4. CASE PublishBackup \/ RetireDeletion \/ BackupFails
  <2>1. op' = Idle /\ UNCHANGED <<user, restore, stagedData, previousData>>
    BY <1>4 DEF PublishBackup, RetireDeletion, BackupFails, copyVars, backupVars, restoreVars
  <2>2. op'.kind \notin Restoring /\ op'.step # "collect"
    BY <2>1, IdleFields DEF Restoring
  <2> QED BY <2>1, <2>2, RestoreJournalKept, NoRestoreStep
<1>5. CASE QuarantineBackup \/ RecordQuarantined \/ RemoveQuarantined
  <2>1. /\ op.kind \in Deleting /\ UNCHANGED <<user, restore, stagedData, previousData>>
        /\ op' = Then("record") \/ op' = Then("remove") \/ op' = Then("retire")
    BY <1>5 DEF QuarantineBackup, RecordQuarantined, RemoveQuarantined, copyVars, restoreVars
  <2>2. op'.kind = op.kind /\ op'.step \in {"record", "remove", "retire"}
    BY <1>0, <2>1, ThenFields
  <2> QED BY <1>0, <2>1, <2>2, RestoreJournalKept, NoRestoreStep
<1>6. CASE (\E b \in Backups : BeginDelete(b)) \/ RecoverDeletion
  <2>1. UNCHANGED <<user, restore, stagedData, previousData>>
    BY <1>6 DEF BeginDelete, RecoverDeletion, copyVars, backupVars, restoreVars
  <2>2. \E k \in Deleting : \/ op' = Command(k, "quarantine") \/ op' = Command(k, "record")
                            \/ op' = Command(k, "remove")
    BY Zenon, <1>6 DEF BeginDelete, RecoverDeletion, Deleting
  <2>3. op'.kind \in Deleting /\ op'.step \in {"quarantine", "record", "remove"}
    BY <1>0, <2>2, CommandFields
  <2> QED BY <1>0, <2>1, <2>3, RestoreJournalKept, NoRestoreStep
<1> QED
  BY <1>1, <1>2, <1>3, <1>4, <1>5, <1>6, RestoreKeepsItsJournal DEF BackupNext

-----------------------------------------------------------------------------
(* The deletion.                                                           *)

Journals == RestoreJournal /\ RestoreCommand /\ DeletionJournal /\ DeletionCommand

\* A step that touches no backup, and does not begin or go on with a deletion.
LEMMA DeletionKept ==
    ASSUME DeletionJournal, DeletionCommand, UNCHANGED <<deletion, quarantine>>,
           deletion.phase # "none" =>
             (backups'[deletion.backup] # NoTree <=> backups[deletion.backup] # NoTree),
           op'.kind \in Deleting => op'.kind = op.kind /\ op'.step = op.step
             /\ deletion.phase # "none"
    PROVE  DeletionJournal' /\ DeletionCommand'
<1>1. deletion.phase # "none" => (Visible <=> Visible')
  BY DEF Visible
<1>2. DeletionJournal'
  BY DEF DeletionJournal, Visible
<1>3. DeletionCommand'
  BY <1>1 DEF DeletionCommand
<1> QED BY <1>2, <1>3

\* Every step that is no backup, restore or deletion.
LEMMA OthersKeepTheDeletion ==
    ASSUME Control, FilesType, DeletionJournal, DeletionCommand, [Next]_vars, ~BackupNext
    PROVE  DeletionJournal' /\ DeletionCommand'
<1> USE DEF Control, RowKept
<1>0. op.kind \in Deleting => deletion.phase # "none"
  BY DEF FilesType, DeletionNamed
<1>1. UNCHANGED <<deletion, quarantine, backups>>
  BY LaunchStep, SwitchStep
     DEF Next, CollectEntry, ProvideEntry, Crash, vars, backupVars, RowContext, PointersTyped
<1>2. op' = op \/ op'.kind \notin Deleting \/ \E e \in op.left : op' = Without(e)
  <2>1. CASE CollectEntry \/ ProvideEntry
    BY <2>1 DEF CollectEntry, ProvideEntry
  <2>2. CASE Crash
    BY <2>2, IdleFields DEF Crash, Deleting
  <2>3. CASE LaunchNext
    <3>1. LaunchOp
      BY <2>3, LaunchStep DEF PointersTyped
    <3> QED BY <3>1, IdleFields DEF LaunchOp, SessionKinds, Deleting
  <2>4. CASE SwitchNext
    <3>1. SwitchOp
      BY <2>4, SwitchStep
    <3> QED BY <3>1, IdleFields DEF SwitchOp, Switching, Deleting
  <2>5. CASE UNCHANGED vars
    BY <2>5 DEF vars
  <2> QED BY <2>1, <2>2, <2>3, <2>4, <2>5 DEF Next
<1>3. op'.kind \in Deleting => op'.kind = op.kind /\ op'.step = op.step
  BY <1>2, WithoutFields
<1> QED BY <1>0, <1>1, <1>3, DeletionKept

\* A command that restores or backs up goes on as such a command.
LEMMA NotDeleting ==
    ASSUME Control, BackupNext, op.kind \in Restoring \cup Snapshotting
    PROVE  op'.kind \notin Deleting
<1> USE DEF Control, RowKept
<1>1. op # Idle /\ op.kind \notin Deleting /\ "none" \notin Deleting
  BY IdleFields DEF Restoring, Snapshotting, Deleting
<1>2. OtherStep
  BY BackupStep DEF BackupGoal
<1> QED BY <1>1, <1>2, IdleFields DEF OtherStep, Lockable, LockFree

\* The recovery of a restore is no deletion.
LEMMA RecoverRestoreIsNoDeletion ==
    ASSUME Control, FilesType, RecoverRestore
    PROVE  op'.kind \notin Deleting
<1>1. PICK k \in Kinds \ Deleting :
        \/ PublicationStep # "none" /\ op' = Command(k, PublicationStep)
        \/ op' = [Command(k, "sync") EXCEPT !.todo = Installs]
  <2>1. "recover restore" \in Kinds \ Deleting
    BY DEF Kinds, Deleting
  <2>2. \/ PublicationStep # "none" /\ op' = Command("recover restore", PublicationStep)
        \/ op' = [Command("recover restore", "sync") EXCEPT !.todo = Installs]
    BY Zenon DEF RecoverRestore
  <2> QED BY Zenon, <2>1, <2>2
<1>2. PublicationStep # "none" => PublicationStep \in Steps
  BY PublicationStepIs DEF FilesType, VaultType, Steps
<1>3. CASE PublicationStep # "none" /\ op' = Command(k, PublicationStep)
  BY <1>2, <1>3, CommandFields
<1>4. CASE op' = [Command(k, "sync") EXCEPT !.todo = Installs]
  <2> DEFINE c == Command(k, "sync")
  <2>1. c \in CommandType /\ c.kind = k
    <3>1. "sync" \in Steps
      BY DEF Steps
    <3> QED BY <3>1, CommandFields
  <2>2. op' = [c EXCEPT !.todo = Installs]
    BY <1>4
  <2> HIDE DEF c
  <2> QED BY <2>1, <2>2 DEF CommandType
<1> QED BY <1>1, <1>3, <1>4

\* The steps about backups.
LEMMA BackupKeepsTheDeletion ==
    ASSUME Control, FilesType, DeletionJournal, DeletionCommand, BackupNext
    PROVE  DeletionJournal' /\ DeletionCommand'
<1> USE DEF Control, RowKept
<1>0. /\ backups \in [Backups -> Directories] /\ deletion \in DeletionType
      /\ deletion.phase # "none" => deletion.backup \in Backups
      /\ op.kind \in Deleting => deletion.phase # "none"
      /\ "record" \in Steps /\ "remove" \in Steps /\ "retire" \in Steps /\ "quarantine" \in Steps
      /\ \A k \in Deleting : k \in Kinds
      /\ "delete" \in Deleting /\ "backup" \in Kinds /\ "publish" \in Steps
      /\ "restore" \in Kinds /\ "safety" \in Steps
      /\ "backup" \notin Deleting /\ "restore" \notin Deleting
      /\ "backup" \in Snapshotting /\ "restore" \in Snapshotting /\ "restore" \in Restoring
  BY DEF FilesType, VaultType, DeletionNamed, Steps, Kinds, Deleting, Snapshotting, Restoring
<1>1. CASE PublishBackup \/ SafetyBackup
  <2>1. /\ op.kind \in Snapshotting /\ UNCHANGED <<deletion, quarantine>>
        /\ backups' = backups \/ \E b \in Backups : Snapshot(b)
    BY <1>0, <1>1 DEF PublishBackup, SafetyBackup, deletionVars
  <2>2. deletion.phase # "none" =>
          (backups'[deletion.backup] # NoTree <=> backups[deletion.backup] # NoTree)
    BY <1>0, <2>1 DEF Snapshot, Unused
  <2> QED BY <2>1, <2>2, NotDeleting, DeletionKept
<1>2. CASE PrepareRestore \/ RefuseRestore \/ PassReview \/ MoveInFails \/ CollectedForSnapshot
  <2>1. op.kind \in Snapshotting /\ UNCHANGED <<deletion, quarantine, backups>>
    BY <1>0, <1>2 DEF PrepareRestore, RefuseRestore, PassReview, MoveInFails,
                      CollectedForSnapshot, deletionVars, backupVars
  <2> QED BY <2>1, NotDeleting, DeletionKept
<1>3. CASE RestoreOn
  <2>1. op.kind \in Restoring /\ UNCHANGED <<deletion, quarantine, backups>>
    BY <1>3 DEF RestoreOn, MoveAside, MoveIn, RecordPublished, SyncNext, SyncEntry, ClearMarker,
                CommitRestore, RemovePrevious, RetireRestore, deletionVars, backupVars
  <2> QED BY <2>1, NotDeleting, DeletionKept
<1>4. CASE RecoverRestore
  <2>1. UNCHANGED <<deletion, quarantine, backups>>
    BY <1>4 DEF RecoverRestore, backupVars
  <2> QED BY <1>4, <2>1, RecoverRestoreIsNoDeletion, DeletionKept
<1>5. CASE BeginBackup \/ \E b \in Backups : BeginRestore(b)
  <2>1. UNCHANGED <<deletion, quarantine, backups>>
    BY <1>5 DEF BeginBackup, BeginRestore, backupVars
  <2>2. op'.kind = "backup" \/ op'.kind = "restore"
    <3>1. CASE BeginBackup
      <4>1. op' = CollectFirst("backup", "publish", None)
        BY <3>1 DEF BeginBackup
      <4> QED BY <1>0, <4>1, BackupBegins
    <3>2. CASE \E b \in Backups : BeginRestore(b)
      <4> DEFINE c == CollectFirst("restore", "safety", None)
      <4>1. PICK b \in Backups : op' = [c EXCEPT !.backup = b]
        BY <3>2 DEF BeginRestore
      <4>2. c \in CommandType /\ c.kind = "restore"
        <5>1. active \in Places /\ None \in Places
          BY DEF PointersTyped, Places
        <5> QED BY <1>0, <5>1, CollectFirstKind
      <4> HIDE DEF c
      <4> QED BY <4>1, <4>2 DEF CommandType
    <3> QED BY <1>5, <3>1, <3>2
  <2> QED BY <1>0, <2>1, <2>2, DeletionKept
<1>6. CASE BackupFails
  <2>1. op' = Idle /\ UNCHANGED <<deletion, quarantine, backups>>
    BY <1>6 DEF BackupFails, backupVars
  <2>2. op'.kind \notin Deleting
    BY <2>1, IdleFields DEF Deleting
  <2> QED BY <2>1, <2>2, DeletionKept
<1>7. CASE \E b \in Backups : BeginDelete(b)
  <2>1. PICK b \in Backups :
          /\ Lockable /\ deletion.phase = "none" /\ backups[b] # NoTree
          /\ deletion' = [phase |-> "prepared", backup |-> b]
          /\ op' = Command("delete", "quarantine") /\ UNCHANGED <<backups, quarantine>>
    BY <1>7 DEF BeginDelete, NoDeletionPending
  <2>2. op'.kind = "delete" /\ op'.step = "quarantine"
    BY <1>0, <2>1, CommandFields
  <2>3. deletion'.phase = "prepared" /\ Visible' /\ quarantine' = NoTree
    BY <2>1 DEF Visible, DeletionJournal
  <2> QED BY <2>2, <2>3 DEF DeletionJournal, DeletionCommand, Visible
<1>8. CASE QuarantineBackup
  <2>1. /\ op.kind \in Deleting /\ op.step = "quarantine" /\ op' = Then("record")
        /\ quarantine' = backups[deletion.backup]
        /\ backups' = [backups EXCEPT ![deletion.backup] = NoTree] /\ UNCHANGED deletion
    BY <1>8 DEF QuarantineBackup
  <2>2. deletion.phase = "prepared" /\ backups[deletion.backup] # NoTree
    BY <2>1 DEF DeletionCommand, Visible
  <2>3. op'.kind = op.kind /\ op'.step = "record"
    BY <1>0, <2>1, ThenFields
  <2>4. backups'[deletion'.backup] = NoTree /\ quarantine' # NoTree /\ deletion'.phase = "prepared"
    BY <1>0, <2>1, <2>2
  <2> QED BY <2>3, <2>4 DEF DeletionJournal, DeletionCommand, Visible
<1>9. CASE RecordQuarantined
  <2>1. /\ op.kind \in Deleting /\ op.step = "record" /\ op' = Then("remove")
        /\ deletion' = [deletion EXCEPT !.phase = "quarantined"]
        /\ UNCHANGED <<backups, quarantine>>
    BY <1>9 DEF RecordQuarantined
  <2>2. backups[deletion.backup] = NoTree
    BY <2>1 DEF DeletionCommand, Visible
  <2>3. op'.kind = op.kind /\ op'.step = "remove"
    BY <1>0, <2>1, ThenFields
  <2>4. deletion'.phase = "quarantined" /\ deletion'.backup = deletion.backup
    BY <1>0, <2>1 DEF DeletionType
  <2>5. backups'[deletion'.backup] = NoTree
    BY <2>1, <2>2, <2>4
  <2> QED BY <2>3, <2>4, <2>5 DEF DeletionJournal, DeletionCommand, Visible
<1>10. CASE RemoveQuarantined
  <2>1. /\ op.kind \in Deleting /\ op.step = "remove" /\ op' = Then("retire")
        /\ \/ /\ deletion.phase = "quarantined" /\ quarantine' = NoTree
              /\ deletion' = [deletion EXCEPT !.phase = "deleted"]
           \/ deletion.phase # "quarantined" /\ UNCHANGED <<deletion, quarantine>>
        /\ UNCHANGED backups
    BY <1>10 DEF RemoveQuarantined, deletionVars
  <2>2. deletion.phase \in {"quarantined", "deleted"}
    BY <2>1 DEF DeletionCommand
  <2>3. op'.kind = op.kind /\ op'.step = "retire"
    BY <1>0, <2>1, ThenFields
  <2>4. backups[deletion.backup] = NoTree /\ (deletion.phase = "deleted" => quarantine = NoTree)
    BY <2>2 DEF DeletionJournal, Visible
  <2>5. deletion'.phase = "deleted" /\ deletion'.backup = deletion.backup /\ quarantine' = NoTree
    BY <1>0, <2>1, <2>2, <2>4 DEF DeletionType
  <2>6. backups'[deletion'.backup] = NoTree
    BY <2>1, <2>4, <2>5
  <2> QED BY <2>3, <2>5, <2>6 DEF DeletionJournal, DeletionCommand, Visible
<1>11. CASE RetireDeletion
  <2>1. /\ op.kind \in Deleting /\ op.step = "retire" /\ op' = Idle
        /\ deletion' = NoDeletion /\ UNCHANGED quarantine
    BY <1>11 DEF RetireDeletion
  <2>2. deletion.phase = "deleted"
    BY <2>1 DEF DeletionCommand
  <2>3. quarantine' = NoTree /\ deletion'.phase = "none"
    BY <2>1, <2>2 DEF DeletionJournal, NoDeletion
  <2>4. op'.kind \notin Deleting
    BY <2>1, IdleFields DEF Deleting
  <2> QED BY <2>3, <2>4 DEF DeletionJournal, DeletionCommand
<1>12. CASE RecoverDeletion
  <2>1. UNCHANGED <<deletion, quarantine, backups>>
    BY <1>12 DEF RecoverDeletion, backupVars
  <2>2. DeletionJournal'
    BY <2>1 DEF DeletionJournal, Visible
  <2>3. \E k \in Deleting :
          \/ op' = Command(k, "quarantine") /\ deletion.phase = "prepared" /\ Visible
          \/ op' = Command(k, "record") /\ deletion.phase = "prepared" /\ ~Visible
          \/ op' = Command(k, "remove") /\ deletion.phase \in {"quarantined", "deleted"}
    BY Zenon, <1>12 DEF RecoverDeletion, Deleting, Visible
  <2>4. /\ op'.step \in {"quarantine", "record", "remove"}
        /\ op'.step = "quarantine" => deletion.phase = "prepared" /\ Visible
        /\ op'.step = "record" => deletion.phase = "prepared" /\ ~Visible
        /\ op'.step = "remove" => deletion.phase \in {"quarantined", "deleted"}
    BY <1>0, <2>3, CommandFields
  <2> QED BY <2>1, <2>2, <2>4 DEF DeletionCommand, Visible
<1> QED
  BY <1>1, <1>2, <1>3, <1>4, <1>5, <1>6, <1>7, <1>8, <1>9, <1>10, <1>11, <1>12 DEF BackupNext

-----------------------------------------------------------------------------
(* The theorem.                                                             *)

\* The journals say what the directories hold, at every step.
THEOREM JournalsHold == Spec => []Journals
<1>1. Init => Journals
  <2> SUFFICES ASSUME Init PROVE Journals
    OBVIOUS
  <2>1. /\ restore = NoRestore /\ stagedData = NoTree /\ previousData = NoTree
        /\ deletion = NoDeletion /\ quarantine = NoTree /\ op = Idle
    BY DEF Init
  <2>2. op.kind = "none" /\ op.step = "none"
    BY <2>1, IdleFields
  <2>3. RestoreJournal /\ DeletionJournal
    BY <2>1 DEF RestoreJournal, DeletionJournal, NoRestore, NoDeletion
  <2>4. RestoreCommand /\ DeletionCommand
    BY <2>2 DEF RestoreCommand, DeletionCommand, Restoring, Deleting
  <2> QED BY <2>3, <2>4 DEF Journals
<1>2. PlayerInvariant /\ Journals /\ [Next]_vars => Journals'
  <2> SUFFICES ASSUME PlayerInvariant, Journals, [Next]_vars PROVE Journals'
    OBVIOUS
  <2> USE DEF PlayerInvariant, Journals
  <2>1. CASE BackupNext
    BY <2>1, BackupKeepsTheRestore, BackupKeepsTheDeletion
  <2>2. CASE ~BackupNext
    BY <2>2, OthersKeepTheRestore, OthersKeepTheDeletion
  <2> QED BY <2>1, <2>2
<1> QED BY <1>1, <1>2, PlayerInvariantHolds, PTL DEF Spec

\* Whatever a crash leaves, the next start knows how to go on: recover_restore and
\* recover_backup_deletion never meet a combination of journal and directories that
\* they refuse as ambiguous.
THEOREM JournalsAreRecoverableHolds == Spec => []JournalsAreRecoverable
<1>1. PlayerInvariant /\ Journals => JournalsAreRecoverable
  <2> SUFFICES ASSUME PlayerInvariant, Journals PROVE JournalsAreRecoverable
    OBVIOUS
  <2>1. restore \in RestoreType
    BY DEF PlayerInvariant, FilesType, VaultType
  <2>2. restore.phase = "prepared" => PublicationStep # "none"
    BY <2>1, PublicationStepIs DEF Journals, RestoreJournal
  <2> QED
    BY <2>2 DEF Journals, RestoreJournal, DeletionJournal, Visible, JournalsAreRecoverable
<1> QED BY <1>1, PlayerInvariantHolds, JournalsHold, PTL

-----------------------------------------------------------------------------
(* The progress of the player.  While no game runs and no restore is under  *)
(* way, a save may be in two places: in the version that ran and in the     *)
(* canonical directory.  What keeps it from being lost is how far the two   *)
(* are known to agree at each step of a command.                            *)

\* While no game was started, a command collects from the active version, and the
\* entries it has collected are what that version holds.
CollectedAgrees ==
    op.step = "collect" /\ session.child = "none" =>
      /\ active \in launched /\ op.at = active
      /\ \A e \in Entries \ op.left : data[active][e] = At(user)[e]

\* A command past its collection finds the canonical saves to be the current ones.
Settled == {"provide", "close", "spawn", "publish", "safety", "prepare", "review"}
SettledAgrees == op.step \in Settled /\ active \in launched => data[active] = At(user)

\* A version provided with the saves holds every one the player has, and where it
\* had been launched, nothing else.
Receiver == IF op.kind = "launch" THEN session.install ELSE Target(op.kind)
Holds(i, e) == i \in launched \/ At(user)[e] # 0 => data[i][e] = At(user)[e]
ProvidedAgrees ==
    /\ op.step = "provide" =>
         /\ op.at = Receiver
         /\ \A e \in Entries \ op.left : Holds(op.at, e)
    /\ op.step \in {"close", "spawn"} => \A e \in Entries : Holds(session.install, e)

\* A session is one of the active version.
SessionIsActive == session.phase # "none" => session.install = active

\* The saves a restore will replace are empty or in a backup.
SafetyCopied ==
    op.step = "prepare" => At(user) = Empty \/ \E c \in Backups : backups[c] = At(user)

\* A restored version is not taken for one that ran.
MarkersCleared ==
    op.kind \in Restoring =>
      /\ op.step = "sync" => launched \subseteq op.todo \cup {op.at}
      /\ op.step \in {"clean", "retire"} => launched = {}

Agreement ==
    /\ CollectedAgrees /\ SettledAgrees /\ ProvidedAgrees
    /\ SessionIsActive /\ SafetyCopied /\ MarkersCleared

\* While a game runs or has run, no command but its own is under way, and that one
\* is past its preparation.
LEMMA Awake ==
    ASSUME Control
    PROVE  /\ op.kind \in OtherKinds => session = NoSession /\ session.child = "none"
           /\ op.step \in Settled => session.child = "none"
           /\ op.kind = "none" => op = Idle /\ op.step = "none"
<1> USE DEF Control, RowKept
<1>1. op.kind \in OtherKinds => session = NoSession /\ session.child = "none"
  BY NoSessionFields DEF KindsAndSessions, OtherKinds
<1>2. op.kind = "none" => op = Idle /\ op.step = "none"
  BY IdleFields DEF KindsAndSessions
<1>3. op.kind \in {"launch", "recover launch", "none"} \/ op.kind \in OtherKinds
  BY DEF OtherKinds, CommandType, SessionKinds
<1>4. op.kind = "launch" /\ op.step \in Settled => session.child = "none"
  BY DEF RowFollowsLaunch, Settled
<1>5. op.kind = "recover launch" => op.step \notin Settled
  BY DEF RowFollowsLaunch, Settled
<1> QED BY <1>1, <1>2, <1>3, <1>4, <1>5 DEF Settled

\* Two directories with the same entries are the same.
LEMMA SameTree ==
    ASSUME SavesType, NEW i \in Installs, \A e \in Entries : data[i][e] = At(user)[e]
    PROVE  data[i] = At(user)
<1>1. At(user) \in Trees /\ data[i] \in Trees
  BY AtIsATree DEF SavesType
<1> QED BY <1>1 DEF Trees

-----------------------------------------------------------------------------
(* How the agreement is kept.                                               *)

\* A step to where nothing is asked.
LEMMA PlainStep ==
    ASSUME SessionIsActive', op'.step # "collect", op'.step \notin Settled,
           op'.kind \notin Restoring \/ op'.step \notin {"sync", "clean", "retire"}
    PROVE  Agreement'
BY DEF Agreement, CollectedAgrees, SettledAgrees, ProvidedAgrees, SafetyCopied, MarkersCleared,
       Settled

\* The command ends or dies.
LEMMA IdleStep ==
    ASSUME SessionIsActive', op' = Idle
    PROVE  Agreement'
<1>1. op'.step = "none" /\ op'.kind = "none"
  BY IdleFields
<1> QED BY <1>1, PlainStep DEF Settled, Restoring

\* A command begins: it collects, or there is nothing to collect.
LEMMA BeginStep ==
    ASSUME SessionIsActive', UNCHANGED <<user, data, launched, active>>,
           op'.left = Entries,
           active \in launched => op'.step = "collect" /\ op'.at = active,
           active \notin launched =>
             \/ op'.step = "provide" /\ op'.at = Receiver'
             \/ op'.step \in {"publish", "safety"}
    PROVE  Agreement'
<1>1. CASE active \in launched
  BY <1>1 DEF Agreement, CollectedAgrees, SettledAgrees, ProvidedAgrees, SafetyCopied,
              MarkersCleared, Settled
<1>2. CASE active \notin launched
  BY <1>2 DEF Agreement, CollectedAgrees, SettledAgrees, ProvidedAgrees, SafetyCopied,
              MarkersCleared, Settled
<1> QED BY <1>1, <1>2

\* What was collected is all of it.
LEMMA AllCollected ==
    ASSUME Control, SavesType, CollectedAgrees, Copied("collect"), session.child = "none"
    PROVE  data[active] = At(user)
<1>1. \A e \in Entries : data[active][e] = At(user)[e]
  BY DEF CollectedAgrees, Copied
<1> QED BY <1>1, SameTree DEF Control, PointersTyped

\* A command goes on with the collected saves.
LEMMA SettledStep ==
    ASSUME SessionIsActive', UNCHANGED <<user, data, launched, active>>,
           active \in launched => data[active] = At(user),
           \/ op'.step = "provide" /\ op'.at = Receiver' /\ op'.left = Entries
           \/ op'.step \in {"publish", "safety", "review"}
    PROVE  Agreement'
BY DEF Agreement, CollectedAgrees, SettledAgrees, ProvidedAgrees, SafetyCopied,
       MarkersCleared, Settled

\* A step of the session while its game runs or has run.
LEMMA AwakeStep ==
    ASSUME Control, Agreement, SessionIsActive', op' = op,
           session.child # "none", session'.child # "none"
    PROVE  Agreement'
<1>1. op.step \notin Settled /\ op.kind \notin Restoring
  BY Awake DEF OtherKinds, Restoring, Kinds, SessionKinds
<1> QED BY <1>1 DEF Agreement, CollectedAgrees, SettledAgrees, ProvidedAgrees, SafetyCopied,
                    MarkersCleared, Settled

\* A step that leaves all of it alone.
LEMMA AgreementKept ==
    ASSUME Agreement, UNCHANGED <<op, user, data, launched, backups>>,
           UNCHANGED <<active, previous, staged, activation>>,
           UNCHANGED <<session.child, session.phase, session.install>>
    PROVE  Agreement'
BY DEF Agreement, CollectedAgrees, SettledAgrees, ProvidedAgrees, SafetyCopied, MarkersCleared,
       SessionIsActive, Receiver, Target, Holds

\* A session is begun for the active version, and moves no version.
LEMMA SessionIsActiveStep ==
    ASSUME Control, SessionIsActive, [Next]_vars
    PROVE  SessionIsActive'
<1> USE DEF Control, RowKept
<1>1. CASE CollectEntry \/ ProvideEntry \/ Crash \/ UNCHANGED vars
  BY <1>1 DEF CollectEntry, ProvideEntry, Crash, vars, versionVars, sessionVars, SessionIsActive
<1>2. CASE SwitchNext \/ BackupNext
  <2>1. OtherStep /\ CopiesHaveAPlace' /\ UNCHANGED session
    BY <1>2, SwitchStep, BackupStep DEF BackupGoal, VersionsKept, sessionVars
  <2>2. session' = NoSession
    BY <2>1, OtherStepKeepsTheRow
  <2> QED BY <2>2, NoSessionFields DEF SessionIsActive
<1>3. CASE LaunchNext
  <2>1. UNCHANGED active
    BY <1>3, LaunchStep DEF RowContext, versionVars, PointersTyped
  <2>2. \/ session'.phase = "none" \/ session'.install = active
        \/ session.phase # "none" /\ session'.install = session.install
    <3>0. /\ op.kind = "launch" \/ op.kind = "recover launch" => session.phase # "none"
          /\ session.child # "none" => session.phase # "none"
          /\ \A p \in Phases : InPhase(p).install = session.install
          /\ \A c \in {"none", "alive", "gone"} : WithChild(c).install = session.install
          /\ {"spawning", "running", "collecting"} \subseteq Phases
      BY NoSessionFields, InPhaseFields, WithChildFields
         DEF KindsAndSessions, SessionKinds, Phases
    <3>1. CASE AcceptLaunch
      BY <3>1, NoSessionFields DEF AcceptLaunch, SessionType, PointersTyped, Places
    <3>2. CASE GiveUpPreparing \/ Finish \/ RecoverPreparing
      BY <3>0, <3>2, NoSessionFields DEF GiveUpPreparing, Finish, RecoverPreparing, Close
    <3>3. CASE ProvideForLaunch \/ WriteMarker \/ LeaveUncertain \/ FinishCollecting
               \/ RecoverLaunch \/ RecoverFails
      BY <3>0, <3>3 DEF ProvideForLaunch, WriteMarker, LeaveUncertain, FinishCollecting,
                        RecoverLaunch, RecoverFails, Leave, sessionVars
    <3>4. CASE RecordSpawning \/ RecordChild \/ GameEnded \/ RecoverEnded
      <4>1. session' = session \/ \E p \in {"spawning", "running", "collecting"} : session' = InPhase(p)
        BY <3>4 DEF RecordSpawning, RecordChild, GameEnded, RecoverEnded
      <4>2. op.kind = "launch" \/ op.kind = "recover launch"
        BY <3>4 DEF RecordSpawning, RecordChild, GameEnded, RecoverEnded
      <4> QED BY <3>0, <4>1, <4>2
    <3>5. CASE Spawn \/ KillUnrecorded \/ GameExits
      BY <3>0, <3>5 DEF Spawn, KillUnrecorded, GameExits
    <3>6. CASE CloseWindow \/ RequestCancel
      <4>1. session.phase # "none"
        BY <3>0, <3>6 DEF CloseWindow, RequestCancel
      <4>2. \/ session' = [session EXCEPT !.window = "closed"]
            \/ session' = [session EXCEPT !.asked = TRUE]
        BY <3>6 DEF CloseWindow, RequestCancel
      <4> QED BY <4>1, <4>2 DEF SessionType
    <3>7. CASE GameWrites
      BY <3>0, <3>7 DEF GameWrites
    <3> QED BY <1>3, <3>1, <3>2, <3>3, <3>4, <3>5, <3>6, <3>7
               DEF LaunchNext, Supervise, RecoverSession
  <2> QED BY <2>1, <2>2 DEF SessionIsActive
<1> QED BY <1>1, <1>2, <1>3 DEF Next

\* One more entry collected or provided.
LEMMA EntryAgrees ==
    ASSUME Control, SavesType, Agreement, CollectEntry \/ ProvideEntry, SessionIsActive'
    PROVE  Agreement'
<1> USE DEF Control, RowKept, Agreement
<1>1. CASE CollectEntry
  <2>1. PICK e \in op.left :
          /\ user' = IF user = NoTree /\ data[op.at][e] = 0
                     THEN NoTree ELSE [At(user) EXCEPT ![e] = data[op.at][e]]
          /\ op' = Without(e)
    BY <1>1 DEF CollectEntry
  <2>2. /\ op.step = "collect" /\ UNCHANGED <<data, launched, active, session>>
    BY <1>1 DEF CollectEntry, sessionVars, versionVars
  <2>3. op.at \in Installs
    BY <2>1, <2>2 DEF CopiesHaveAPlace
  <2>4. \A f \in Entries : At(user')[f] = IF f = e THEN data[op.at][e] ELSE At(user)[f]
    BY <1>1, <2>1, <2>3, CollectsAnEntry
  <2>5. /\ op'.kind = op.kind /\ op'.step = "collect" /\ op'.left = op.left \ {e}
        /\ op'.at = op.at
    BY <2>1, <2>2, WithoutFields
  <2>6. CollectedAgrees'
    BY <2>2, <2>4, <2>5 DEF CollectedAgrees
  <2> QED BY <2>5, <2>6
             DEF SettledAgrees, ProvidedAgrees, SafetyCopied, MarkersCleared, Settled
<1>2. CASE ProvideEntry
  <2>1. PICK e \in op.left :
          /\ data' = IF At(user)[e] = 0 /\ op.at \notin launched
                     THEN data ELSE [data EXCEPT ![op.at][e] = At(user)[e]]
          /\ op' = Without(e)
    BY <1>2 DEF ProvideEntry
  <2>2. /\ op.step = "provide" /\ UNCHANGED <<user, launched, session>>
        /\ UNCHANGED <<active, previous, staged, activation>>
    BY <1>2 DEF ProvideEntry, sessionVars, versionVars
  <2>3. op.at \in Installs /\ e \in Entries /\ At(user) \in Trees
    BY <2>1, <2>2, AtIsATree DEF CopiesHaveAPlace, SavesType, CommandType, EntrySets
  <2>4. /\ op'.kind = op.kind /\ op'.step = "provide" /\ op'.left = op.left \ {e}
        /\ op'.at = op.at
    BY <2>1, <2>2, WithoutFields
  <2>5. \A i \in Installs, f \in Entries :
          data'[i][f] = IF i = op.at /\ f = e /\ (At(user)[e] # 0 \/ op.at \in launched)
                        THEN At(user)[e] ELSE data[i][f]
    BY <2>1, <2>3 DEF SavesType, Trees
  <2>6. SettledAgrees'
    <3>1. SUFFICES ASSUME active \in launched PROVE data'[active] = At(user)
      BY <2>2 DEF SettledAgrees
    <3>2. data[active] = At(user)
      BY <2>2, <3>1 DEF SettledAgrees, Settled
    <3>3. \A f \in Entries : data'[active][f] = At(user)[f]
      BY <2>3, <2>5, <3>2 DEF PointersTyped
    <3>4. data' \in [Installs -> Trees]
      BY EntryFiles DEF SavesType
    <3> QED BY <2>3, <3>3, <3>4 DEF Trees, PointersTyped
  <2>7. ProvidedAgrees'
    <3>1. op'.at = Receiver'
      BY <2>2, <2>4 DEF ProvidedAgrees, Receiver, Target
    <3>2. \A f \in Entries \ op.left : Holds(op.at, f)
      BY <2>2 DEF ProvidedAgrees
    <3>3. ASSUME NEW f \in Entries \ op'.left PROVE Holds(op.at, f)'
      <4>1. f = e \/ Holds(op.at, f)
        BY <2>4, <3>2, <3>3
      <4> QED BY <2>2, <2>3, <2>4, <2>5, <4>1 DEF Holds
    <3> QED BY <2>4, <3>1, <3>3 DEF ProvidedAgrees
  <2> QED BY <2>4, <2>6, <2>7 DEF CollectedAgrees, SafetyCopied, MarkersCleared
<1> QED BY <1>1, <1>2

\* The steps of a launch, of its recovery, of a cancel request and of the game.
LEMMA LaunchAgrees ==
    ASSUME Control, SavesType, CollectedSoFar, Agreement, LaunchNext, SessionIsActive'
    PROVE  Agreement'
<1> USE DEF Control, RowKept
<1>0. /\ "collect" \in Steps /\ "provide" \in Steps /\ "close" \in Steps
      /\ "spawn" \in Steps /\ "identify" \in Steps /\ "mark" \in Steps
      /\ "wait" \in Steps /\ "finish" \in Steps
      /\ "launch" \in Kinds /\ "recover launch" \in Kinds
      /\ "spawning" \in Phases /\ "running" \in Phases /\ "collecting" \in Phases
      /\ active \in Places
  BY DEF Steps, Kinds, Phases, Places, PointersTyped
<1>plain. /\ \A s \in {"identify", "mark", "wait", "finish"} : s \notin Settled /\ s # "collect"
          /\ "launch" \notin Restoring
  BY DEF Restoring, Settled
<1>1. UNCHANGED <<active, previous, staged, activation, restore, backups>>
  BY LaunchStep DEF RowContext, versionVars, backupVars, PointersTyped
<1>row. op.kind = "launch" => session.phase # "none" /\ session.install = active
  BY DEF KindsAndSessions, SessionKinds, Agreement, SessionIsActive
<1>2. CASE AcceptLaunch
  <2>1. /\ op' = CollectFirst("launch", "provide", active)
        /\ session' = [NoSession EXCEPT !.phase = "preparing", !.install = active]
        /\ UNCHANGED <<user, data, launched>>
    BY <1>2 DEF AcceptLaunch, copyVars
  <2>2. session'.install = active
    BY <1>0, <2>1, NoSessionFields DEF SessionType
  <2>3. /\ op'.kind = "launch" /\ op'.left = Entries
        /\ active \in launched => op'.step = "collect" /\ op'.at = active
        /\ active \notin launched => op'.step = "provide" /\ op'.at = active
    <3>1. "launch" \in Kinds /\ "provide" \in Steps /\ active \in Places
      BY <1>0
    <3> QED BY <2>1, <3>1, CollectFirstFields
  <2> QED BY <1>1, <2>1, <2>2, <2>3, BeginStep DEF Receiver
<1>3. CASE GiveUpPreparing \/ LeaveUncertain \/ Finish \/ RecoverFails \/ RecoverPreparing
  <2>1. op' = Idle
    BY <1>3 DEF GiveUpPreparing, LeaveUncertain, Finish, RecoverFails, RecoverPreparing,
                Leave, LockFree
  <2> QED BY <2>1, IdleStep
<1>4. CASE ProvideForLaunch
  <2>1. /\ op.kind = "launch" /\ session.phase = "preparing" /\ Copied("collect")
        /\ op' = Copying("provide", session.install)
        /\ UNCHANGED <<user, data, launched, session>>
    BY <1>4 DEF ProvideForLaunch, copyVars, sessionVars
  <2>2. session.child = "none"
    BY <2>1 DEF RowFollowsLaunch
  <2>3. data[active] = At(user)
    BY <2>1, <2>2, AllCollected DEF Agreement
  <2>4. /\ op'.kind = "launch" /\ op'.step = "provide" /\ op'.left = Entries
        /\ op'.at = session.install
    <3>1. "provide" \in Steps /\ session.install \in Places
      BY <1>0, <1>row, <2>1
    <3> QED BY <2>1, <3>1, CopyingFields
  <2> QED BY <1>1, <2>1, <2>3, <2>4, SettledStep DEF Receiver
<1>5. CASE CloseWindow
  <2>1. /\ op.kind = "launch" /\ op.step = "provide" /\ op.left = {}
        /\ session' = [session EXCEPT !.window = "closed"] /\ op' = Then("close")
        /\ UNCHANGED <<user, data, launched>>
    BY <1>5 DEF CloseWindow, Copied, copyVars
  <2>2. session'.install = session.install
    BY <2>1 DEF SessionType
  <2>3. op'.kind = "launch" /\ op'.step = "close"
    BY <1>0, <2>1, ThenFields
  <2>4. \A e \in Entries : Holds(session.install, e)
    BY <2>1 DEF Agreement, ProvidedAgrees, Receiver
  <2>5. ProvidedAgrees'
    BY <2>1, <2>2, <2>3, <2>4 DEF ProvidedAgrees, Holds
  <2>6. SettledAgrees'
    BY <1>1, <2>1, <2>3 DEF Agreement, SettledAgrees, Settled
  <2> QED BY <1>plain, <2>3, <2>5, <2>6 DEF Agreement, CollectedAgrees, SafetyCopied, MarkersCleared
<1>6. CASE RecordSpawning
  <2>1. /\ op.kind = "launch" /\ op.step = "close" /\ op' = Then("spawn")
        /\ session' = InPhase("spawning") /\ UNCHANGED <<user, data, launched>>
    BY <1>6 DEF RecordSpawning, copyVars
  <2>2. session'.install = session.install
    BY <1>0, <2>1, InPhaseFields
  <2>3. op'.kind = "launch" /\ op'.step = "spawn"
    BY <1>0, <2>1, ThenFields
  <2>4. ProvidedAgrees'
    BY <2>1, <2>2, <2>3 DEF Agreement, ProvidedAgrees, Holds
  <2>5. SettledAgrees'
    BY <1>1, <2>1, <2>3 DEF Agreement, SettledAgrees, Settled
  <2> QED BY <1>plain, <2>3, <2>4, <2>5 DEF Agreement, CollectedAgrees, SafetyCopied, MarkersCleared
<1>7. CASE Spawn \/ RecordChild \/ KillUnrecorded \/ FinishCollecting
  <2>1. \E s \in {"identify", "mark", "finish"} : op' = Then(s)
    BY <1>7 DEF Spawn, RecordChild, KillUnrecorded, FinishCollecting
  <2>2. op'.step \in {"identify", "mark", "finish"}
    BY <1>0, <2>1, ThenFields
  <2> QED BY <1>plain, <2>2, PlainStep
<1>8. CASE WriteMarker
  <2>1. op' = Then("wait") \/ op' = Failing(Then("wait"))
    BY <1>8 DEF WriteMarker
  <2>2. op'.step = "wait"
    <3>1. "wait" \in Steps
      BY <1>0
    <3> QED BY <2>1, <3>1, ThenFields, FailingFields
  <2> QED BY <1>plain, <2>2, PlainStep
<1>9. CASE GameEnded \/ RecoverEnded
  <2>1. /\ session.child = "gone" /\ (session' = session \/ session' = InPhase("collecting"))
        /\ \/ op' = Copying("collect", session.install)
           \/ op' = Failing(Copying("collect", session.install))
    BY <1>9 DEF GameEnded, RecoverEnded
  <2>2. session'.child = "gone"
    <3>1. "collecting" \in Phases
      BY <1>0
    <3> QED BY <2>1, <3>1, InPhaseFields
  <2>3. session.install \in Places

    BY DEF SessionType
  <2>4. op'.step = "collect"
    <3>1. "collect" \in Steps
      BY <1>0
    <3> QED BY <2>1, <2>3, <3>1, CopyingFields, FailingFields
  <2> QED BY <2>2, <2>4 DEF Agreement, CollectedAgrees, SettledAgrees, ProvidedAgrees,
                            SafetyCopied, MarkersCleared, Settled
<1>10. CASE RecoverLaunch
  <2>1. /\ session.phase \in {"running", "collecting"} /\ session' = session
        /\ \/ op' = Command("recover launch", "wait")
           \/ op' = On(Command("recover launch", "collect"), session.install)
    BY <1>10 DEF RecoverLaunch, sessionVars
  <2>2. session'.child # "none"
    BY <2>1 DEF RowFollowsLaunch
  <2>3. session.install \in Places
    BY DEF SessionType
  <2>4. op'.step \in {"wait", "collect"}
    <3>1. "recover launch" \in Kinds /\ "wait" \in Steps /\ "collect" \in Steps
      BY <1>0
    <3>2. Command("recover launch", "wait").step = "wait"
      BY <3>1, CommandFields
    <3>3. On(Command("recover launch", "collect"), session.install).step = "collect"
      <4> DEFINE c == Command("recover launch", "collect")
      <4>1. c \in CommandType /\ c.step = "collect"
        BY <3>1, CommandFields
      <4> HIDE DEF c
      <4>2. On(c, session.install).step = "collect"
        BY <2>3, <4>1, OnFields
      <4> QED BY <4>2 DEF c
    <3> QED BY <2>1, <3>2, <3>3
  <2> QED BY <2>2, <2>4 DEF Agreement, CollectedAgrees, SettledAgrees, ProvidedAgrees,
                            SafetyCopied, MarkersCleared, Settled
<1>11. CASE RequestCancel
  <2>1. /\ op' = op /\ session' = [session EXCEPT !.asked = TRUE]
        /\ UNCHANGED <<user, data, launched>>
    BY <1>11 DEF RequestCancel, copyVars
  <2>2. UNCHANGED <<session.child, session.phase, session.install>>
    BY <2>1 DEF SessionType
  <2> QED BY <1>1, <2>1, <2>2, AgreementKept
<1>12. CASE GameWrites \/ GameExits
  <2>1. op' = op /\ session.child = "alive" /\ (session' = session \/ session' = WithChild("gone"))
    BY <1>12 DEF GameWrites, GameExits
  <2>2. session'.child # "none"
    BY <2>1, WithChildFields
  <2> QED BY <2>1, <2>2, AwakeStep
<1> QED BY <1>2, <1>3, <1>4, <1>5, <1>6, <1>7, <1>8, <1>9, <1>10, <1>11, <1>12
           DEF LaunchNext, Supervise, RecoverSession

\* The steps of a version switch.
LEMMA SwitchAgrees ==
    ASSUME Control, SavesType, Agreement, SwitchNext, SessionIsActive'
    PROVE  Agreement'
<1> USE DEF Control, RowKept
<1>0. /\ "collect" \in Steps /\ "provide" \in Steps /\ "retire" \in Steps
      /\ \A k \in Switching : k \in Kinds /\ k \notin Restoring /\ k # "launch"
      /\ active \in Places
      /\ previous \in Places /\ staged \in Places /\ activation \in Places
      /\ "retire" \notin Settled /\ "retire" # "collect"
  BY DEF Steps, Kinds, Places, PointersTyped, Restoring, Settled, Switching
<1>1. UNCHANGED <<user, data, launched>>
  BY SwitchStep DEF copyVars
<1>2. ASSUME NEW k \in Switching, NEW i \in Places, op' = CollectFirst(k, "provide", i),
             i = Target(k)', UNCHANGED active
      PROVE  Agreement'
  <2>1. k \in Kinds /\ "provide" \in Steps
    BY <1>0
  <2>2. /\ op'.kind = k /\ op'.left = Entries
        /\ active \in launched => op'.step = "collect" /\ op'.at = active
        /\ active \notin launched => op'.step = "provide" /\ op'.at = i
    BY <1>0, <1>2, <2>1, CollectFirstFields
  <2>3. Receiver' = i
    BY <1>0, <1>2, <2>2 DEF Receiver, Target
  <2> QED BY <1>1, <1>2, <2>2, <2>3, BeginStep
<1>3. CASE BeginRollback
  <2>1. op' = CollectFirst("rollback", "provide", previous) /\ UNCHANGED <<active, previous>>
    BY <1>3 DEF BeginRollback, versionVars
  <2>2. previous = Target("rollback")' /\ "rollback" \in Switching
    BY <2>1 DEF Target, Switching
  <2> QED BY <1>0, <1>2, <2>1, <2>2
<1>4. CASE BeginActivation
  <2>1. /\ op' = CollectFirst("activate", "provide", staged) /\ activation' = staged
        /\ UNCHANGED active
    BY <1>4 DEF BeginActivation
  <2>2. staged = Target("activate")' /\ "activate" \in Switching
    BY <2>1 DEF Target, Switching
  <2> QED BY <1>0, <1>2, <2>1, <2>2
<1>5. CASE ProvideToTarget
  <2>1. /\ op.kind \in Switching /\ Copied("collect")
        /\ op' = Copying("provide", Target(op.kind))
        /\ UNCHANGED <<active, previous, activation>>
    BY <1>5 DEF ProvideToTarget, versionVars
  <2>2. session.child = "none"
    BY <2>1, Awake DEF Switching, OtherKinds, Kinds, SessionKinds
  <2>3. data[active] = At(user)
    BY <2>1, <2>2, AllCollected DEF Agreement
  <2>4. Target(op.kind) \in Places
    BY <1>0 DEF Target
  <2>5. /\ op'.kind = op.kind /\ op'.step = "provide" /\ op'.left = Entries
        /\ op'.at = Target(op.kind)
    BY <1>0, <2>1, <2>4, CopyingFields
  <2>6. op'.at = Receiver'
    BY <1>0, <2>1, <2>5 DEF Receiver, Target
  <2> QED BY <1>1, <2>1, <2>3, <2>5, <2>6, SettledStep
<1>6. CASE MovePointers
  <2>1. op.kind \in Switching /\ (op' = Idle \/ op' = Then("retire"))
    BY Zenon, <1>6 DEF MovePointers
  <2>2. CASE op' = Then("retire")
    <3>1. op'.kind = op.kind /\ op'.step = "retire"
      BY <1>0, <2>2, ThenFields
    <3> QED BY <1>0, <2>1, <3>1, PlainStep
  <2> QED BY <2>1, <2>2, IdleStep
<1>7. CASE RetireActivation \/ SwitchFails
  BY <1>7, IdleStep DEF RetireActivation, SwitchFails
<1>8. CASE RecoverActivation
  <2>1. /\ \/ op' = Command("recover activate", "retire")
           \/ op' = CollectFirst("recover activate", "provide", activation)
        /\ UNCHANGED <<active, activation>>
    BY <1>8 DEF RecoverActivation, versionVars
  <2>2. "recover activate" \in Switching
    BY DEF Switching
  <2>3. CASE op' = Command("recover activate", "retire")
    <3>1. "recover activate" \in Kinds /\ "retire" \in Steps
      BY <1>0, <2>2
    <3>2. op'.kind = "recover activate" /\ op'.step = "retire"
      BY <2>3, <3>1, CommandFields
    <3> QED BY <1>0, <2>2, <3>2, PlainStep
  <2>4. CASE op' = CollectFirst("recover activate", "provide", activation)
    <3>1. activation = Target("recover activate")'
      BY <2>1 DEF Target
    <3> QED BY <1>0, <1>2, <2>1, <2>2, <2>4, <3>1
  <2> QED BY <2>1, <2>3, <2>4
<1> QED BY <1>3, <1>4, <1>5, <1>6, <1>7, <1>8 DEF SwitchNext

\* The steps of backups, restores and deletions.
LEMMA BackupAgrees ==
    ASSUME Control, FilesType, RestoreCommand, Agreement, BackupNext, SessionIsActive'
    PROVE  Agreement'
<1> USE DEF Control, RowKept
<1>steps. /\ "publish" \in Steps /\ "safety" \in Steps /\ "prepare" \in Steps
          /\ "review" \in Steps /\ "aside" \in Steps /\ "install" \in Steps
          /\ "record" \in Steps /\ "sync" \in Steps /\ "clean" \in Steps
          /\ "retire" \in Steps /\ "quarantine" \in Steps /\ "remove" \in Steps
  BY DEF Steps
<1>kinds. /\ "backup" \in Kinds /\ "restore" \in Kinds /\ "recover restore" \in Kinds
          /\ \A k \in Deleting : k \in Kinds /\ k \notin Restoring
  BY DEF Kinds, Deleting, Restoring
<1>plain. \A s \in {"aside", "install", "record", "quarantine", "remove", "sync", "clean", "retire"} :
            s \notin Settled /\ s # "collect"
  BY DEF Settled
<1>quiet. op.kind \in Snapshotting \cup Restoring => session.child = "none"
  BY Awake DEF Snapshotting, Restoring, OtherKinds, Kinds, SessionKinds
<1>1. UNCHANGED <<active, previous, staged, activation, session>>
  BY BackupStep DEF BackupGoal, VersionsKept, versionVars, sessionVars
<1>2. active \in Places /\ None \in Places /\ active \in Installs
  BY DEF PointersTyped, Places
<1>3. CASE BeginBackup
  <2>1. op' = CollectFirst("backup", "publish", None) /\ UNCHANGED <<user, data, launched>>
    BY <1>3 DEF BeginBackup, copyVars
  <2>2. /\ op'.left = Entries
        /\ active \in launched => op'.step = "collect" /\ op'.at = active
        /\ active \notin launched => op'.step = "publish"
    <3>1. "backup" \in Kinds /\ "publish" \in Steps
      BY <1>steps, <1>kinds
    <3> QED BY <1>2, <2>1, <3>1, CollectFirstFields
  <2> QED BY <1>1, <2>1, <2>2, BeginStep
<1>4. CASE \E b \in Backups : BeginRestore(b)
  <2> DEFINE c == CollectFirst("restore", "safety", None)
  <2>1. PICK b \in Backups : op' = [c EXCEPT !.backup = b] /\ UNCHANGED <<user, data, launched>>
    BY <1>4 DEF BeginRestore, copyVars
  <2>2. /\ c \in CommandType /\ c.left = Entries
        /\ active \in launched => c.step = "collect" /\ c.at = active
        /\ active \notin launched => c.step = "safety"
    <3>1. "restore" \in Kinds /\ "safety" \in Steps
      BY <1>steps, <1>kinds
    <3> QED BY <1>2, <3>1, CollectFirstFields
  <2> HIDE DEF c
  <2>3. op'.left = c.left /\ op'.step = c.step /\ op'.at = c.at
    BY <2>1, <2>2 DEF CommandType
  <2> QED BY <1>1, <2>1, <2>2, <2>3, BeginStep
<1>5. CASE CollectedForSnapshot
  <2>1. /\ op.kind \in Snapshotting /\ Copied("collect")
        /\ op' = Then("publish") \/ op' = Then("safety")
        /\ UNCHANGED <<user, data, launched>>
    BY <1>5 DEF CollectedForSnapshot, copyVars
  <2>2. data[active] = At(user)
    BY <1>quiet, <2>1, AllCollected DEF Agreement, FilesType
  <2>3. op'.step \in {"publish", "safety"}
    BY <1>steps, <2>1, ThenFields
  <2> QED BY <1>1, <2>1, <2>2, <2>3, SettledStep
<1>6. CASE PublishBackup \/ RefuseRestore \/ MoveInFails \/ RetireRestore \/ RetireDeletion
           \/ BackupFails
  BY <1>6, IdleStep DEF PublishBackup, RefuseRestore, MoveInFails, RetireRestore,
                        RetireDeletion, BackupFails
<1>7. CASE SafetyBackup
  <2>1. /\ op.step = "safety" /\ op' = Then("prepare") /\ UNCHANGED <<user, data, launched>>
        /\ (\E b \in Backups : Snapshot(b)) \/ At(user) = Empty
    BY <1>7 DEF SafetyBackup, copyVars
  <2>2. op'.step = "prepare"
    BY <1>steps, <2>1, ThenFields
  <2>3. ASSUME NEW b \in Backups, Snapshot(b) PROVE backups'[b] = At(user)
    <3>1. backups' = [backups EXCEPT ![b] = user] /\ At(user) # Empty
      BY <2>3 DEF Snapshot
    <3>2. At(user) = user
      BY <3>1 DEF At
    <3> QED BY <3>1, <3>2 DEF FilesType, VaultType
  <2>4. SafetyCopied'
    BY <2>1, <2>3 DEF SafetyCopied
  <2>5. SettledAgrees'
    BY <1>1, <2>1, <2>2 DEF Agreement, SettledAgrees, Settled
  <2> QED BY <2>2, <2>4, <2>5 DEF Agreement, CollectedAgrees, ProvidedAgrees, MarkersCleared
<1>8. CASE PrepareRestore
  <2>1. /\ op.step = "prepare" /\ (op' = Then("review") \/ op' = Idle)
        /\ UNCHANGED <<user, data, launched>>
    BY <1>8 DEF PrepareRestore, copyVars
  <2>2. CASE op' = Then("review")
    <3>1. op'.step = "review"
      BY <1>steps, <2>2, ThenFields
    <3>2. active \in launched => data[active] = At(user)
      BY <2>1 DEF Agreement, SettledAgrees, Settled
    <3> QED BY <1>1, <2>1, <3>1, <3>2, SettledStep
  <2> QED BY <2>1, <2>2, IdleStep
<1>9. CASE PassReview \/ MoveAside \/ MoveIn \/ QuarantineBackup \/ RecordQuarantined
  <2>1. \E s \in {"aside", "install", "record", "remove"} : op' = Then(s)
    BY <1>9 DEF PassReview, MoveAside, MoveIn, QuarantineBackup, RecordQuarantined
  <2>2. op'.step \in {"aside", "install", "record", "remove"}
    BY <1>steps, <2>1, ThenFields
  <2> QED BY <1>plain, <2>2, PlainStep
<1>10. CASE RemoveQuarantined
  <2>1. op.kind \in Deleting /\ op' = Then("retire")
    BY <1>10 DEF RemoveQuarantined
  <2>2. op'.kind \in Deleting /\ op'.step = "retire"
    BY <1>steps, <2>1, ThenFields
  <2> QED BY <1>plain, <1>kinds, <2>2, PlainStep
<1>11. CASE (\E b \in Backups : BeginDelete(b)) \/ RecoverDeletion
  <2>1. PICK k \in Deleting, s \in {"quarantine", "record", "remove"} : op' = Command(k, s)
    BY <1>11 DEF BeginDelete, RecoverDeletion, Deleting
  <2>2. op'.step = s
    <3>1. k \in Kinds /\ s \in Steps
      BY <1>steps, <1>kinds
    <3> QED BY <2>1, <3>1, CommandFields
  <2> QED BY <1>plain, <2>2, PlainStep
<1>12. ASSUME op'.step \in {"sync", "clean", "retire"}, MarkersCleared' PROVE Agreement'
  BY <1>12 DEF Agreement, CollectedAgrees, SettledAgrees, ProvidedAgrees, SafetyCopied, Settled
<1>13. CASE RecordPublished
  <2>1. /\ op' = [op EXCEPT !.step = "sync", !.at = None, !.left = {}, !.todo = Installs]
        /\ launched' = launched
    BY <1>13 DEF RecordPublished, copyVars
  <2>2. op'.step = "sync" /\ op'.todo = Installs
    BY <2>1 DEF CommandType
  <2> QED BY <1>12, <2>1, <2>2 DEF MarkersCleared, FilesType, SavesType
<1>14. CASE SyncNext
  <2>1. PICK i \in op.todo :
          /\ op' = [op EXCEPT !.at = i, !.left = Entries, !.todo = @ \ {i}]
          /\ op.kind \in Restoring /\ op.step = "sync" /\ op.at = None /\ launched' = launched
    BY <1>14 DEF SyncNext, copyVars
  <2>2. op'.step = "sync" /\ op'.todo = op.todo \ {i} /\ op'.at = i
    BY <2>1 DEF CommandType
  <2>3. launched \subseteq op.todo
    <3>1. launched \subseteq op.todo \cup {None}
      BY <2>1 DEF Agreement, MarkersCleared
    <3> QED BY <3>1, PlayerAssumption DEF FilesType, SavesType
  <2> QED BY <1>12, <2>1, <2>2, <2>3 DEF MarkersCleared
<1>15. CASE SyncEntry
  <2>1. PICK e \in op.left :
          op' = Without(e) /\ op.kind \in Restoring /\ op.step = "sync" /\ launched' = launched
    BY <1>15 DEF SyncEntry
  <2>2. op'.step = "sync" /\ op'.todo = op.todo /\ op'.at = op.at
    BY <2>1, WithoutFields
  <2> QED BY <1>12, <2>1, <2>2 DEF Agreement, MarkersCleared
<1>16. CASE ClearMarker
  <2>1. /\ op.kind \in Restoring /\ op.step = "sync"
        /\ launched' = launched \ {op.at} /\ op' = [op EXCEPT !.at = None]
    BY <1>16 DEF ClearMarker, Copied
  <2>2. op'.step = "sync" /\ op'.todo = op.todo
    BY <2>1 DEF CommandType
  <2> QED BY <1>12, <2>1, <2>2 DEF Agreement, MarkersCleared
<1>17. CASE CommitRestore
  <2>1. /\ op.kind \in Restoring /\ op.step = "sync" /\ op.at = None /\ op.todo = {}
        /\ launched' = launched /\ op' = Then("clean")
    BY <1>17 DEF CommitRestore, Copied, copyVars
  <2>2. op'.step = "clean"
    BY <1>steps, <2>1, ThenFields
  <2>3. launched = {}
    <3>1. launched \subseteq {None}
      BY <2>1 DEF Agreement, MarkersCleared
    <3> QED BY <3>1, PlayerAssumption DEF FilesType, SavesType
  <2> QED BY <1>12, <2>1, <2>2, <2>3 DEF MarkersCleared
<1>18. CASE RemovePrevious
  <2>1. /\ op.kind \in Restoring /\ op.step = "clean" /\ op' = Then("retire")
        /\ launched' = launched
    BY <1>18 DEF RemovePrevious, copyVars
  <2>2. op'.step = "retire"
    BY <1>steps, <2>1, ThenFields
  <2> QED BY <1>12, <2>1, <2>2 DEF Agreement, MarkersCleared
<1>19. CASE RecoverRestore
  <2> DEFINE c == Command("recover restore", "sync")
  <2>1. /\ launched' = launched
        /\ \/ PublicationStep # "none" /\ op' = Command("recover restore", PublicationStep)
           \/ op' = [c EXCEPT !.todo = Installs]
    BY <1>19 DEF RecoverRestore, copyVars
  <2>2. CASE PublicationStep # "none" /\ op' = Command("recover restore", PublicationStep)
    <3>1. PublicationStep \in {"aside", "install", "record"}
      BY <2>2, PublicationStepIs DEF FilesType, VaultType
    <3>2. op'.step \in {"aside", "install", "record"}
      <4>1. "recover restore" \in Kinds /\ PublicationStep \in Steps
        BY <1>steps, <1>kinds, <3>1
      <4> QED BY <2>2, <3>1, <4>1, CommandFields
    <3> QED BY <1>plain, <3>2, PlainStep
  <2>3. CASE op' = [c EXCEPT !.todo = Installs]
    <3>1. c \in CommandType /\ c.step = "sync"
      BY <1>steps, <1>kinds, CommandFields
    <3> HIDE DEF c
    <3>2. op'.step = "sync" /\ op'.todo = Installs
      BY <2>3, <3>1 DEF CommandType
    <3> QED BY <1>12, <2>1, <3>2 DEF MarkersCleared, FilesType, SavesType
  <2> QED BY <2>1, <2>2, <2>3
<1> QED
  BY <1>3, <1>4, <1>5, <1>6, <1>7, <1>8, <1>9, <1>10, <1>11, <1>13, <1>14, <1>15, <1>16, <1>17,
     <1>18, <1>19 DEF BackupNext, RestoreOn

\* The directories and the versions agree as far as each command is, at every step.
THEOREM AgreementHolds == Spec => []Agreement
<1>1. Init => Agreement
  <2> SUFFICES ASSUME Init PROVE Agreement
    OBVIOUS
  <2>1. op = Idle /\ session = NoSession
    BY DEF Init
  <2>2. op.step = "none" /\ op.kind = "none" /\ session.phase = "none"
    BY <2>1, IdleFields, NoSessionFields
  <2> QED BY <2>2 DEF Agreement, CollectedAgrees, SettledAgrees, ProvidedAgrees, SafetyCopied,
                      MarkersCleared, SessionIsActive, Settled, Restoring
<1>2. PlayerInvariant /\ Journals /\ Agreement /\ [Next]_vars => Agreement'
  <2> SUFFICES ASSUME PlayerInvariant, Journals, Agreement, [Next]_vars PROVE Agreement'
    OBVIOUS
  <2>1. /\ Control /\ FilesType /\ SavesType /\ CollectedSoFar /\ RestoreCommand
    BY DEF PlayerInvariant, Journals, FilesType
  <2>2. SessionIsActive'
    BY <2>1, SessionIsActiveStep DEF Agreement
  <2>3. CASE CollectEntry \/ ProvideEntry
    BY <2>1, <2>2, <2>3, EntryAgrees
  <2>4. CASE Crash
    BY <2>2, <2>4, IdleStep DEF Crash
  <2>5. CASE LaunchNext
    BY <2>1, <2>2, <2>5, LaunchAgrees
  <2>6. CASE SwitchNext
    BY <2>1, <2>2, <2>6, SwitchAgrees
  <2>7. CASE BackupNext
    BY <2>1, <2>2, <2>7, BackupAgrees
  <2>8. CASE UNCHANGED vars
    BY <2>8, AgreementKept DEF vars, copyVars, versionVars, sessionVars, backupVars
  <2> QED BY <2>3, <2>4, <2>5, <2>6, <2>7, <2>8 DEF Next
<1> QED BY <1>1, <1>2, PlayerInvariantHolds, JournalsHold, PTL DEF Spec

-----------------------------------------------------------------------------
(* The refinement.                                                          *)

\* Where the current saves are.
LEMMA SavesAre ==
    /\ session.child # "none" => CurrentSaves = data[session.install]
    /\ session.child = "none" /\ restore.phase # "none" =>
         CurrentSaves = IF user # NoTree THEN user ELSE At(previousData)
    /\ session.child = "none" /\ restore.phase = "none" =>
         CurrentSaves = IF active \in launched THEN data[active] ELSE At(user)
BY DEF CurrentSaves

\* And where a step leaves them.
LEMMA SavesWillBe ==
    /\ session'.child # "none" => CurrentSaves' = data'[session'.install]
    /\ session'.child = "none" /\ restore'.phase # "none" =>
         CurrentSaves' = IF user' # NoTree THEN user' ELSE At(previousData')
    /\ session'.child = "none" /\ restore'.phase = "none" =>
         CurrentSaves' = IF active' \in launched' THEN data'[active'] ELSE At(user')
BY DEF CurrentSaves, At

\* A step of the player's progress, or none.
ProgressStep == Progress!Next \/ UNCHANGED Progress!vars

\* A step that moves nothing the player can tell apart is none.
LEMMA NoProgress ==
    ASSUME CurrentSaves' = CurrentSaves, UNCHANGED backups,
           session'.child = "none" <=> session.child = "none",
           Starting' <=> Starting, Starting => At(user') = At(user),
           restore'.phase = "prepared" <=> restore.phase = "prepared",
           restore.phase = "prepared" => stagedData' = stagedData
    PROVE  ProgressStep
BY DEF ProgressStep, Progress!vars, At

\* The step of a command, with all it works on left alone.
LEMMA Unmoved ==
    ASSUME UNCHANGED <<user, data, launched, active, backups, restore, stagedData, previousData>>,
           session'.child = session.child,
           session.child # "none" => session'.install = session.install
                                     /\ session'.phase = session.phase
    PROVE  ProgressStep
<1>1. CurrentSaves' = CurrentSaves
  BY SavesAre, SavesWillBe DEF At
<1>2. (Starting' <=> Starting) /\ At(user') = At(user)
  BY DEF Starting, At
<1> QED BY <1>1, <1>2, NoProgress

\* While a command is settled and no restore is under way, the canonical saves are
\* the current ones.
LEMMA SettledSaves ==
    ASSUME Control, Agreement, op.step \in Settled, restore.phase = "none"
    PROVE  CurrentSaves = At(user)
<1>1. session.child = "none"
  BY Awake
<1> QED BY <1>1, SavesAre DEF Agreement, SettledAgrees

\* Copying an entry moves no save.
LEMMA EntryProgress ==
    ASSUME PlayerInvariant, Journals, Agreement, Agreement', CollectEntry \/ ProvideEntry
    PROVE  ProgressStep
<1> USE DEF PlayerInvariant, Control, RowKept
<1>1. /\ UNCHANGED <<launched, active, session, backups, restore, stagedData, previousData>>
      /\ op.left # {}
  BY DEF CollectEntry, ProvideEntry, versionVars, sessionVars, backupVars
<1>2. CASE CollectEntry
  <2>1. op.step = "collect" /\ restore.phase = "none" /\ data' = data
    BY <1>2 DEF CollectEntry, Journals, RestoreCommand
  <2>2. ~Starting
    <3>1. op.kind \in {"launch", "recover launch", "none"} \/ op.kind \in OtherKinds
      BY DEF OtherKinds, CommandType, SessionKinds
    <3>2. op.kind = "launch" \/ op.kind = "recover launch" => session.phase # "spawning"
      BY <2>1 DEF RowFollowsLaunch
    <3> QED BY <2>1, <3>1, <3>2, Awake DEF Starting
  <2>3. session.child = "none" => active \in launched
    BY <2>1 DEF Agreement, CollectedAgrees
  <2>4. CurrentSaves' = CurrentSaves
    BY <1>1, <2>1, <2>3, SavesAre, SavesWillBe
  <2> QED BY <1>1, <2>2, <2>4, NoProgress DEF Starting
<1>3. CASE ProvideEntry
  <2>1. op.step = "provide" /\ user' = user
    BY <1>3 DEF ProvideEntry
  <2>2. session.child = "none"
    BY <2>1, Awake DEF Settled
  <2>3. PICK e \in op.left : op' = Without(e)
    BY <1>3 DEF ProvideEntry
  <2>4. op'.step = "provide"
    BY <2>1, <2>3, WithoutFields
  <2>5. active \in launched => data[active] = At(user) /\ data'[active] = At(user)
    BY <1>1, <2>1, <2>4 DEF Agreement, SettledAgrees, Settled, At
  <2>6. CurrentSaves' = CurrentSaves
    BY <1>1, <2>1, <2>2, <2>5, SavesAre, SavesWillBe DEF At
  <2> QED BY <1>1, <2>1, <2>2, <2>6, NoProgress DEF Starting
<1> QED BY <1>2, <1>3

\* A version switch moves no save: the version it goes to was provided with them.
LEMMA SwitchProgress ==
    ASSUME PlayerInvariant, Journals, Agreement, SwitchNext
    PROVE  ProgressStep
<1> USE DEF PlayerInvariant, Control, RowKept
<1>1. UNCHANGED <<user, data, launched, session, backups, restore, stagedData, previousData>>
  BY SwitchStep DEF copyVars, sessionVars, backupVars
<1>2. CASE active' = active
  BY <1>1, <1>2, Unmoved
<1>3. CASE MovePointers
  <2>1. op.kind \in Switching /\ op.step = "provide" /\ op.left = {} /\ active' = Target(op.kind)
    BY <1>3 DEF MovePointers, Copied
  <2>2. session.child = "none"
    BY <2>1, Awake DEF Settled
  <2>3. active' \in Installs
    BY <2>1 DEF Target, TargetsExist, Switching
  <2>4. op.at = active' /\ \A e \in Entries : Holds(active', e)
    BY <2>1 DEF Agreement, ProvidedAgrees, Receiver, Switching
  <2>5. active' \in launched => data[active'] = At(user)
    <3>1. ASSUME active' \in launched PROVE \A e \in Entries : data[active'][e] = At(user)[e]
      BY <2>4, <3>1 DEF Holds
    <3> QED BY <2>3, <3>1, SameTree DEF FilesType
  <2>6. CurrentSaves' = CurrentSaves
    <3>1. CASE restore.phase = "none"
      <4>1. CurrentSaves = At(user)
        BY <2>1, <3>1, SettledSaves DEF Settled
      <4> QED BY <1>1, <2>2, <2>5, <3>1, <4>1, SavesWillBe DEF At
    <3>2. CASE restore.phase # "none"
      BY <1>1, <2>2, <3>2, SavesAre, SavesWillBe DEF At
    <3> QED BY <3>1, <3>2
  <2> QED BY <1>1, <2>2, <2>6, NoProgress DEF Starting
<1>4. CASE ~MovePointers
  <2>1. active' = active
    BY <1>4 DEF SwitchNext, BeginRollback, BeginActivation, ProvideToTarget, RetireActivation,
                SwitchFails, RecoverActivation, versionVars
  <2> QED BY <1>2, <2>1
<1> QED BY <1>3, <1>4

\* A launch, its recovery and the game itself.
LEMMA LaunchProgress ==
    ASSUME PlayerInvariant, Journals, Agreement, LaunchNext
    PROVE  ProgressStep
<1> USE DEF PlayerInvariant, Control, RowKept
<1>1. UNCHANGED <<user, active, backups, restore, stagedData, previousData>>
  BY LaunchStep, LaunchKeepsUser DEF RowContext, versionVars, backupVars, PointersTyped
<1>2. /\ op.kind = "launch" \/ op.kind = "recover launch" =>
            session.phase # "none" /\ restore.phase = "none"
      /\ session.child # "none" => session.phase # "none" /\ restore.phase = "none"
  BY NoSessionFields DEF KindsAndSessions, SessionKinds
<1>3. /\ session.phase # "none" => session.install = active
      /\ active \in Installs /\ At(user) \in Trees /\ data[active] \in Trees
  BY AtIsATree DEF Agreement, SessionIsActive, FilesType, SavesType, PointersTyped
<1>4. /\ \A p \in {"spawning", "running", "collecting"} :
            /\ InPhase(p).phase = p /\ InPhase(p).child = session.child
            /\ InPhase(p).install = session.install
      /\ \A c \in {"alive", "gone"} :
            /\ WithChild(c).phase = session.phase /\ WithChild(c).child = c
            /\ WithChild(c).install = session.install
  <2>1. "spawning" \in Phases /\ "running" \in Phases /\ "collecting" \in Phases
    BY DEF Phases
  <2> QED BY <2>1, InPhaseFields, WithChildFields
<1>5. CASE AcceptLaunch \/ GiveUpPreparing \/ RecoverPreparing
  <2>1. session.child = "none"
    BY <1>5, NoSessionFields
       DEF AcceptLaunch, Lockable, GiveUpPreparing, RecoverPreparing, RowFollowsLaunch
  <2>2. session'.child = "none"
    BY <1>5, NoSessionFields DEF AcceptLaunch, GiveUpPreparing, RecoverPreparing, Close, SessionType
  <2>3. UNCHANGED <<data, launched>>
    BY <1>5 DEF AcceptLaunch, GiveUpPreparing, RecoverPreparing, copyVars
  <2> QED BY <1>1, <2>1, <2>2, <2>3, Unmoved
<1>6. CASE ProvideForLaunch \/ FinishCollecting \/ LeaveUncertain \/ RecoverLaunch \/ RecoverFails
  <2>1. UNCHANGED <<data, launched, session>>
    BY <1>6 DEF ProvideForLaunch, FinishCollecting, LeaveUncertain, RecoverLaunch, RecoverFails,
                Leave, copyVars, sessionVars
  <2> QED BY <1>1, <2>1, Unmoved
<1>7. CASE CloseWindow \/ RecordSpawning \/ RequestCancel
  <2>1. session.child = "none" /\ UNCHANGED <<data, launched>>
    BY <1>7 DEF CloseWindow, RecordSpawning, RequestCancel, RowFollowsLaunch, Copied, copyVars
  <2>2. \/ session' = [session EXCEPT !.window = "closed"]
        \/ session' = [session EXCEPT !.asked = TRUE]
        \/ session' = InPhase("spawning")
    BY <1>7 DEF CloseWindow, RecordSpawning, RequestCancel
  <2>3. session'.child = "none"
    BY <1>4, <2>1, <2>2 DEF SessionType
  <2> QED BY <1>1, <2>1, <2>3, Unmoved
<1>8. CASE GameEnded \/ RecoverEnded
  <2>1. /\ session.child = "gone" /\ session.phase # "spawning" /\ UNCHANGED <<data, launched>>
        /\ session' = session \/ session' = InPhase("collecting")
    BY <1>8 DEF GameEnded, RecoverEnded, RowFollowsLaunch, copyVars
  <2>2. session'.child = "gone" /\ session'.phase # "spawning" /\ session'.install = session.install
    BY <1>4, <2>1
  <2>3. CurrentSaves' = CurrentSaves
    BY <2>1, <2>2, SavesAre, SavesWillBe
  <2> QED BY <1>1, <2>1, <2>2, <2>3, NoProgress DEF Starting
<1>9. CASE GameExits \/ KillUnrecorded \/ WriteMarker
  <2>1. /\ session.child # "none" /\ (session' = session \/ session' = WithChild("gone"))
        /\ data' = data
    BY <1>9 DEF GameExits, KillUnrecorded, WriteMarker, RowFollowsLaunch, copyVars, sessionVars
  <2>2. /\ session'.child # "none" /\ session'.phase = session.phase
        /\ session'.install = session.install
    BY <1>4, <2>1
  <2>3. CurrentSaves' = CurrentSaves
    BY <2>1, <2>2, SavesAre, SavesWillBe
  <2> QED BY <1>1, <2>1, <2>2, <2>3, NoProgress DEF Starting
<1>10. CASE Spawn
  <2>1. /\ op.kind = "launch" /\ op.step = "spawn" /\ session' = WithChild("alive")
        /\ data' = data
    BY <1>10 DEF Spawn, copyVars
  <2>2. session.child = "none" /\ session.phase = "spawning"
    BY <2>1 DEF RowFollowsLaunch
  <2>3. session'.child = "alive" /\ session'.phase = "spawning" /\ session'.install = session.install
    BY <1>4, <2>1, <2>2
  <2>4. CurrentSaves = At(user) /\ restore.phase = "none"
    BY <1>2, <2>1, SettledSaves DEF Settled
  <2>5. CurrentSaves' = data[active]
    BY <1>2, <1>3, <2>1, <2>3, SavesWillBe
  <2>6. \A e \in Entries : At(user)[e] = 0 \/ data[active][e] = At(user)[e]
    BY <1>2, <1>3, <2>1 DEF Agreement, ProvidedAgrees, Holds
  <2>7. data[active] \in Progress!Fills(At(user))
    BY <1>3, <2>6 DEF Progress!Fills, Progress!Trees, Trees
  <2>8. Progress!Start
    BY <1>1, <2>2, <2>3, <2>4, <2>5, <2>7 DEF Progress!Start, Starting, At
  <2> QED BY <2>8 DEF ProgressStep, Progress!Next
<1>11. CASE RecordChild
  <2>1. /\ op.kind = "launch" /\ op.step = "identify" /\ data' = data
        /\ \E p \in {"running", "collecting"} : session' = InPhase(p)
    BY <1>11 DEF RecordChild, copyVars
  <2>2. session.child # "none" /\ session.phase = "spawning"
    BY <2>1 DEF RowFollowsLaunch
  <2>3. /\ session'.child = session.child /\ session'.phase # "spawning"
        /\ session'.install = session.install
    BY <1>4, <2>1
  <2>4. CurrentSaves' = CurrentSaves
    BY <2>1, <2>2, <2>3, SavesAre, SavesWillBe
  <2>5. Progress!Report
    BY <1>1, <2>2, <2>3, <2>4 DEF Progress!Report, Starting, Empty, Progress!Empty
  <2> QED BY <2>5 DEF ProgressStep, Progress!Next
<1>12. CASE GameWrites
  <2>1. PICK e \in Entries, v \in {0, written + 1} :
          data' = [data EXCEPT ![session.install][e] = v]
    BY <1>12 DEF GameWrites
  <2>2. /\ session.child = "alive" /\ session' = session /\ written < MaxVersion
    BY <1>12 DEF GameWrites
  <2>3. v \in 0 .. MaxVersion
    BY <2>1, <2>2, PlayerAssumption DEF FilesType, GameType
  <2>4. CurrentSaves = data[active] /\ CurrentSaves' = data'[active]
    BY <1>2, <1>3, <2>2, SavesAre, SavesWillBe
  <2>5. data'[active] = [data[active] EXCEPT ![e] = v]
    BY <1>2, <1>3, <2>1, <2>2 DEF FilesType, SavesType
  <2>6. Progress!Play(e, v)
    BY <1>1, <2>2, <2>4, <2>5 DEF Progress!Play, Starting, At
  <2> QED BY <2>3, <2>6 DEF ProgressStep, Progress!Next
<1>13. CASE Finish
  <2>1. /\ op.kind = "launch" \/ op.kind = "recover launch"
        /\ op.step = "finish" /\ UNCHANGED <<data, launched>>
        /\ session' = session \/ session' = NoSession
    BY <1>13 DEF Finish, Close, copyVars
  <2>2. CASE session' = session
    BY <1>1, <2>1, <2>2, Unmoved
  <2>3. CASE session' = NoSession /\ session.child = "none"
    BY <1>1, <2>1, <2>3, NoSessionFields, Unmoved
  <2>4. CASE session' = NoSession /\ session.child # "none"
    <3>1. session'.child = "none" /\ restore.phase = "none"
      BY <1>2, <2>4, NoSessionFields
    <3>2. CurrentSaves = data[active]
      BY <1>2, <1>3, <2>4, SavesAre
    <3>3. CurrentSaves' = IF active \in launched THEN data[active] ELSE At(user)
      BY <1>1, <2>1, <3>1, SavesWillBe
    <3>4. ASSUME CurrentSaves' = CurrentSaves PROVE ProgressStep
      <4>1. Progress!Stop
        BY <1>1, <2>4, <3>1, <3>4 DEF Progress!Stop, Starting, Empty, Progress!Empty
      <4> QED BY <4>1 DEF ProgressStep, Progress!Next
    <3>5. CASE active \in launched
      BY <3>2, <3>3, <3>4, <3>5
    <3>6. CASE active \notin launched /\ session.phase = "spawning"
      <4>1. Progress!Drop
        BY <1>1, <2>4, <3>1, <3>3, <3>6 DEF Progress!Drop, Starting, Empty, Progress!Empty
      <4> QED BY <4>1 DEF ProgressStep, Progress!Next
    <3>7. CASE active \notin launched /\ session.phase # "spawning"
      <4>1. session.phase \in {"running", "collecting"}
        BY <1>2, <2>4, <3>7 DEF RowFollowsLaunch, SessionType, Phases
      <4>2. op.left = {} /\ \A e \in Entries \ op.left : At(user)[e] = data[active][e]
        BY <1>3, <2>1, <4>1 DEF CollectedSoFar, SessionKinds
      <4>3. data[active] = At(user)
        BY <1>3, <4>2, SameTree DEF FilesType
      <4> QED BY <3>2, <3>3, <3>4, <3>7, <4>3
    <3> QED BY <3>5, <3>6, <3>7
  <2> QED BY <2>1, <2>2, <2>3, <2>4
<1> QED BY <1>5, <1>6, <1>7, <1>8, <1>9, <1>10, <1>11, <1>12, <1>13
           DEF LaunchNext, Supervise, RecoverSession

\* Backups, restores and deletions.
LEMMA BackupProgress ==
    ASSUME PlayerInvariant, Journals, Agreement, BackupNext
    PROVE  ProgressStep
<1> USE DEF PlayerInvariant, Control, RowKept
<1>1. /\ UNCHANGED <<active, session>>
      /\ session.child = "none" /\ session'.child = "none" /\ ~Starting /\ ~Starting'
  <2>1. OtherStep /\ CopiesHaveAPlace' /\ UNCHANGED <<active, session>>
    BY BackupStep DEF BackupGoal, VersionsKept, versionVars, sessionVars
  <2>2. session = NoSession
    BY <2>1, OtherStepKeepsTheRow
  <2> QED BY <2>1, <2>2, NoSessionFields DEF Starting
<1>2. /\ user # NoTree => At(user) = user
      /\ restore \in RestoreType /\ backups \in [Backups -> Directories]
  BY DEF At, FilesType, VaultType
<1>3. CASE BeginBackup \/ (\E b \in Backups : BeginRestore(b) \/ BeginDelete(b))
           \/ CollectedForSnapshot \/ PassReview \/ RecoverRestore \/ SyncNext
           \/ RecordQuarantined \/ RemoveQuarantined \/ RetireDeletion \/ RecoverDeletion
           \/ BackupFails
  <2>1. UNCHANGED <<user, data, launched, backups, restore, stagedData, previousData>>
    BY <1>3 DEF BeginBackup, BeginRestore, BeginDelete, CollectedForSnapshot, PassReview,
                RecoverRestore, SyncNext, RecordQuarantined, RemoveQuarantined, RetireDeletion,
                RecoverDeletion, BackupFails, copyVars, backupVars, restoreVars
  <2> QED BY <1>1, <2>1, Unmoved
<1>4. CASE PublishBackup \/ SafetyBackup
  <2>1. /\ op.step \in Settled
        /\ UNCHANGED <<user, data, launched, restore, stagedData, previousData>>
        /\ backups' = backups \/ \E b \in Backups : Snapshot(b)
    BY <1>4 DEF PublishBackup, SafetyBackup, copyVars, restoreVars, Settled
  <2>2. CASE backups' = backups
    BY <1>1, <2>1, <2>2, Unmoved
  <2>3. ASSUME NEW b \in Backups, Snapshot(b) PROVE ProgressStep
    <3>1. /\ At(user) # Empty /\ backups[b] = NoTree
          /\ backups' = [backups EXCEPT ![b] = user]
      BY <2>3 DEF Snapshot, Unused
    <3>2. user # NoTree /\ At(user) = user
      BY <3>1 DEF At
    <3>3. CurrentSaves = user
      BY <1>1, <2>1, <3>2, SavesAre, SettledSaves
    <3>4. CurrentSaves' = CurrentSaves
      BY <1>1, <2>1, SavesAre, SavesWillBe DEF At
    <3>5. Progress!Copy(b)
      BY <1>1, <2>1, <3>1, <3>3, <3>4 DEF Progress!Copy
    <3> QED BY <3>5 DEF ProgressStep, Progress!Next
  <2> QED BY <2>1, <2>2, <2>3
<1>5. CASE PrepareRestore
  <2>1. /\ op.kind = "restore" /\ op.step = "prepare"
        /\ restore'.phase = "prepared" /\ stagedData' = backups[op.backup]
        /\ UNCHANGED <<user, backups, previousData>>
    BY <1>5 DEF PrepareRestore, copyVars
  <2>2. restore.phase = "none" /\ backups[op.backup] # NoTree /\ op.backup \in Backups
    BY <2>1 DEF Journals, RestoreCommand, RestoresHaveASource
  <2>3. CurrentSaves = At(user)
    BY <2>1, <2>2, SettledSaves DEF Settled
  <2>4. CurrentSaves' = At(user)
    <3>1. previousData' = NoTree
      BY <2>1, <2>2 DEF Journals, RestoreJournal
    <3> QED BY <1>1, <1>2, <2>1, <3>1, SavesWillBe DEF At
  <2>5. At(user) = Empty \/ \E c \in Backups : backups[c] = At(user)
    BY <2>1 DEF Agreement, SafetyCopied
  <2>6. Progress!Choose(op.backup)
    BY <1>1, <2>1, <2>2, <2>3, <2>4, <2>5 DEF Progress!Choose, Empty, Progress!Empty
  <2> QED BY <2>2, <2>6 DEF ProgressStep, Progress!Next
<1>6. CASE RefuseRestore
  <2>1. /\ op.kind \in Restoring /\ op.step = "review"
        /\ UNCHANGED <<user, data, launched, backups, previousData>>
        /\ \/ restore' = NoRestore /\ stagedData' = NoTree
           \/ UNCHANGED <<restore, stagedData>>
    BY <1>6 DEF RefuseRestore, copyVars, Restoring
  <2>2. CASE UNCHANGED <<restore, stagedData>>
    BY <1>1, <2>1, <2>2, Unmoved
  <2>3. CASE restore' = NoRestore /\ stagedData' = NoTree
    <3>1. restore.phase = "prepared" /\ (LooksAside \/ LooksInstall) /\ previousData = NoTree
      BY <2>1 DEF Journals, RestoreCommand, LooksAside, LooksInstall
    <3>2. stagedData # NoTree
      BY <3>1 DEF LooksAside, LooksInstall
    <3>3. CurrentSaves = At(user)
      BY <1>1, <1>2, <3>1, SavesAre DEF At
    <3>4. CurrentSaves' = At(user)
      <4>1. active \in launched => data[active] = At(user)
        BY <2>1 DEF Agreement, SettledAgrees, Settled
      <4>2. restore'.phase = "none"
        BY <2>3 DEF NoRestore
      <4> QED BY <1>1, <2>1, <4>1, <4>2, SavesWillBe DEF At
    <3>5. Progress!Refuse
      BY <1>1, <2>1, <2>3, <3>1, <3>2, <3>3, <3>4 DEF Progress!Refuse, NoRestore
    <3> QED BY <3>5 DEF ProgressStep, Progress!Next
  <2> QED BY <2>1, <2>2, <2>3
<1>7. CASE MoveAside
  <2>1. /\ op.kind \in Restoring /\ op.step = "aside" /\ previousData' = user /\ user' = NoTree
        /\ UNCHANGED <<backups, restore, stagedData>>
    BY <1>7 DEF MoveAside
  <2>2. restore.phase = "prepared" /\ user # NoTree
    BY <2>1 DEF Journals, RestoreCommand, LooksAside
  <2>3. CurrentSaves' = CurrentSaves
    BY <1>1, <2>1, <2>2, SavesAre, SavesWillBe DEF At
  <2> QED BY <1>1, <2>1, <2>3, NoProgress
<1>8. CASE MoveIn
  <2>1. /\ op.kind \in Restoring /\ op.step = "install" /\ user' = stagedData
        /\ stagedData' = NoTree /\ UNCHANGED <<backups, restore>>
    BY <1>8 DEF MoveIn
  <2>2. restore.phase = "prepared" /\ stagedData # NoTree
    BY <2>1 DEF Journals, RestoreCommand, LooksInstall
  <2>3. CurrentSaves' = stagedData
    BY <1>1, <2>1, <2>2, SavesWillBe
  <2>4. Progress!Apply
    BY <1>1, <2>1, <2>2, <2>3 DEF Progress!Apply
  <2> QED BY <2>4 DEF ProgressStep, Progress!Next
<1>9. CASE MoveInFails
  <2>1. /\ op.kind \in Restoring /\ op.step = "install"
        /\ UNCHANGED <<backups, restore, stagedData>>
        /\ \/ restore.replaces /\ user' = previousData /\ previousData' = NoTree
           \/ UNCHANGED <<user, previousData>>
    BY <1>9 DEF MoveInFails, Restoring
  <2>2. /\ restore.phase = "prepared" /\ user = NoTree
        /\ restore.replaces <=> previousData # NoTree
    BY <2>1 DEF Journals, RestoreCommand, LooksInstall
  <2>3. CurrentSaves' = CurrentSaves
    BY <1>1, <2>1, <2>2, SavesAre, SavesWillBe DEF At
  <2> QED BY <1>1, <2>1, <2>3, NoProgress
<1>10. ASSUME user # NoTree, UNCHANGED <<user, backups>>,
              restore.phase # "none", restore'.phase # "none",
              restore'.phase = "prepared" => restore.phase = "prepared" /\ stagedData' = stagedData,
              restore'.phase # "prepared" => restore.phase # "prepared" \/ stagedData = NoTree
       PROVE  ProgressStep
  <2>1. CurrentSaves' = CurrentSaves
    BY <1>1, <1>10, SavesAre, SavesWillBe
  <2>2. (IF restore'.phase = "prepared" THEN stagedData' ELSE NoTree)
          = (IF restore.phase = "prepared" THEN stagedData ELSE NoTree)
    BY <1>10
  <2> QED BY <1>1, <1>10, <2>1, <2>2 DEF ProgressStep, Progress!vars
<1>11. CASE RecordPublished
  <2>1. /\ op.kind \in Restoring /\ op.step = "record" /\ UNCHANGED <<user, backups>>
        /\ restore' = [restore EXCEPT !.phase = "published"]
    BY <1>11 DEF RecordPublished, copyVars
  <2>2. restore.phase = "prepared" /\ user # NoTree /\ stagedData = NoTree
    BY <2>1 DEF Journals, RestoreCommand, LooksRecord
  <2>3. restore'.phase = "published"
    BY <1>2, <2>1 DEF RestoreType
  <2> QED BY <1>10, <2>1, <2>2, <2>3
<1>12. CASE SyncEntry \/ ClearMarker \/ CommitRestore
  <2>1. /\ op.kind \in Restoring /\ op.step = "sync" /\ UNCHANGED <<user, backups>>
        /\ restore' = restore \/ restore' = [restore EXCEPT !.phase = "committed"]
    BY <1>12 DEF SyncEntry, ClearMarker, CommitRestore, Copied, copyVars, backupVars
  <2>2. restore.phase \in {"published", "committed"} /\ user # NoTree
    BY <2>1 DEF Journals, RestoreCommand, RestoreJournal
  <2>3. restore'.phase \in {"published", "committed"}
    BY <1>2, <2>1, <2>2 DEF RestoreType
  <2> QED BY <1>10, <2>1, <2>2, <2>3
<1>13. CASE RemovePrevious
  <2>1. /\ op.kind \in Restoring /\ op.step = "clean" /\ UNCHANGED <<user, backups, restore>>
    BY <1>13 DEF RemovePrevious, copyVars
  <2>2. restore.phase = "committed" /\ user # NoTree
    BY <2>1 DEF Journals, RestoreCommand, RestoreJournal
  <2> QED BY <1>10, <2>1, <2>2
<1>14. CASE RetireRestore
  <2>1. /\ op.kind \in Restoring /\ op.step = "retire" /\ restore' = NoRestore
        /\ UNCHANGED <<user, data, launched, backups>>
    BY <1>14 DEF RetireRestore, copyVars
  <2>2. restore.phase = "committed" /\ user # NoTree /\ launched = {}
    BY <2>1 DEF Journals, RestoreCommand, RestoreJournal, Agreement, MarkersCleared
  <2>3. restore'.phase = "none"
    BY <2>1 DEF NoRestore
  <2>4. CurrentSaves' = CurrentSaves
    BY <1>1, <1>2, <2>1, <2>2, <2>3, SavesAre, SavesWillBe DEF At
  <2> QED BY <1>1, <2>1, <2>2, <2>3, <2>4, NoProgress
<1>15. CASE QuarantineBackup
  <2>1. /\ op.kind \in Deleting /\ op.step = "quarantine"
        /\ backups' = [backups EXCEPT ![deletion.backup] = NoTree]
        /\ UNCHANGED <<user, data, launched, restore, stagedData, previousData>>
    BY <1>15 DEF QuarantineBackup, copyVars, restoreVars
  <2>2. backups[deletion.backup] # NoTree /\ deletion.backup \in Backups
    BY <2>1 DEF Journals, DeletionCommand, Visible, FilesType, DeletionNamed
  <2>3. CurrentSaves' = CurrentSaves
    BY <1>1, <2>1, SavesAre, SavesWillBe DEF At
  <2>4. Progress!Delete(deletion.backup)
    BY <1>1, <2>1, <2>2, <2>3 DEF Progress!Delete
  <2> QED BY <2>2, <2>4 DEF ProgressStep, Progress!Next
<1> QED
  BY <1>3, <1>4, <1>5, <1>6, <1>7, <1>8, <1>9, <1>11, <1>12, <1>13, <1>14, <1>15
     DEF BackupNext, RestoreOn

\* The progress a player makes is kept: whatever is launched, switched, restored or
\* recovered, and wherever any of it crashes, the saves the player would find change
\* only by the game and by a restore that was confirmed, backups are true copies of
\* them, and what a restore replaces is in a backup.
THEOREM ProgressIsKeptHolds == Spec => ProgressIsKept
<1>1. Init => Progress!Init
  <2> SUFFICES ASSUME Init PROVE Progress!Init
    OBVIOUS
  <2>1. /\ user = NoTree /\ launched = {} /\ session = NoSession /\ restore = NoRestore
        /\ backups = [b \in Backups |-> NoTree]
    BY DEF Init
  <2>2. session.child = "none" /\ restore.phase = "none"
    BY <2>1, NoSessionFields DEF NoRestore
  <2>3. CurrentSaves = Empty
    BY <2>1, <2>2, SavesAre DEF At
  <2>4. Empty \in Trees
    BY PlayerAssumption DEF Empty, Trees
  <2> QED BY <2>1, <2>2, <2>3, <2>4
             DEF Progress!Init, Progress!Trees, Trees, Progress!Empty, Empty, Starting
<1>2. PlayerInvariant /\ Journals /\ Agreement /\ Agreement' /\ [Next]_vars
        => [Progress!Next]_(Progress!vars)
  <2> SUFFICES ASSUME PlayerInvariant, Journals, Agreement, Agreement', [Next]_vars
               PROVE  ProgressStep
    BY DEF ProgressStep
  <2>1. CASE CollectEntry \/ ProvideEntry
    BY <2>1, EntryProgress
  <2>2. CASE Crash \/ UNCHANGED vars
    BY <2>2, Unmoved DEF Crash, vars, copyVars, versionVars, sessionVars, backupVars
  <2>3. CASE LaunchNext
    BY <2>3, LaunchProgress
  <2>4. CASE SwitchNext
    BY <2>4, SwitchProgress
  <2>5. CASE BackupNext
    BY <2>5, BackupProgress
  <2> QED BY <2>1, <2>2, <2>3, <2>4, <2>5 DEF Next
<1> QED
  BY <1>1, <1>2, PlayerInvariantHolds, JournalsHold, AgreementHolds, PTL
     DEF Spec, ProgressIsKept, Progress!Spec
=============================================================================
