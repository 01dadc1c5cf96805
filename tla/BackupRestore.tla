---------------------------- MODULE BackupRestore ---------------------------
(***************************************************************************)
(* Backups of the canonical saves (service/backups.rs): creating one,      *)
(* restoring one over the saves, deleting one, and what the next start     *)
(* does with a restore or a deletion that did not finish (recovery.rs,     *)
(* recover_restore and recover_backup_deletion).                           *)
(***************************************************************************)
EXTENDS PlayerData

Outside == <<versionVars, sessionVars>>
deletionVars == <<deletion, quarantine>>
restoreVars  == <<restore, stagedData, previousData>>

Snapshotting == {"backup", "restore"}
Restoring == {"restore", "recover restore"}
Deleting  == {"delete", "recover delete"}

\* A backup identity nobody has used; Room is the bound that there is one.
Unused(b) == backups[b] = NoTree /\ deletion.backup # b
Room == \E b \in Backups : Unused(b)

-----------------------------------------------------------------------------
(* Creating a backup.  Copying and publishing is one step: the port lock    *)
(* keeps the saves still, and a private copy that is not published is no    *)
(* backup.                                                                 *)

BeginBackup ==
    /\ Lockable /\ NoDeletionPending /\ Collectable /\ Room
    /\ op' = CollectFirst("backup", "publish", None)
    /\ UNCHANGED <<copyVars, Outside, backupVars, mishaps>>

\* create_backup_locked, of the command or for the safety copy of a restore; a
\* directory without a file makes no backup.
Snapshot(b) ==
    /\ At(user) # Empty
    /\ Unused(b)
    /\ backups' = [backups EXCEPT ![b] = user]

PublishBackup ==
    /\ op.kind = "backup" /\ op.step = "publish"
    /\ \/ \E b \in Backups : Snapshot(b)
       \/ At(user) = Empty /\ UNCHANGED backups
    /\ op' = Idle
    /\ UNCHANGED <<copyVars, Outside, restoreVars, deletionVars, mishaps>>

-----------------------------------------------------------------------------
(* Restoring.                                                              *)

BeginRestore(b) ==
    /\ Lockable /\ NoRestorePending /\ NoDeletionPending
    /\ backups[b] # NoTree /\ Room
    /\ op' = [CollectFirst("restore", "safety", None) EXCEPT !.backup = b]
    /\ UNCHANGED <<copyVars, Outside, backupVars, mishaps>>

CollectedForSnapshot ==
    /\ op.kind \in Snapshotting /\ Copied("collect")
    /\ op' = Then(IF op.kind = "backup" THEN "publish" ELSE "safety")
    /\ UNCHANGED <<copyVars, Outside, backupVars, mishaps>>

SafetyBackup ==
    /\ op.kind = "restore" /\ op.step = "safety"
    /\ \/ \E b \in Backups : Snapshot(b)
       \/ At(user) = Empty /\ UNCHANGED backups
    /\ op' = Then("prepare")
    /\ UNCHANGED <<copyVars, Outside, restoreVars, deletionVars, mishaps>>

\* The journal says prepared once the verified copy of the backup is staged.
\* When storing it fails, the error handling stores it again.
PrepareRestore ==
    /\ op.kind = "restore" /\ op.step = "prepare"
    /\ restore' = [phase |-> "prepared", replaces |-> user # NoTree]
    /\ stagedData' = backups[op.backup]
    /\ \/ op' = Then("review") /\ UNCHANGED mishaps
       \/ op' = Idle /\ Mishap
    /\ UNCHANGED <<copyVars, Outside, backups, previousData, deletionVars>>

\* The last review refuses: the preparation is abandoned durably, or, when the
\* abort itself cannot be stored, left for recovery to finish.
RefuseRestore ==
    /\ op.kind = "restore" /\ op.step = "review"
    /\ Mishap
    /\ \/ restore' = NoRestore /\ stagedData' = NoTree
       \/ UNCHANGED <<restore, stagedData>>
    /\ op' = Idle
    /\ UNCHANGED <<copyVars, Outside, backups, previousData, deletionVars>>

PassReview ==
    /\ op.kind = "restore" /\ op.step = "review"
    /\ op' = Then(IF restore.replaces THEN "aside" ELSE "install")
    /\ UNCHANGED <<copyVars, Outside, backupVars, mishaps>>

MoveAside ==
    /\ op.kind \in Restoring /\ op.step = "aside"
    /\ previousData' = user
    /\ user' = NoTree
    /\ op' = Then("install")
    /\ UNCHANGED <<data, launched, Outside, backups, restore, stagedData, deletionVars, mishaps>>

MoveIn ==
    /\ op.kind \in Restoring /\ op.step = "install"
    /\ user' = stagedData
    /\ stagedData' = NoTree
    /\ op' = Then("record")
    /\ UNCHANGED <<data, launched, Outside, backups, restore, previousData, deletionVars, mishaps>>

\* The second rename fails: the command tries to put the old directory back.
MoveInFails ==
    /\ op.kind = "restore" /\ op.step = "install"
    /\ Mishap
    /\ \/ restore.replaces /\ user' = previousData /\ previousData' = NoTree
       \/ UNCHANGED <<user, previousData>>
    /\ op' = Idle
    /\ UNCHANGED <<data, launched, Outside, backups, restore, stagedData, deletionVars>>

RecordPublished ==
    /\ op.kind \in Restoring /\ op.step = "record"
    /\ restore' = [restore EXCEPT !.phase = "published"]
    /\ op' = [op EXCEPT !.step = "sync", !.at = None, !.left = {}, !.todo = Installs]
    /\ UNCHANGED <<copyVars, Outside, backups, stagedData, previousData, deletionVars, mishaps>>

-----------------------------------------------------------------------------
(* synchronize_restored_user_data: every version gets exactly the restored  *)
(* saves, and only then loses its marker.                                  *)

SyncNext ==
    /\ op.kind \in Restoring /\ op.step = "sync" /\ op.at = None
    /\ \E i \in op.todo :
         op' = [op EXCEPT !.at = i, !.left = Entries, !.todo = @ \ {i}]
    /\ UNCHANGED <<copyVars, Outside, backupVars, mishaps>>

SyncEntry ==
    /\ op.kind \in Restoring /\ op.step = "sync"
    /\ \E e \in op.left :
         /\ data' = [data EXCEPT ![op.at][e] = At(user)[e]]
         /\ op' = Without(e)
    /\ UNCHANGED <<user, launched, Outside, backupVars, mishaps>>

ClearMarker ==
    /\ op.kind \in Restoring /\ Copied("sync") /\ op.at # None
    /\ launched' = launched \ {op.at}
    /\ op' = [op EXCEPT !.at = None]
    /\ UNCHANGED <<user, data, Outside, backupVars, mishaps>>

CommitRestore ==
    /\ op.kind \in Restoring /\ Copied("sync") /\ op.at = None /\ op.todo = {}
    /\ restore' = [restore EXCEPT !.phase = "committed"]
    /\ op' = Then("clean")
    /\ UNCHANGED <<copyVars, Outside, backups, stagedData, previousData, deletionVars, mishaps>>

RemovePrevious ==
    /\ op.kind \in Restoring /\ op.step = "clean"
    /\ previousData' = NoTree
    /\ op' = Then("retire")
    /\ UNCHANGED <<copyVars, Outside, backups, restore, stagedData, deletionVars, mishaps>>

RetireRestore ==
    /\ op.kind \in Restoring /\ op.step = "retire"
    /\ restore' = NoRestore
    /\ op' = Idle
    /\ UNCHANGED <<copyVars, Outside, backups, stagedData, previousData, deletionVars, mishaps>>

\* What recovery makes of a prepared journal, from the directories it finds.
PublicationStep ==
    LET there == <<stagedData # NoTree, user # NoTree, previousData # NoTree>>
    IN  CASE restore.replaces /\ there = <<TRUE, TRUE, FALSE>> -> "aside"
          [] restore.replaces /\ there = <<TRUE, FALSE, TRUE>> -> "install"
          [] restore.replaces /\ there = <<FALSE, TRUE, TRUE>> -> "record"
          [] ~restore.replaces /\ there = <<TRUE, FALSE, FALSE>> -> "install"
          [] ~restore.replaces /\ there = <<FALSE, TRUE, FALSE>> -> "record"
          [] OTHER -> "none"

\* Regression of RecoverRestore: a restore past its publication is not taken up again.
RecoverPreparedOnly ==
    /\ Lockable /\ restore.phase = "prepared"
    /\ PublicationStep # "none"
    /\ op' = Command("recover restore", PublicationStep)
    /\ UNCHANGED <<copyVars, Outside, backupVars, mishaps>>

RecoverRestore ==
    /\ Lockable /\ restore.phase # "none"
    /\ IF restore.phase = "prepared"
       THEN /\ PublicationStep # "none"
            /\ op' = Command("recover restore", PublicationStep)
       ELSE op' = [Command("recover restore", "sync") EXCEPT !.todo = Installs]
    /\ UNCHANGED <<copyVars, Outside, backupVars, mishaps>>

-----------------------------------------------------------------------------
(* Deleting a backup.                                                      *)

BeginDelete(b) ==
    /\ Lockable /\ NoDeletionPending
    /\ backups[b] # NoTree
    /\ deletion' = [phase |-> "prepared", backup |-> b]
    /\ op' = Command("delete", "quarantine")
    /\ UNCHANGED <<copyVars, Outside, backups, restoreVars, quarantine, mishaps>>

QuarantineBackup ==
    /\ op.kind \in Deleting /\ op.step = "quarantine"
    /\ quarantine' = backups[deletion.backup]
    /\ backups' = [backups EXCEPT ![deletion.backup] = NoTree]
    /\ op' = Then("record")
    /\ UNCHANGED <<copyVars, Outside, restoreVars, deletion, mishaps>>

RecordQuarantined ==
    /\ op.kind \in Deleting /\ op.step = "record"
    /\ deletion' = [deletion EXCEPT !.phase = "quarantined"]
    /\ op' = Then("remove")
    /\ UNCHANGED <<copyVars, Outside, backups, restoreVars, quarantine, mishaps>>

RemoveQuarantined ==
    /\ op.kind \in Deleting /\ op.step = "remove"
    /\ IF deletion.phase = "quarantined"
       THEN quarantine' = NoTree /\ deletion' = [deletion EXCEPT !.phase = "deleted"]
       ELSE UNCHANGED deletionVars
    /\ op' = Then("retire")
    /\ UNCHANGED <<copyVars, Outside, backups, restoreVars, mishaps>>

RetireDeletion ==
    /\ op.kind \in Deleting /\ op.step = "retire"
    /\ deletion' = NoDeletion
    /\ op' = Idle
    /\ UNCHANGED <<copyVars, Outside, backups, restoreVars, quarantine, mishaps>>

\* The journal and the two directories decide; both or neither is left alone.
RecoverDeletion ==
    /\ Lockable /\ deletion.phase # "none"
    /\ LET visible == backups[deletion.backup] # NoTree
           hidden  == quarantine # NoTree
       IN \/ deletion.phase = "prepared" /\ visible /\ ~hidden
               /\ op' = Command("recover delete", "quarantine")
          \/ deletion.phase = "prepared" /\ ~visible /\ hidden
               /\ op' = Command("recover delete", "record")
          \/ deletion.phase \in {"quarantined", "deleted"} /\ ~visible
               /\ op' = Command("recover delete", "remove")
    /\ UNCHANGED <<copyVars, Outside, backupVars, mishaps>>

\* Any other failing step ends the command where it is; its journal stays.
BackupFails ==
    /\ op.kind \in {"backup"} \cup Restoring \cup Deleting
    /\ Mishap
    /\ op' = Idle
    /\ UNCHANGED <<copyVars, Outside, backupVars>>

RestoreOn ==
    \/ MoveAside \/ MoveIn \/ RecordPublished
    \/ SyncNext \/ SyncEntry \/ ClearMarker \/ CommitRestore
    \/ RemovePrevious \/ RetireRestore

BackupNext ==
    \/ BeginBackup \/ CollectedForSnapshot \/ PublishBackup
    \/ (\E b \in Backups : BeginRestore(b) \/ BeginDelete(b))
    \/ SafetyBackup \/ PrepareRestore \/ RefuseRestore \/ PassReview
    \/ MoveInFails \/ RestoreOn \/ RecoverRestore
    \/ QuarantineBackup \/ RecordQuarantined \/ RemoveQuarantined
    \/ RetireDeletion \/ RecoverDeletion \/ BackupFails
=============================================================================
