----------------------------- MODULE PlayerData -----------------------------
(***************************************************************************)
(* Where the saves of one game live, and who may move them.                *)
(*                                                                         *)
(* The canonical copy is user/<port>.  Each installed version works on a   *)
(* copy of its own inside its directory, and carries a marker once it has  *)
(* been launched.  Commands of any process copy between the two, one entry *)
(* at a time, holding the port's lock file; a crash frees the lock and     *)
(* leaves the directories and the database rows as they are.  A game       *)
(* outlives the process that started it.                                   *)
(*                                                                         *)
(* This module holds the state and what every command shares.              *)
(* LaunchSession, VersionSwitch and BackupRestore are the commands, and    *)
(* PlayerLibrary composes them.                                            *)
(***************************************************************************)
EXTENDS Integers, FiniteSets

CONSTANTS
    Installs,       \* versions of the game that are installed
    Entries,        \* the persistent paths the catalog declares for it
    Backups,        \* identities a backup may get
    MaxVersion,     \* bound: how many times the game writes
    MaxMishaps,     \* bound: crashes and failed calls together
    None,           \* no install, no backup
    NoTree          \* a directory that does not exist

ASSUME PlayerAssumption ==
    /\ None \notin Installs \cup Backups
    /\ MaxVersion \in Nat /\ MaxMishaps \in Nat
    /\ NoTree \notin [Entries -> 0 .. MaxVersion]

VARIABLES
    user,           \* the canonical directory, or NoTree
    data,           \* each version's own copy
    launched,       \* the versions that carry the launched marker
    active, previous, staged,   \* the version pointers
    activation,     \* the target of an unfinished activation's journal
    session,        \* the port's unfinished launch session row
    played,         \* versions some session row shows a started game of
    written,        \* how many times the game has written
    backups,        \* the published backups
    restore,        \* the journal row of a restore past its preparation
    stagedData, previousData,   \* its directories under recovery/
    deletion,       \* the journal row of a backup deletion
    quarantine,     \* the directory it moves the backup to
    op,             \* the command that holds the port lock
    mishaps

copyVars    == <<user, data, launched>>
versionVars == <<active, previous, staged, activation>>
sessionVars == <<session, played, written>>
backupVars  == <<backups, restore, stagedData, previousData, deletion, quarantine>>
vars == <<copyVars, versionVars, sessionVars, backupVars, op, mishaps>>

Trees == [Entries -> 0 .. MaxVersion]     \* 0: the entry is missing
Empty == [e \in Entries |-> 0]
At(directory) == IF directory = NoTree THEN Empty ELSE directory

NoSession  == [phase |-> "none", install |-> None, asked |-> FALSE,
               window |-> "open", child |-> "none"]
NoRestore  == [phase |-> "none", replaces |-> FALSE]
NoDeletion == [phase |-> "none", backup |-> None]

\* A command: what it does next, the copy it works on, the entries still to be
\* copied there, the copies after it, and whether an earlier step failed.
Idle == [kind |-> "none", step |-> "none", at |-> None, left |-> {},
         todo |-> {}, backup |-> None, failed |-> FALSE]
Command(kind, step) == [Idle EXCEPT !.kind = kind, !.step = step]
Then(step) == [op EXCEPT !.step = step]
On(command, install) == [command EXCEPT !.at = install, !.left = Entries]
Copying(step, install) == On(Then(step), install)
Without(e) == [op EXCEPT !.left = @ \ {e}]
Failing(command) == [command EXCEPT !.failed = TRUE]

Phases == {"none", "preparing", "spawning", "running", "collecting"}
Kinds == {"none", "launch", "recover launch", "rollback", "activate", "recover activate",
          "backup", "restore", "recover restore", "delete", "recover delete",
          "relocate", "recover relocate"}
Steps == {"none", "collect", "provide", "close", "spawn", "identify", "mark", "wait",
          "finish", "commit", "publish", "safety", "prepare", "review", "aside",
          "install", "record", "sync", "clean", "retire", "quarantine", "remove",
          "copy", "place", "move"}

TypeOK ==
    /\ user \in Trees \cup {NoTree}
    /\ data \in [Installs -> Trees]
    /\ launched \subseteq Installs
    /\ active \in Installs
    /\ {previous, staged, activation} \subseteq Installs \cup {None}
    /\ session \in [phase : Phases, install : Installs \cup {None}, asked : BOOLEAN,
                    window : {"open", "closed"}, child : {"none", "alive", "gone"}]
    /\ played \subseteq Installs
    /\ written \in 0 .. MaxVersion
    /\ backups \in [Backups -> Trees \cup {NoTree}]
    /\ restore \in [phase : {"none", "prepared", "published", "committed"},
                    replaces : BOOLEAN]
    /\ {stagedData, previousData, quarantine} \subseteq Trees \cup {NoTree}
    /\ deletion \in [phase : {"none", "prepared", "quarantined", "deleted"},
                     backup : Backups \cup {None}]
    /\ op \in [kind : Kinds, step : Steps, at : Installs \cup {None},
               left : SUBSET Entries, todo : SUBSET Installs,
               backup : Backups \cup {None}, failed : BOOLEAN]
    /\ mishaps \in 0 .. MaxMishaps

-----------------------------------------------------------------------------
(* Guards the commands share.                                              *)

LockFree == op = Idle

\* Regression of Lockable: the unfinished session row is not looked at.
LockableUnderASession == LockFree

\* lock_port: the lock file and no unfinished launch session.
Lockable == LockFree /\ session = NoSession

NoRestorePending == restore.phase = "none"      \* require_completed_restore
NoDeletionPending == deletion.phase = "none"    \* require_completed_backup_deletion

\* Regression of Collectable: collecting while a restore is unfinished.
CollectableDuringRestore == TRUE

\* Only a version that ran has anything to collect; collecting needs the
\* restore to be over.
Collectable == active \in launched => NoRestorePending

\* Regression of CollectFirst: a version that never ran is collected too.
CollectAlways(kind, next, install) ==
    On(Command(kind, "collect"), active)

\* How every command that needs the saves starts: it collects the active version
\* if that ran, and goes on with the next step, on the copy it names, if not.
CollectFirst(kind, next, install) ==
    IF active \in launched
    THEN On(Command(kind, "collect"), active)
    ELSE On(Command(kind, next), install)

\* One more crash or failing call, within the bound.
Mishap == mishaps < MaxMishaps /\ mishaps' = mishaps + 1

-----------------------------------------------------------------------------
(* Copying, one entry at a time; each entry replaces the old one at once.  *)

\* collect_user_data_from: the version's copy becomes canonical; an entry that
\* is gone there goes here.
CollectEntry ==
    /\ op.step = "collect"
    /\ \E e \in op.left :
         /\ user' = IF user = NoTree /\ data[op.at][e] = 0
                    THEN NoTree
                    ELSE [At(user) EXCEPT ![e] = data[op.at][e]]
         /\ op' = Without(e)
    /\ UNCHANGED <<data, launched, versionVars, sessionVars, backupVars, mishaps>>

\* restore_user_data_to: the canonical copy goes to the version.  An entry the
\* player does not have is removed only from a version that was launched.
ProvideEntry ==
    /\ op.step = "provide"
    /\ \E e \in op.left :
         /\ data' = IF At(user)[e] = 0 /\ op.at \notin launched
                    THEN data
                    ELSE [data EXCEPT ![op.at][e] = At(user)[e]]
         /\ op' = Without(e)
    /\ UNCHANGED <<user, launched, versionVars, sessionVars, backupVars, mishaps>>

Copied(step) == op.step = step /\ op.left = {}

\* The process that runs the command dies.
Crash ==
    /\ op # Idle
    /\ Mishap
    /\ op' = Idle
    /\ UNCHANGED <<copyVars, versionVars, sessionVars, backupVars>>

-----------------------------------------------------------------------------
(* The saves the player would find in the game now.                        *)

CurrentSaves ==
    CASE session.child # "none" -> data[session.install]
      [] session.child = "none" /\ restore.phase # "none" ->
             IF user # NoTree THEN user ELSE At(previousData)
      [] session.child = "none" /\ restore.phase = "none" ->
             IF active \in launched THEN data[active] ELSE At(user)
=============================================================================
