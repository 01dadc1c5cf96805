------------------------ MODULE PlayerLibraryProofs -------------------------
(***************************************************************************)
(* Theorems about PlayerLibrary, for every number of versions, entries and *)
(* backups and every number of crashes: sessions and restores never wait   *)
(* for each other, a cancelled launch plays nothing, a running game keeps  *)
(* its files, and a session is closed only when its saves are canonical.   *)
(*                                                                         *)
(* The argument is about who holds the port lock.  A command of another    *)
(* kind than a launch or its recovery starts only when no session is       *)
(* unfinished, so while a session is, only its own commands move saves;    *)
(* and these follow the phases of the session row.                         *)
(***************************************************************************)
EXTENDS PlayerLibrary, TLAPS

SessionKinds == {"launch", "recover launch"}

Places == Installs \cup {None}
EntrySets == SUBSET Entries

SessionType ==
    [phase : Phases, install : Places, asked : BOOLEAN,
     window : {"open", "closed"}, child : {"none", "alive", "gone"}]
CommandType ==
    [kind : Kinds, step : Steps, at : Places,
     left : EntrySets, todo : SUBSET Installs,
     backup : Backups \cup {None}, failed : BOOLEAN]

Directories == Trees \cup {NoTree}
RestoreType == [phase : {"none", "prepared", "published", "committed"}, replaces : BOOLEAN]
DeletionType ==
    [phase : {"none", "prepared", "quarantined", "deleted"}, backup : Backups \cup {None}]

-----------------------------------------------------------------------------
(* The invariant.                                                          *)

\* Who holds the lock, and for what: any command that is not the session's own
\* excludes an unfinished session, and a session excludes an unfinished restore.
KindsAndSessions ==
    /\ op.kind = "none" => op = Idle
    /\ op.kind \in SessionKinds => session.phase # "none"
    /\ op.kind \notin SessionKinds \cup {"none"} => session = NoSession
    /\ session.phase = "none" => session = NoSession
    /\ session # NoSession => restore.phase = "none"

\* The session row follows the launch, step by step, and the recovery starts from
\* a row that says a game was started.
RowFollowsLaunch ==
    /\ op.kind = "launch" =>
         /\ op.step \in {"collect", "provide", "close", "spawn", "identify", "mark",
                          "wait", "finish"}
         /\ op.step \in {"provide", "close"} => session.phase = "preparing"
         /\ session.phase = "preparing" => op.step \in {"collect", "provide", "close"}
         /\ op.step = "close" => ~session.asked /\ session.window = "closed"
         /\ op.step = "spawn" =>
              session.phase = "spawning" /\ session.child = "none" /\ ~session.asked
         /\ op.step = "identify" =>
              session.phase = "spawning" /\ session.child # "none" /\ ~session.asked
         /\ op.step \in {"mark", "wait"} => session.phase \in {"running", "collecting"}
         /\ op.step = "collect" => session.phase # "spawning"
    /\ op.kind = "recover launch" =>
         /\ op.step \in {"wait", "collect", "finish"}
         /\ session.phase \in {"running", "collecting"}
    /\ session.phase = "preparing" => session.child = "none"
    /\ session.phase \in {"running", "collecting"} => session.child # "none"
    /\ session.child # "none" => ~session.asked

\* A version switch has a version to switch to.
TargetsExist ==
    /\ op.kind = "rollback" => previous \in Installs
    /\ op.kind \in {"activate", "recover activate"} /\ op.step # "retire"
         => activation \in Installs

\* A restore has a backup to restore.
RestoresHaveASource == op.kind = "restore" => op.backup \in Backups

\* Copies have a place to come from or go to; a session collects from its own version.
CopiesHaveAPlace ==
    op.step \in {"collect", "provide", "sync"} /\ op.left # {} => op.at \in Installs

SessionsHaveAPlace ==
    /\ session.phase # "none" => session.install \in Installs
    /\ op.step = "collect" /\ op.kind \in SessionKinds
         /\ session.phase # "preparing" => op.at = session.install

\* What has been collected stays so until the session is closed: the game is gone,
\* and every entry that is not left to copy is canonical.
CollectedSoFar ==
    /\ session.phase = "collecting" => session.child = "gone"
    /\ /\ op.kind \in SessionKinds /\ op.step \in {"collect", "finish"}
       /\ session.phase \in {"running", "collecting"}
       => /\ session.child = "gone"
          /\ op.step = "finish" => op.left = {}
          /\ \A e \in Entries \ op.left : At(user)[e] = data[session.install][e]

-----------------------------------------------------------------------------
(* Commands: what the ways to make one from another give.                  *)

\* No command.
LEMMA IdleFields ==
    /\ Idle \in CommandType
    /\ Idle.kind = "none" /\ Idle.step = "none"
    /\ Idle.left = {} /\ Idle.todo = {}
BY SMT DEF Idle, CommandType, Kinds, Steps, Places, EntrySets

\* A new command has the kind and the step it is given.
LEMMA CommandFields ==
    ASSUME NEW k \in Kinds, NEW s \in Steps
    PROVE  /\ Command(k, s) \in CommandType
           /\ Command(k, s).kind = k /\ Command(k, s).step = s
           /\ Command(k, s).left = {} /\ Command(k, s).todo = {}
BY IdleFields DEF Command, CommandType

\* The next step of a command.
LEMMA ThenFields ==
    ASSUME op \in CommandType, NEW s \in Steps
    PROVE  /\ Then(s) \in CommandType
           /\ Then(s).kind = op.kind /\ Then(s).step = s
           /\ Then(s).at = op.at /\ Then(s).left = op.left
           /\ Then(s).todo = op.todo /\ Then(s).backup = op.backup
           /\ Then(s).failed = op.failed
<1>1. Then(s) \in CommandType
  BY DEF Then, CommandType
<1>2. /\ Then(s).kind = op.kind /\ Then(s).step = s
      /\ Then(s).at = op.at /\ Then(s).left = op.left
      /\ Then(s).todo = op.todo /\ Then(s).backup = op.backup
      /\ Then(s).failed = op.failed
  BY DEF Then, CommandType
<1> QED BY <1>1, <1>2

\* A command that begins to copy.
LEMMA OnFields ==
    ASSUME NEW c \in CommandType, NEW i \in Places
    PROVE  /\ On(c, i) \in CommandType
           /\ On(c, i).kind = c.kind /\ On(c, i).step = c.step
           /\ On(c, i).at = i /\ On(c, i).left = Entries
           /\ On(c, i).todo = c.todo /\ On(c, i).backup = c.backup
           /\ On(c, i).failed = c.failed
<1>1. On(c, i) \in CommandType
  BY DEF On, CommandType, EntrySets
<1>2. /\ On(c, i).kind = c.kind /\ On(c, i).step = c.step
      /\ On(c, i).at = i /\ On(c, i).left = Entries
      /\ On(c, i).todo = c.todo /\ On(c, i).backup = c.backup
      /\ On(c, i).failed = c.failed
  BY DEF On, CommandType
<1> QED BY <1>1, <1>2

\* A command that goes on to copy.
LEMMA CopyingFields ==
    ASSUME op \in CommandType, NEW s \in Steps, NEW i \in Places
    PROVE  /\ Copying(s, i) \in CommandType
           /\ Copying(s, i).kind = op.kind /\ Copying(s, i).step = s
           /\ Copying(s, i).at = i /\ Copying(s, i).left = Entries
           /\ Copying(s, i).backup = op.backup
BY ThenFields, OnFields DEF Copying

\* A command with an entry less to copy.
LEMMA WithoutFields ==
    ASSUME op \in CommandType, NEW e \in op.left
    PROVE  /\ Without(e) \in CommandType
           /\ Without(e).kind = op.kind /\ Without(e).step = op.step
           /\ Without(e).at = op.at /\ Without(e).left = op.left \ {e}
           /\ Without(e).todo = op.todo /\ Without(e).backup = op.backup
           /\ Without(e).failed = op.failed
<1>1. Without(e) \in CommandType
  BY DEF Without, CommandType, EntrySets
<1>2. /\ Without(e).kind = op.kind /\ Without(e).step = op.step
      /\ Without(e).at = op.at /\ Without(e).left = op.left \ {e}
      /\ Without(e).todo = op.todo /\ Without(e).backup = op.backup
      /\ Without(e).failed = op.failed
  BY DEF Without, CommandType
<1> QED BY <1>1, <1>2

\* A command that remembers a failure.
LEMMA FailingFields ==
    ASSUME NEW c \in CommandType
    PROVE  /\ Failing(c) \in CommandType
           /\ Failing(c).kind = c.kind /\ Failing(c).step = c.step
           /\ Failing(c).at = c.at /\ Failing(c).left = c.left
           /\ Failing(c).backup = c.backup
<1>1. Failing(c) \in CommandType
  BY DEF Failing, CommandType
<1>2. /\ Failing(c).kind = c.kind /\ Failing(c).step = c.step
      /\ Failing(c).at = c.at /\ Failing(c).left = c.left
      /\ Failing(c).backup = c.backup
  BY DEF Failing, CommandType
<1> QED BY <1>1, <1>2

\* A command that needs the saves collects first, or goes on with its next step.
LEMMA CollectFirstFields ==
    ASSUME NEW k \in Kinds, NEW s \in Steps, NEW i \in Places, active \in Places
    PROVE  /\ CollectFirst(k, s, i) \in CommandType
           /\ CollectFirst(k, s, i).kind = k
           /\ CollectFirst(k, s, i).left = Entries
           /\ active \in launched => CollectFirst(k, s, i).step = "collect"
                                     /\ CollectFirst(k, s, i).at = active
           /\ active \notin launched => CollectFirst(k, s, i).step = s
                                     /\ CollectFirst(k, s, i).at = i
<1>1. "collect" \in Steps
  BY DEF Steps
<1>2. CASE active \in launched
  <2>1. CollectFirst(k, s, i) = On(Command(k, "collect"), active)
    BY <1>2 DEF CollectFirst
  <2> QED BY <1>1, <1>2, <2>1, CommandFields, OnFields
<1>3. CASE active \notin launched
  <2>1. CollectFirst(k, s, i) = On(Command(k, s), i)
    BY <1>3 DEF CollectFirst
  <2> QED BY <1>3, <2>1, CommandFields, OnFields
<1> QED BY <1>2, <1>3

\* The same, where it does not matter which.
LEMMA CollectFirstKind ==
    ASSUME NEW k \in Kinds, NEW s \in Steps, NEW i \in Places, active \in Places
    PROVE  /\ CollectFirst(k, s, i) \in CommandType
           /\ CollectFirst(k, s, i).kind = k
           /\ CollectFirst(k, s, i).step \in {"collect", s}
           /\ CollectFirst(k, s, i).at \in {active, i}
<1>1. CASE active \in launched
  BY <1>1, CollectFirstFields
<1>2. CASE active \notin launched
  BY <1>2, CollectFirstFields
<1> QED BY <1>1, <1>2

-----------------------------------------------------------------------------
(* Commands that are no launches.                                          *)

OtherKinds == Kinds \ (SessionKinds \cup {"none"})

PointersTyped == active \in Installs /\ {previous, staged, activation} \subseteq Places

\* How such a command goes on, ends, or begins.
OtherStep ==
    /\ op' \in CommandType
    /\ \/ op.kind \in OtherKinds /\ (op' = Idle \/ op'.kind = op.kind)
       \/ Lockable /\ op'.kind \in OtherKinds

SwitchOp == op' = Idle \/ op'.kind \in Switching

\* A version switch is such a command, and has a version to switch to.
LEMMA SwitchStep ==
    ASSUME op \in CommandType, PointersTyped, TargetsExist, CopiesHaveAPlace, SwitchNext
    PROVE  /\ OtherStep /\ PointersTyped' /\ TargetsExist' /\ CopiesHaveAPlace'
           /\ RestoresHaveASource' /\ SwitchOp
           /\ UNCHANGED <<copyVars, sessionVars, backupVars>>
<1> USE DEF PointersTyped
<1> /\ active \in Places /\ None \in Places /\ Installs \subseteq Places
    /\ Switching \subseteq OtherKinds /\ Switching \subseteq Kinds
    /\ "restore" \notin Switching
    /\ {"provide", "retire"} \subseteq Steps
  BY DEF Places, Switching, OtherKinds, Kinds, SessionKinds, Steps
<1>1. CASE BeginRollback
  <2>1. /\ op' = CollectFirst("rollback", "provide", previous)
        /\ Lockable /\ previous \in Installs
        /\ UNCHANGED <<active, previous, staged, activation>>
        /\ UNCHANGED <<copyVars, sessionVars, backupVars>>
    BY <1>1 DEF BeginRollback, versionVars, Elsewhere, Places
  <2>2. "rollback" \in Switching
    BY DEF Switching
  <2>3. /\ op' \in CommandType /\ op'.kind = "rollback"
        /\ op'.at \in Installs
    BY <2>1, <2>2, CollectFirstKind
  <2> QED BY <2>1, <2>2, <2>3
             DEF OtherStep, TargetsExist, CopiesHaveAPlace, RestoresHaveASource, SwitchOp
<1>2. CASE BeginActivation
  <2>1. /\ op' = CollectFirst("activate", "provide", staged)
        /\ Lockable /\ staged \in Installs /\ activation' = staged
        /\ UNCHANGED <<active, previous, staged>>
        /\ UNCHANGED <<copyVars, sessionVars, backupVars>>
    BY <1>2 DEF BeginActivation, Elsewhere, Places
  <2>2. "activate" \in Switching
    BY DEF Switching
  <2>3. /\ op' \in CommandType /\ op'.kind = "activate"
        /\ op'.at \in Installs
    BY <2>1, <2>2, CollectFirstKind
  <2> QED BY <2>1, <2>2, <2>3
             DEF OtherStep, TargetsExist, CopiesHaveAPlace, RestoresHaveASource, SwitchOp
<1>3. CASE ProvideToTarget
  <2>1. /\ op.kind \in Switching /\ op.step = "collect"
        /\ op' = Copying("provide", Target(op.kind))
        /\ UNCHANGED <<active, previous, staged, activation>>
        /\ UNCHANGED <<copyVars, sessionVars, backupVars>>
    BY <1>3 DEF ProvideToTarget, versionVars, Elsewhere, Copied
  <2>2. Target(op.kind) \in Installs
    BY <2>1 DEF Target, TargetsExist, Switching
  <2>3. /\ op' \in CommandType /\ op'.kind = op.kind
        /\ op'.at \in Installs /\ op'.step = "provide"
    BY <2>1, <2>2, CopyingFields
  <2> QED BY <2>1, <2>2, <2>3
             DEF OtherStep, TargetsExist, CopiesHaveAPlace, RestoresHaveASource, SwitchOp
<1>4. CASE MovePointers
  <2>0. /\ op.kind \in Switching /\ op.step = "provide"
        /\ active' = Target(op.kind) /\ previous' = active /\ activation' = activation
        /\ UNCHANGED <<copyVars, sessionVars, backupVars>>
    BY <1>4 DEF MovePointers, Elsewhere, Copied
  <2>1. \/ op' = Idle /\ staged' = staged
        \/ op' = Then("retire") /\ staged' = None
    BY Zenon, <1>4 DEF MovePointers
  <2>2. Target(op.kind) \in Installs
    BY <2>0 DEF Target, TargetsExist, Switching
  <2>3. CASE op' = Idle /\ staged' = staged
    BY <2>0, <2>2, <2>3, IdleFields
       DEF OtherStep, TargetsExist, CopiesHaveAPlace, RestoresHaveASource, SwitchOp
  <2>4. CASE op' = Then("retire") /\ staged' = None
    <3>1. op' \in CommandType /\ op'.kind = op.kind /\ op'.step = "retire"
      BY <2>4, ThenFields
    <3> QED BY <2>0, <2>2, <2>4, <3>1
               DEF OtherStep, TargetsExist, CopiesHaveAPlace, RestoresHaveASource, SwitchOp
  <2> QED BY <2>1, <2>3, <2>4
<1>5. CASE RetireActivation \/ SwitchFails
  <2>1. /\ op.kind \in Switching /\ op' = Idle
        /\ activation' \in Places
        /\ UNCHANGED <<active, previous, staged>>
        /\ UNCHANGED <<copyVars, sessionVars, backupVars>>
    BY <1>5 DEF RetireActivation, SwitchFails, Elsewhere
  <2> QED BY <2>1, IdleFields
             DEF OtherStep, TargetsExist, CopiesHaveAPlace, RestoresHaveASource, SwitchOp
<1>6. CASE RecoverActivation
  <2>1. /\ Lockable /\ activation \in Installs
        /\ \/ op' = Command("recover activate", "retire")
           \/ op' = CollectFirst("recover activate", "provide", activation)
        /\ UNCHANGED <<active, previous, staged, activation>>
        /\ UNCHANGED <<copyVars, sessionVars, backupVars>>
    BY <1>6 DEF RecoverActivation, versionVars, Elsewhere, Places
  <2>2. "recover activate" \in Switching
    BY DEF Switching
  <2>3. CASE op' = Command("recover activate", "retire")
    <3>1. op' \in CommandType /\ op'.kind = "recover activate" /\ op'.step = "retire"
      BY <2>2, <2>3, CommandFields
    <3> QED BY <2>1, <2>2, <3>1
               DEF OtherStep, TargetsExist, CopiesHaveAPlace, RestoresHaveASource, SwitchOp
  <2>4. CASE op' = CollectFirst("recover activate", "provide", activation)
    <3>1. "recover activate" # "rollback"
      OBVIOUS
    <3>2. PICK k \in Switching \ {"rollback"} : op' = CollectFirst(k, "provide", activation)
      BY Zenon, <2>2, <2>4, <3>1
    <3>3. k \in Kinds /\ "provide" \in Steps /\ activation \in Places
      BY <2>1
    <3>4. op' \in CommandType /\ op'.kind = k /\ op'.at \in {active, activation}
      BY <3>2, <3>3, CollectFirstKind
    <3>5. OtherStep /\ SwitchOp
      BY <2>1, <3>4 DEF OtherStep, SwitchOp
    <3>6. PointersTyped' /\ TargetsExist'
      BY <2>1, <3>4 DEF TargetsExist
    <3>7. CopiesHaveAPlace' /\ RestoresHaveASource'
      BY <2>1, <3>4 DEF CopiesHaveAPlace, RestoresHaveASource
    <3>8. UNCHANGED <<copyVars, sessionVars, backupVars>>
      BY <2>1
    <3> QED BY <3>5, <3>6, <3>7, <3>8
  <2> QED BY <2>1, <2>3, <2>4
<1> QED
  BY <1>1, <1>2, <1>3, <1>4, <1>5, <1>6 DEF SwitchNext

BackupKinds == {"backup", "restore", "recover restore", "delete", "recover delete"}
PlainSteps == Steps \ {"collect", "provide", "sync"}
VersionsKept == UNCHANGED <<versionVars, sessionVars>>
BackupGoal == /\ OtherStep /\ TargetsExist' /\ CopiesHaveAPlace'
              /\ RestoresHaveASource' /\ VersionsKept

\* So is a backup, a restore, a deletion, and the recovery of one.
LEMMA BackupStep ==
    ASSUME op \in CommandType, PointersTyped, CopiesHaveAPlace, RestoresHaveASource, BackupNext
    PROVE  BackupGoal
<1>kinds. /\ BackupKinds \subseteq OtherKinds /\ BackupKinds \subseteq Kinds
          /\ \A k \in BackupKinds : k \notin {"rollback", "activate", "recover activate"}
          /\ Restoring \subseteq BackupKinds /\ Deleting \subseteq BackupKinds
          /\ Snapshotting \subseteq BackupKinds
          /\ {"backup", "restore", "recover restore", "delete", "recover delete"}
               \subseteq BackupKinds
  BY DEF BackupKinds, OtherKinds, Kinds, SessionKinds, Restoring, Deleting, Snapshotting
<1>steps. /\ {"publish", "safety", "prepare", "review", "aside", "install", "record",
               "clean", "retire", "quarantine", "remove"} \subseteq PlainSteps
          /\ PlainSteps \subseteq Steps /\ {"collect", "sync"} \subseteq Steps
  BY DEF Steps, PlainSteps
<1>1. ASSUME op' \in CommandType, op.kind \in BackupKinds, op'.kind = op.kind,
             op'.backup = op.backup,
             op'.step \in {"collect", "provide", "sync"} /\ op'.left # {}
               => op'.at \in Installs,
             VersionsKept
      PROVE  BackupGoal
  <2>1. OtherStep
    BY <1>1, <1>kinds DEF OtherStep
  <2>2. TargetsExist'
    <3>1. op'.kind \in BackupKinds
      BY <1>1
    <3> QED BY <3>1, <1>kinds DEF TargetsExist
  <2>3. CopiesHaveAPlace'
    BY <1>1 DEF CopiesHaveAPlace
  <2>4. RestoresHaveASource'
    BY <1>1 DEF RestoresHaveASource
  <2> QED BY <1>1, <2>1, <2>2, <2>3, <2>4 DEF BackupGoal
<1>2. ASSUME NEW s \in PlainSteps, op.kind \in BackupKinds, op' = Then(s), VersionsKept
      PROVE  BackupGoal
  <2>1. op' \in CommandType /\ op'.kind = op.kind /\ op'.step = s /\ op'.backup = op.backup
    BY <1>2, <1>steps, ThenFields
  <2>2. s \notin {"collect", "provide", "sync"}
    BY DEF PlainSteps
  <2> QED BY <1>1, <1>2, <2>1, <2>2
<1>3. ASSUME op.kind \in BackupKinds, op' = Idle, VersionsKept
      PROVE  BackupGoal
  BY <1>3, <1>kinds, IdleFields
     DEF OtherStep, TargetsExist, CopiesHaveAPlace, RestoresHaveASource, BackupGoal
<1>4. ASSUME Lockable, op' \in CommandType, op'.kind \in BackupKinds, VersionsKept,
             RestoresHaveASource',
             op'.step \in {"collect", "provide", "sync"} /\ op'.left # {}
               => op'.at \in Installs
      PROVE  BackupGoal
  <2>1. OtherStep
    BY <1>4, <1>kinds DEF OtherStep
  <2>2. TargetsExist'
    <3>1. op'.kind \in BackupKinds
      BY <1>4
    <3> QED BY <3>1, <1>kinds DEF TargetsExist
  <2>3. CopiesHaveAPlace'
    BY <1>4 DEF CopiesHaveAPlace
  <2> QED BY <1>4, <2>1, <2>2, <2>3 DEF BackupGoal
<1>5. ASSUME NEW k \in BackupKinds, NEW s \in PlainSteps, k # "restore",
             Lockable, op' = Command(k, s), VersionsKept
      PROVE  BackupGoal
  <2>1. op' \in CommandType /\ op'.kind = k /\ op'.step = s
    BY <1>5, <1>kinds, <1>steps, CommandFields
  <2>2. s \notin {"collect", "provide", "sync"}
    BY DEF PlainSteps
  <2>3. RestoresHaveASource'
    BY <1>5, <2>1 DEF RestoresHaveASource
  <2> QED BY <1>4, <1>5, <2>1, <2>2, <2>3
<1>6. CASE BeginBackup \/ \E b \in Backups : BeginRestore(b)
  <2> /\ active \in Places /\ active \in Installs /\ None \in Places
    BY DEF PointersTyped, Places
  <2>1. CASE BeginBackup
    <3>1. Lockable /\ op' = CollectFirst("backup", "publish", None) /\ VersionsKept
      BY <2>1 DEF BeginBackup, Outside, VersionsKept
    <3>2. /\ op' \in CommandType /\ op'.kind = "backup" /\ op'.step \in {"collect", "publish"}
          /\ op'.step = "collect" => op'.at = active
      <4>1. "backup" \in Kinds /\ "publish" \in Steps
        BY DEF Kinds, Steps
      <4> QED BY <3>1, <4>1, CollectFirstFields
    <3>3. RestoresHaveASource'
      BY <3>2 DEF RestoresHaveASource
    <3> QED BY <1>4, <1>kinds, <3>1, <3>2, <3>3
  <2>2. ASSUME NEW b \in Backups, BeginRestore(b)
        PROVE  BackupGoal
    <3> DEFINE c == CollectFirst("restore", "safety", None)
    <3>1. Lockable /\ op' = [c EXCEPT !.backup = b] /\ VersionsKept
      BY <2>2 DEF BeginRestore, Outside, VersionsKept
    <3>2. /\ c \in CommandType /\ c.kind = "restore" /\ c.step \in {"collect", "safety"}
          /\ c.step = "collect" => c.at = active
      <4>1. "restore" \in Kinds /\ "safety" \in Steps
        BY DEF Kinds, Steps
      <4> QED BY <4>1, CollectFirstFields
    <3> HIDE DEF c
    <3>3. op' \in CommandType
      BY <3>1, <3>2 DEF CommandType
    <3>4. op'.kind = c.kind /\ op'.step = c.step /\ op'.at = c.at /\ op'.backup = b
      BY <3>1, <3>2 DEF CommandType
    <3>5. RestoresHaveASource'
      BY <3>4 DEF RestoresHaveASource
    <3> QED BY <1>4, <1>kinds, <3>1, <3>2, <3>3, <3>4, <3>5
  <2> QED BY <1>6, <2>1, <2>2
<1>7. CASE CollectedForSnapshot
  <2>1. op.kind \in BackupKinds /\ VersionsKept
    BY <1>7, <1>kinds DEF CollectedForSnapshot, Outside, VersionsKept
  <2>2. op' = Then("publish") \/ op' = Then("safety")
    BY Zenon, <1>7 DEF CollectedForSnapshot
  <2> QED BY <1>2, <1>steps, <2>1, <2>2
<1>8. CASE PublishBackup \/ RefuseRestore \/ MoveInFails \/ RetireRestore
           \/ RetireDeletion \/ BackupFails
  <2>1. op.kind \in BackupKinds /\ VersionsKept /\ op' = Idle
    <3>1. CASE PublishBackup
      BY <3>1, <1>kinds DEF PublishBackup, Outside, VersionsKept
    <3>2. CASE RefuseRestore
      BY <3>2, <1>kinds DEF RefuseRestore, Outside, VersionsKept
    <3>3. CASE MoveInFails
      BY <3>3, <1>kinds DEF MoveInFails, Outside, VersionsKept
    <3>4. CASE RetireRestore
      BY <3>4, <1>kinds DEF RetireRestore, Outside, VersionsKept
    <3>5. CASE RetireDeletion
      BY <3>5, <1>kinds DEF RetireDeletion, Outside, VersionsKept
    <3>6. CASE BackupFails
      BY <3>6, <1>kinds DEF BackupFails, Outside, VersionsKept
    <3> QED BY <1>8, <3>1, <3>2, <3>3, <3>4, <3>5, <3>6
  <2> QED BY <1>3, <2>1
<1>9. CASE SafetyBackup \/ PrepareRestore \/ PassReview
  <2>1. op.kind \in BackupKinds /\ VersionsKept
    BY <1>9, <1>kinds DEF SafetyBackup, PrepareRestore, PassReview, Outside, VersionsKept
  <2>2. \/ op' = Then("prepare") \/ op' = Then("review") \/ op' = Idle
        \/ op' = Then("aside") \/ op' = Then("install")
    BY Zenon, <1>9 DEF SafetyBackup, PrepareRestore, PassReview
  <2> QED BY <1>2, <1>3, <1>steps, <2>1, <2>2
<1>10. CASE MoveAside \/ MoveIn \/ CommitRestore \/ RemovePrevious
  <2>1. op.kind \in BackupKinds /\ VersionsKept
    BY <1>10, <1>kinds
       DEF MoveAside, MoveIn, CommitRestore, RemovePrevious, Outside, VersionsKept
  <2>2. \/ op' = Then("install") \/ op' = Then("record") \/ op' = Then("clean")
        \/ op' = Then("retire")
    BY <1>10 DEF MoveAside, MoveIn, CommitRestore, RemovePrevious
  <2> QED BY <1>2, <1>steps, <2>1, <2>2
<1>11. CASE RecordPublished \/ SyncNext
  <2> None \in Places
    BY DEF Places
  <2>1. CASE RecordPublished
    <3>1. /\ op.kind \in BackupKinds /\ VersionsKept
          /\ op' = [op EXCEPT !.step = "sync", !.at = None, !.left = {}, !.todo = Installs]
      BY <2>1, <1>kinds DEF RecordPublished, Outside, VersionsKept
    <3>2. op' \in CommandType
      BY <3>1, <1>steps DEF CommandType, EntrySets
    <3>3. op'.kind = op.kind /\ op'.left = {} /\ op'.backup = op.backup
      BY <3>1 DEF CommandType
    <3> QED BY <1>1, <3>1, <3>2, <3>3
  <2>2. CASE SyncNext
    <3>1. op.kind \in BackupKinds /\ VersionsKept
      BY <2>2, <1>kinds DEF SyncNext, Outside, VersionsKept
    <3>2. PICK i \in op.todo :
            op' = [op EXCEPT !.at = i, !.left = Entries, !.todo = op.todo \ {i}]
      BY <2>2 DEF SyncNext
    <3>3. i \in Installs /\ i \in Places /\ op.todo \ {i} \in SUBSET Installs
      BY DEF CommandType, Places
    <3>4. op' \in CommandType
      BY <3>2, <3>3 DEF CommandType, EntrySets
    <3>5. op'.kind = op.kind /\ op'.at = i /\ op'.backup = op.backup
      BY <3>2 DEF CommandType
    <3> QED BY <1>1, <3>1, <3>3, <3>4, <3>5
  <2> QED BY <1>11, <2>1, <2>2
<1>12. CASE SyncEntry \/ ClearMarker
  <2>1. CASE SyncEntry
    <3>1. op.kind \in BackupKinds /\ op.step = "sync" /\ VersionsKept
      BY <2>1, <1>kinds DEF SyncEntry, Outside, VersionsKept
    <3>2. PICK e \in op.left : op' = Without(e)
      BY <2>1 DEF SyncEntry
    <3>3. /\ op' \in CommandType /\ op'.kind = op.kind /\ op'.at = op.at
          /\ op'.backup = op.backup
      BY <3>2, WithoutFields
    <3>4. op.at \in Installs
      BY <3>1, <3>2 DEF CopiesHaveAPlace
    <3> QED BY <1>1, <3>1, <3>3, <3>4
  <2>2. CASE ClearMarker
    <3>1. op.kind \in BackupKinds /\ op.left = {} /\ op' = [op EXCEPT !.at = None] /\ VersionsKept
      BY <2>2, <1>kinds DEF ClearMarker, Copied, Outside, VersionsKept
    <3>2. None \in Places
      BY DEF Places
    <3>3. op' \in CommandType
      BY <3>1, <3>2 DEF CommandType
    <3>4. op'.kind = op.kind /\ op'.left = {} /\ op'.backup = op.backup
      BY <3>1 DEF CommandType
    <3> QED BY <1>1, <3>1, <3>3, <3>4
  <2> QED BY <1>12, <2>1, <2>2
<1>13. CASE RecoverRestore
  <2>1. Lockable /\ VersionsKept
    BY <1>13 DEF RecoverRestore, Outside, VersionsKept
  <2>2. \/ \E s \in PlainSteps : op' = Command("recover restore", s)
        \/ op' = [Command("recover restore", "sync") EXCEPT !.todo = Installs]
    <3>1. PublicationStep # "none" => PublicationStep \in PlainSteps
      BY <1>steps DEF PublicationStep
    <3> QED BY Zenon, <1>13, <3>1 DEF RecoverRestore
  <2>3. CASE \E s \in PlainSteps : op' = Command("recover restore", s)
    BY <1>5, <1>kinds, <2>1, <2>3
  <2>4. CASE op' = [Command("recover restore", "sync") EXCEPT !.todo = Installs]
    <3> DEFINE c == Command("recover restore", "sync")
    <3>1. c \in CommandType /\ c.kind = "recover restore" /\ c.left = {}
      <4>1. "recover restore" \in Kinds /\ "sync" \in Steps
        BY <1>kinds, <1>steps
      <4> QED BY <4>1, CommandFields
    <3>2. op' = [c EXCEPT !.todo = Installs]
      BY <2>4
    <3> HIDE DEF c
    <3>3. op' \in CommandType
      BY <3>1, <3>2 DEF CommandType
    <3>4. op'.kind = "recover restore" /\ op'.left = {}
      BY <3>1, <3>2 DEF CommandType
    <3>5. RestoresHaveASource'
      BY <3>4 DEF RestoresHaveASource
    <3> QED BY <1>4, <1>kinds, <2>1, <3>3, <3>4, <3>5
  <2> QED BY <2>2, <2>3, <2>4
<1>14. CASE \E b \in Backups : BeginDelete(b)
  <2>1. Lockable /\ op' = Command("delete", "quarantine") /\ VersionsKept
    BY <1>14 DEF BeginDelete, Outside, VersionsKept
  <2> QED BY <1>5, <1>kinds, <1>steps, <2>1
<1>15. CASE QuarantineBackup \/ RecordQuarantined \/ RemoveQuarantined
  <2>1. op.kind \in BackupKinds /\ VersionsKept
    BY <1>15, <1>kinds
       DEF QuarantineBackup, RecordQuarantined, RemoveQuarantined, Outside, VersionsKept
  <2>2. op' = Then("record") \/ op' = Then("remove") \/ op' = Then("retire")
    BY <1>15 DEF QuarantineBackup, RecordQuarantined, RemoveQuarantined
  <2> QED BY <1>2, <1>steps, <2>1, <2>2
<1>16. CASE RecoverDeletion
  <2>1. Lockable /\ VersionsKept
    BY <1>16 DEF RecoverDeletion, Outside, VersionsKept
  <2>2. \/ op' = Command("recover delete", "quarantine")
        \/ op' = Command("recover delete", "record")
        \/ op' = Command("recover delete", "remove")
    BY <1>16 DEF RecoverDeletion
  <2> QED BY <1>5, <1>kinds, <1>steps, <2>1, <2>2
<1> QED
  BY <1>6, <1>7, <1>8, <1>9, <1>10, <1>11, <1>12, <1>13, <1>14, <1>15, <1>16
     DEF BackupNext, RestoreOn

-----------------------------------------------------------------------------
(* Launches and their recovery.                                            *)

\* The row in its next phase.
LEMMA InPhaseFields ==
    ASSUME session \in SessionType, NEW p \in Phases
    PROVE  /\ InPhase(p) \in SessionType
           /\ InPhase(p).phase = p /\ InPhase(p).install = session.install
           /\ InPhase(p).asked = session.asked /\ InPhase(p).window = session.window
           /\ InPhase(p).child = session.child
<1>1. InPhase(p) \in SessionType
  BY DEF InPhase, SessionType
<1>2. /\ InPhase(p).phase = p /\ InPhase(p).install = session.install
      /\ InPhase(p).asked = session.asked /\ InPhase(p).window = session.window
      /\ InPhase(p).child = session.child
  BY DEF InPhase, SessionType
<1> QED BY <1>1, <1>2

\* The row with what is known of the game.
LEMMA WithChildFields ==
    ASSUME session \in SessionType, NEW c \in {"none", "alive", "gone"}
    PROVE  /\ WithChild(c) \in SessionType
           /\ WithChild(c).phase = session.phase /\ WithChild(c).install = session.install
           /\ WithChild(c).asked = session.asked /\ WithChild(c).window = session.window
           /\ WithChild(c).child = c
<1>1. WithChild(c) \in SessionType
  BY DEF WithChild, SessionType
<1>2. /\ WithChild(c).phase = session.phase /\ WithChild(c).install = session.install
      /\ WithChild(c).asked = session.asked /\ WithChild(c).window = session.window
      /\ WithChild(c).child = c
  BY DEF WithChild, SessionType
<1> QED BY <1>1, <1>2

\* No row.
LEMMA NoSessionFields ==
    /\ NoSession \in SessionType
    /\ NoSession.phase = "none" /\ NoSession.child = "none" /\ NoSession.asked = FALSE
BY DEF NoSession, SessionType, Phases, Places

\* A row in a phase is a row.
LEMMA NoSessionPhase == \A s \in SessionType : s.phase # "none" => s # NoSession
BY NoSessionFields

\* What a step of a launch has to keep.
RowKept ==
    /\ op \in CommandType /\ session \in SessionType
    /\ KindsAndSessions /\ RowFollowsLaunch
    /\ CopiesHaveAPlace /\ SessionsHaveAPlace
RowContext == UNCHANGED <<versionVars, backupVars>>
LaunchOp == op' = op \/ op' = Idle \/ op'.kind \in SessionKinds

\* A step to Idle keeps it, whether the row stays or goes.
LEMMA LeaveStep ==
    ASSUME RowKept, op' = Idle, session' \in {session, NoSession}, UNCHANGED restore
    PROVE  RowKept' /\ LaunchOp
<1> USE DEF RowKept
<1>1. op' \in CommandType /\ op'.kind = "none" /\ op'.step = "none"
  BY IdleFields
<1>2. CASE session' = session
  BY <1>1, <1>2
     DEF KindsAndSessions, RowFollowsLaunch, CopiesHaveAPlace, SessionsHaveAPlace, SessionKinds,
         LaunchOp
<1>3. CASE session' = NoSession
  BY <1>1, <1>3, NoSessionFields
     DEF KindsAndSessions, RowFollowsLaunch, CopiesHaveAPlace, SessionsHaveAPlace, SessionKinds,
         LaunchOp
<1> QED BY <1>2, <1>3

\* A step of the command that leaves the row alone.
LEMMA CommandStep ==
    ASSUME RowKept, UNCHANGED <<session, restore>>,
           op' \in CommandType, op'.kind \in SessionKinds, session.phase # "none",
           op'.kind = "launch" =>
             \/ op'.step \in {"collect", "provide"} /\ session.phase = "preparing"
             \/ op'.step = "wait" /\ session.phase \in {"running", "collecting"}
             \/ op'.step = "collect" /\ session.phase \in {"running", "collecting"}
             \/ op'.step = "finish" /\ session.phase # "preparing",
           op'.kind = "recover launch" =>
             op'.step \in {"wait", "collect", "finish"}
               /\ session.phase \in {"running", "collecting"},
           op'.step \in {"collect", "provide"} => op'.at = session.install
    PROVE  RowKept' /\ LaunchOp
<1> USE DEF RowKept
<1>1. KindsAndSessions'
  BY DEF KindsAndSessions, SessionKinds
<1>2. RowFollowsLaunch'
  BY DEF RowFollowsLaunch, SessionKinds
<1>3. CopiesHaveAPlace' /\ SessionsHaveAPlace'
  BY DEF CopiesHaveAPlace, SessionsHaveAPlace, RowFollowsLaunch, SessionKinds
<1> QED BY <1>1, <1>2, <1>3 DEF LaunchOp

\* A step that moves the row and its command on together.
LEMMA TogetherStep ==
    ASSUME RowKept, UNCHANGED restore,
           op' \in CommandType, op'.kind \in SessionKinds, session' \in SessionType,
           session'.phase # "none", restore.phase = "none",
           op'.step \in {"collect", "provide", "sync"} => op'.at = session'.install,
           session'.install \in Installs,
           op'.kind = "recover launch" =>
             op'.step \in {"wait", "collect", "finish"}
               /\ session'.phase \in {"running", "collecting"},
           \/ op'.step \in {"collect", "provide"} /\ session'.phase = "preparing"
                /\ session'.child = "none"
           \/ op'.step = "close" /\ session'.phase = "preparing" /\ session'.child = "none"
                /\ ~session'.asked /\ session'.window = "closed"
           \/ op'.step = "spawn" /\ session'.phase = "spawning" /\ session'.child = "none"
                /\ ~session'.asked
           \/ op'.step = "identify" /\ session'.phase = "spawning" /\ session'.child # "none"
                /\ ~session'.asked
           \/ op'.step \in {"mark", "wait", "collect"}
                /\ session'.phase \in {"running", "collecting"} /\ session'.child # "none" /\ ~session'.asked
           \/ op'.step = "finish" /\ session'.phase = "spawning" /\ ~session'.asked
    PROVE  RowKept' /\ LaunchOp
<1> USE DEF RowKept
<1>1. KindsAndSessions'
  BY DEF KindsAndSessions, SessionKinds
<1>2. RowFollowsLaunch'
  BY DEF RowFollowsLaunch, SessionKinds
<1>3. CopiesHaveAPlace' /\ SessionsHaveAPlace'
  BY DEF CopiesHaveAPlace, SessionsHaveAPlace
<1> QED BY <1>1, <1>2, <1>3 DEF LaunchOp

\* A step of the row under whatever command, or none.
LEMMA RowStep ==
    ASSUME RowKept, UNCHANGED <<op, restore>>, session' \in SessionType,
           session'.phase = session.phase, session'.install = session.install,
           session'.window = session.window, session.phase # "none",
           \/ session'.child = session.child /\ session.phase = "preparing"
                /\ session.window = "open"
           \/ session'.asked = session.asked /\ session.child # "none" /\ session'.child # "none"
    PROVE  RowKept' /\ LaunchOp
<1> USE DEF RowKept
<1>1. KindsAndSessions'
  BY NoSessionFields DEF KindsAndSessions, SessionKinds
<1>2. RowFollowsLaunch'
  BY DEF RowFollowsLaunch, KindsAndSessions, SessionKinds
<1>3. CopiesHaveAPlace' /\ SessionsHaveAPlace'
  BY DEF CopiesHaveAPlace, SessionsHaveAPlace
<1> QED BY <1>1, <1>2, <1>3 DEF LaunchOp

\* Every step of a launch, of its recovery, of a cancel request and of the game.
LEMMA LaunchStep ==
    ASSUME RowKept, active \in Installs, LaunchNext
    PROVE  RowKept' /\ RowContext /\ LaunchOp
<1> USE DEF RowKept
<1>steps. /\ "collect" \in Steps /\ "provide" \in Steps /\ "close" \in Steps
          /\ "spawn" \in Steps /\ "identify" \in Steps /\ "mark" \in Steps
          /\ "wait" \in Steps /\ "finish" \in Steps
          /\ "launch" \in Kinds /\ "recover launch" \in Kinds
          /\ "spawning" \in Phases /\ "preparing" \in Phases
          /\ "running" \in Phases /\ "collecting" \in Phases
          /\ \A i \in Installs : i \in Places
  BY DEF Steps, Kinds, Phases, Places
<1>kinds. "launch" \in SessionKinds /\ "recover launch" \in SessionKinds
  BY DEF SessionKinds
<1>row. /\ op.kind = "launch" \/ op.kind = "recover launch"
             => session.phase # "none" /\ session.install \in Installs /\ restore.phase = "none"
  BY <1>kinds, NoSessionFields DEF KindsAndSessions, SessionsHaveAPlace
<1>0. RowContext
  <2> USE DEF RowContext, Others
  <2>1. CASE AcceptLaunch \/ GiveUpPreparing \/ ProvideForLaunch \/ CloseWindow
    BY <2>1 DEF AcceptLaunch, GiveUpPreparing, ProvideForLaunch, CloseWindow
  <2>2. CASE RecordSpawning \/ Spawn \/ RecordChild \/ KillUnrecorded \/ WriteMarker
    BY <2>2 DEF RecordSpawning, Spawn, RecordChild, KillUnrecorded, WriteMarker
  <2>3. CASE GameEnded \/ LeaveUncertain \/ FinishCollecting \/ Finish
    BY <2>3 DEF GameEnded, LeaveUncertain, FinishCollecting, Finish
  <2>4. CASE RecoverSession
    BY <2>4 DEF RecoverSession, RecoverPreparing, RecoverLaunch, RecoverEnded, RecoverFails
  <2>5. CASE RequestCancel \/ GameWrites \/ GameExits
    BY <2>5 DEF RequestCancel, GameWrites, GameExits
  <2> QED BY <2>1, <2>2, <2>3, <2>4, <2>5 DEF LaunchNext, Supervise
<1>r. UNCHANGED restore
  BY <1>0 DEF RowContext, backupVars
<1>1. CASE AcceptLaunch
  <2>1. /\ Lockable /\ restore.phase = "none"
        /\ op' = CollectFirst("launch", "provide", active)
        /\ session' = [NoSession EXCEPT !.phase = "preparing", !.install = active]
    BY <1>1 DEF AcceptLaunch, NoRestorePending
  <2>2. /\ op' \in CommandType /\ op'.kind = "launch"
        /\ op'.step \in {"collect", "provide"} /\ op'.at = active
    <3>1. "launch" \in Kinds /\ "provide" \in Steps /\ active \in Places
      BY <1>steps
    <3> QED BY <2>1, <3>1, CollectFirstKind
  <2>3. session' \in SessionType
    <3>1. active \in Places /\ "preparing" \in Phases
      BY <1>steps
    <3> QED BY <2>1, <3>1, NoSessionFields DEF SessionType
  <2>4. session'.phase = "preparing" /\ session'.install = active /\ session'.child = "none"
    BY <2>1, NoSessionFields DEF SessionType
  <2> QED BY <1>r, <1>0, <1>kinds, <2>1, <2>2, <2>3, <2>4, TogetherStep
<1>2. CASE GiveUpPreparing \/ LeaveUncertain \/ Finish \/ RecoverFails
  <2>1. op' = Idle
    BY <1>2 DEF GiveUpPreparing, LeaveUncertain, Finish, RecoverFails, Leave
  <2>2. session' \in {session, NoSession}
    BY <1>2 DEF GiveUpPreparing, LeaveUncertain, Finish, RecoverFails, Leave, Close
  <2> QED BY <1>r, <1>0, <2>1, <2>2, LeaveStep
<1>3. CASE ProvideForLaunch
  <2>1. /\ op.kind = "launch" /\ session.phase = "preparing"
        /\ op' = Copying("provide", session.install) /\ UNCHANGED session
    BY <1>3 DEF ProvideForLaunch, sessionVars
  <2>2. /\ op' \in CommandType /\ op'.kind = "launch"
        /\ op'.step = "provide" /\ op'.at = session.install
    <3>1. "provide" \in Steps /\ session.install \in Places
      BY <1>steps, <1>row, <2>1
    <3> QED BY <2>1, <3>1, CopyingFields
  <2> QED BY <1>r, <1>0, <1>row, <1>kinds, <2>1, <2>2, CommandStep
<1>4. CASE CloseWindow
  <2>1. /\ op.kind = "launch" /\ op.step = "provide" /\ ~session.asked
        /\ session' = [session EXCEPT !.window = "closed"] /\ op' = Then("close")
    BY <1>4 DEF CloseWindow, Copied
  <2>2. op' \in CommandType /\ op'.kind = "launch" /\ op'.step = "close"
    BY <1>steps, <2>1, ThenFields
  <2>3. session' \in SessionType
    BY <2>1 DEF SessionType
  <2>4. /\ session'.phase = session.phase /\ session'.install = session.install
        /\ session'.window = "closed" /\ session'.child = session.child
        /\ session'.asked = session.asked
    BY <2>1 DEF SessionType
  <2>5. session.phase = "preparing" /\ session.child = "none"
    BY <2>1 DEF RowFollowsLaunch
  <2> QED BY <1>r, <1>0, <1>row, <1>kinds, <2>1, <2>2, <2>3, <2>4, <2>5, TogetherStep
<1>5. CASE RecordSpawning
  <2>1. /\ op.kind = "launch" /\ op.step = "close"
        /\ session' = InPhase("spawning") /\ op' = Then("spawn")
    BY <1>5 DEF RecordSpawning
  <2>2. op' \in CommandType /\ op'.kind = "launch" /\ op'.step = "spawn"
    BY <1>steps, <2>1, ThenFields
  <2>3. /\ session' \in SessionType /\ session'.phase = "spawning"
        /\ session'.install = session.install /\ session'.asked = session.asked
        /\ session'.child = session.child
    BY <1>steps, <2>1, InPhaseFields
  <2>4. session.child = "none" /\ ~session.asked
    BY <2>1 DEF RowFollowsLaunch
  <2> QED BY <1>r, <1>0, <1>row, <1>kinds, <2>1, <2>2, <2>3, <2>4, TogetherStep
<1>6. CASE Spawn
  <2>1. /\ op.kind = "launch" /\ op.step = "spawn"
        /\ session' = WithChild("alive") /\ op' = Then("identify")
    BY <1>6 DEF Spawn
  <2>2. op' \in CommandType /\ op'.kind = "launch" /\ op'.step = "identify"
    BY <1>steps, <2>1, ThenFields
  <2>3. /\ session' \in SessionType /\ session'.phase = session.phase
        /\ session'.install = session.install /\ session'.asked = session.asked
        /\ session'.child = "alive"
    BY <2>1, WithChildFields
  <2>4. session.phase = "spawning" /\ ~session.asked
    BY <2>1 DEF RowFollowsLaunch
  <2> QED BY <1>r, <1>0, <1>row, <1>kinds, <2>1, <2>2, <2>3, <2>4, TogetherStep
<1>7. CASE RecordChild
  <2>1. op.kind = "launch" /\ op.step = "identify" /\ op' = Then("mark")
    BY <1>7 DEF RecordChild
  <2>2. PICK phase \in {"running", "collecting"} :
          (phase = "collecting" => session.child = "gone") /\ session' = InPhase(phase)
    BY <1>7 DEF RecordChild
  <2>3. op' \in CommandType /\ op'.kind = "launch" /\ op'.step = "mark"
    BY <1>steps, <2>1, ThenFields
  <2>4. /\ session' \in SessionType /\ session'.phase = phase
        /\ session'.install = session.install /\ session'.asked = session.asked
        /\ session'.child = session.child
    BY <1>steps, <2>2, InPhaseFields
  <2>5. session.child # "none" /\ ~session.asked
    BY <2>1 DEF RowFollowsLaunch
  <2> QED BY <1>r, <1>0, <1>row, <1>kinds, <2>1, <2>2, <2>3, <2>4, <2>5, TogetherStep
<1>8. CASE KillUnrecorded
  <2>1. /\ op.kind = "launch" /\ op.step = "identify"
        /\ session' = WithChild("gone") /\ op' = Then("finish")
    BY <1>8 DEF KillUnrecorded
  <2>2. op' \in CommandType /\ op'.kind = "launch" /\ op'.step = "finish"
    BY <1>steps, <2>1, ThenFields
  <2>3. /\ session' \in SessionType /\ session'.phase = session.phase
        /\ session'.install = session.install /\ session'.asked = session.asked
    BY <2>1, WithChildFields
  <2>4. session.phase = "spawning" /\ ~session.asked
    BY <2>1 DEF RowFollowsLaunch
  <2> QED BY <1>r, <1>0, <1>row, <1>kinds, <2>1, <2>2, <2>3, <2>4, TogetherStep
<1>9. CASE WriteMarker
  <2>1. /\ op.kind = "launch" /\ op.step = "mark" /\ UNCHANGED session
        /\ op' = Then("wait") \/ op' = Failing(Then("wait"))
    BY <1>9 DEF WriteMarker, sessionVars
  <2>2. op' \in CommandType /\ op'.kind = "launch" /\ op'.step = "wait"
    <3> DEFINE c == Then("wait")
    <3>1. c \in CommandType /\ c.kind = "launch" /\ c.step = "wait"
      BY <1>steps, <2>1, ThenFields
    <3>2. op' = c \/ op' = Failing(c)
      BY <2>1
    <3> HIDE DEF c
    <3> QED BY <3>1, <3>2, FailingFields
  <2>3. session.phase \in {"running", "collecting"}
    BY <2>1 DEF RowFollowsLaunch
  <2> QED BY <1>r, <1>0, <1>row, <1>kinds, <2>1, <2>2, <2>3, CommandStep
<1>10. CASE GameEnded
  <2>1. /\ op.kind = "launch" /\ op.step = "wait" /\ session.child = "gone"
        /\ session' = InPhase("collecting") \/ session' = session
        /\ op' = Copying("collect", session.install)
             \/ op' = Failing(Copying("collect", session.install))
    BY <1>10 DEF GameEnded
  <2>2. /\ op' \in CommandType /\ op'.kind = "launch" /\ op'.step = "collect"
        /\ op'.at = session.install
    <3>1. "collect" \in Steps /\ session.install \in Places
      BY <1>steps, <1>row, <2>1
    <3> DEFINE c == Copying("collect", session.install)
    <3>2. c \in CommandType /\ c.kind = "launch" /\ c.step = "collect" /\ c.at = session.install
      BY <2>1, <3>1, CopyingFields
    <3>3. op' = c \/ op' = Failing(c)
      BY <2>1
    <3> HIDE DEF c
    <3> QED BY <3>2, <3>3, FailingFields
  <2>3. session.phase \in {"running", "collecting"} /\ ~session.asked
    BY <2>1 DEF RowFollowsLaunch
  <2>4. /\ session' \in SessionType /\ session'.phase \in {"running", "collecting"}
        /\ session'.install = session.install /\ session'.child = session.child
        /\ session'.asked = session.asked
    BY <1>steps, <2>1, <2>3, InPhaseFields
  <2> QED BY <1>r, <1>0, <1>row, <1>kinds, <2>1, <2>2, <2>3, <2>4, TogetherStep
<1>11. CASE FinishCollecting
  <2>1. /\ op.kind \in SessionKinds /\ op.step = "collect" /\ session.phase # "preparing"
        /\ op' = Then("finish") /\ UNCHANGED session
    BY <1>11 DEF FinishCollecting, Copied, SessionKinds, sessionVars
  <2>2. op' \in CommandType /\ op'.kind = op.kind /\ op'.step = "finish"
    BY <1>steps, <2>1, ThenFields
  <2>3. op.kind = "recover launch" => session.phase \in {"running", "collecting"}
    BY DEF RowFollowsLaunch
  <2>4. session.phase # "none" /\ restore.phase = "none"
    BY <1>row, <2>1 DEF SessionKinds
  <2> QED BY <1>r, <1>0, <2>1, <2>2, <2>3, <2>4, CommandStep
<1>12. CASE RecoverPreparing
  <2>1. op = Idle /\ session' = NoSession /\ op' = op
    BY <1>12 DEF RecoverPreparing, LockFree, Close
  <2> QED BY <1>r, <1>0, <2>1, LeaveStep
<1>13. CASE RecoverLaunch
  <2>1. /\ session.phase \in {"running", "collecting"} /\ UNCHANGED session
        /\ \/ op' = Command("recover launch", "wait")
           \/ op' = On(Command("recover launch", "collect"), session.install)
    BY Zenon, <1>13 DEF RecoverLaunch, sessionVars
  <2>2. session.install \in Installs
    BY <2>1 DEF SessionsHaveAPlace
  <2>3. /\ op' \in CommandType /\ op'.kind = "recover launch"
        /\ op'.step \in {"wait", "collect"}
        /\ op'.step = "collect" => op'.at = session.install
    <3>1. CASE op' = Command("recover launch", "wait")
      <4>1. "recover launch" \in Kinds /\ "wait" \in Steps
        BY <1>steps
      <4>2. op' \in CommandType /\ op'.kind = "recover launch" /\ op'.step = "wait"
        BY <3>1, <4>1, CommandFields
      <4> QED BY <4>2
    <3>2. CASE op' = On(Command("recover launch", "collect"), session.install)
      <4>1. "recover launch" \in Kinds /\ "collect" \in Steps /\ session.install \in Places
        BY <1>steps, <2>2
      <4> DEFINE c == Command("recover launch", "collect")
      <4>2. c \in CommandType /\ c.kind = "recover launch" /\ c.step = "collect"
        BY <4>1, CommandFields
      <4>3. op' = On(c, session.install)
        BY <3>2
      <4> HIDE DEF c
      <4> QED BY <4>1, <4>2, <4>3, OnFields
    <3> QED BY <2>1, <3>1, <3>2
  <2> QED BY <1>r, <1>0, <1>kinds, <2>1, <2>3, CommandStep
<1>14. CASE RecoverEnded
  <2>1. /\ op.kind = "recover launch" /\ session.child = "gone"
        /\ session' = InPhase("collecting") /\ op' = Copying("collect", session.install)
    BY <1>14 DEF RecoverEnded
  <2>2. /\ op' \in CommandType /\ op'.kind = "recover launch" /\ op'.step = "collect"
        /\ op'.at = session.install
    <3>1. "collect" \in Steps /\ session.install \in Places
      BY <1>steps, <1>row, <2>1
    <3> QED BY <2>1, <3>1, CopyingFields
  <2>3. /\ session' \in SessionType /\ session'.phase = "collecting"
        /\ session'.install = session.install /\ session'.child = session.child
        /\ session'.asked = session.asked
    BY <1>steps, <2>1, InPhaseFields
  <2>4. ~session.asked
    BY <2>1 DEF RowFollowsLaunch
  <2> QED BY <1>r, <1>0, <1>row, <1>kinds, <2>1, <2>2, <2>3, <2>4, TogetherStep
<1>15. CASE RequestCancel
  <2>1. /\ session.phase = "preparing" /\ session.window = "open" /\ UNCHANGED op
        /\ session' = [session EXCEPT !.asked = TRUE]
    BY <1>15 DEF RequestCancel
  <2>2. session' \in SessionType
    BY <2>1 DEF SessionType
  <2>3. /\ session'.phase = session.phase /\ session'.install = session.install
        /\ session'.window = session.window /\ session'.child = session.child
    BY <2>1 DEF SessionType
  <2> QED BY <1>r, <1>0, <2>1, <2>2, <2>3, RowStep
<1>16. CASE GameExits
  <2>1. session.child = "alive" /\ session' = WithChild("gone") /\ UNCHANGED op
    BY <1>16 DEF GameExits
  <2>2. session.phase # "none"
    BY <2>1, NoSessionFields DEF KindsAndSessions
  <2>3. /\ session' \in SessionType /\ session'.phase = session.phase
        /\ session'.install = session.install /\ session'.window = session.window
        /\ session'.asked = session.asked /\ session'.child = "gone"
    BY <2>1, WithChildFields
  <2> QED BY <1>r, <1>0, <2>1, <2>2, <2>3, RowStep
<1>17. CASE GameWrites
  <2>1. UNCHANGED <<op, session>>
    BY <1>17 DEF GameWrites
  <2> QED
    BY <1>r, <1>0, <2>1
       DEF KindsAndSessions, RowFollowsLaunch, CopiesHaveAPlace, SessionsHaveAPlace, LaunchOp
<1> QED
  BY <1>1, <1>2, <1>3, <1>4, <1>5, <1>6, <1>7, <1>8, <1>9, <1>10, <1>11, <1>12, <1>13,
     <1>14, <1>15, <1>16, <1>17 DEF LaunchNext, Supervise, RecoverSession

-----------------------------------------------------------------------------
(* Every step.                                                              *)

\* Who holds the lock and for what, with what it works on.
Control == RowKept /\ PointersTyped /\ TargetsExist /\ RestoresHaveASource

\* A command that is no launch leaves the row to nobody: there is none.
LEMMA OtherStepKeepsTheRow ==
    ASSUME RowKept, OtherStep, CopiesHaveAPlace', UNCHANGED session
    PROVE  RowKept' /\ session = NoSession
<1> USE DEF RowKept
<1>1. session = NoSession
  BY DEF OtherStep, OtherKinds, KindsAndSessions, Lockable
<1>2. op' \in CommandType /\ session' \in SessionType
  BY DEF OtherStep
<1>3. op' = Idle \/ op'.kind \in OtherKinds
  BY DEF OtherStep
<1>4. op'.kind \notin SessionKinds /\ (op'.kind = "none" => op' = Idle)
  BY <1>3, IdleFields DEF OtherKinds, SessionKinds
<1>5. KindsAndSessions'
  BY <1>1, <1>4, NoSessionFields DEF KindsAndSessions
<1>6. RowFollowsLaunch'
  BY <1>1, <1>4, NoSessionFields DEF RowFollowsLaunch, SessionKinds
<1>7. SessionsHaveAPlace'
  BY <1>1, <1>4, NoSessionFields DEF SessionsHaveAPlace
<1> QED BY <1>1, <1>2, <1>5, <1>6, <1>7

\* One more entry copied.
LEMMA EntryStep ==
    ASSUME Control, CollectEntry \/ ProvideEntry
    PROVE  Control' /\ UNCHANGED <<versionVars, sessionVars, backupVars>>
<1> USE DEF Control, RowKept
<1>1. UNCHANGED <<versionVars, sessionVars, backupVars>>
  BY DEF CollectEntry, ProvideEntry
<1>2. PICK e \in op.left : op' = Without(e)
  BY DEF CollectEntry, ProvideEntry
<1>3. /\ op' \in CommandType /\ op'.kind = op.kind /\ op'.step = op.step
      /\ op'.at = op.at /\ op'.backup = op.backup /\ op.left # {}
  BY <1>2, WithoutFields
<1>4. UNCHANGED <<active, previous, staged, activation, session, restore>>
  BY <1>1 DEF versionVars, sessionVars, backupVars
<1>5. op.kind # "none"
  BY <1>2, IdleFields DEF KindsAndSessions
<1>6. KindsAndSessions'
  BY <1>3, <1>4, <1>5 DEF KindsAndSessions
<1>7. RowFollowsLaunch'
  BY <1>3, <1>4 DEF RowFollowsLaunch
<1>8. CopiesHaveAPlace' /\ SessionsHaveAPlace'
  BY <1>3, <1>4 DEF CopiesHaveAPlace, SessionsHaveAPlace
<1>9. PointersTyped' /\ TargetsExist' /\ RestoresHaveASource'
  BY <1>3, <1>4 DEF PointersTyped, TargetsExist, RestoresHaveASource
<1> QED BY <1>1, <1>3, <1>4, <1>6, <1>7, <1>8, <1>9

\* Every step keeps it.
LEMMA ControlStep ==
    ASSUME Control, [Next]_vars
    PROVE  Control'
<1> USE DEF Control
<1>1. CASE CollectEntry \/ ProvideEntry
  BY <1>1, EntryStep
<1>2. CASE Crash
  <2>1. op' = Idle /\ UNCHANGED <<session, restore, active, previous, staged, activation>>
    BY <1>2 DEF Crash, versionVars, sessionVars, backupVars
  <2>2. RowKept'
    BY <2>1, LeaveStep
  <2>3. PointersTyped' /\ TargetsExist' /\ RestoresHaveASource'
    BY <2>1, IdleFields DEF PointersTyped, TargetsExist, RestoresHaveASource
  <2> QED BY <2>2, <2>3
<1>3. CASE LaunchNext
  <2>1. RowKept' /\ RowContext /\ LaunchOp
    BY <1>3, LaunchStep DEF PointersTyped
  <2>2. UNCHANGED <<active, previous, staged, activation>>
    BY <2>1 DEF RowContext, versionVars
  <2>3. op' = op \/ op'.kind \notin {"rollback", "activate", "recover activate", "restore"}
    BY <2>1, IdleFields DEF LaunchOp, SessionKinds
  <2>4. PointersTyped' /\ TargetsExist' /\ RestoresHaveASource'
    BY <2>2, <2>3 DEF PointersTyped, TargetsExist, RestoresHaveASource
  <2> QED BY <2>1, <2>4
<1>4. CASE SwitchNext
  <2>1. /\ OtherStep /\ PointersTyped' /\ TargetsExist' /\ CopiesHaveAPlace'
        /\ RestoresHaveASource' /\ UNCHANGED <<copyVars, sessionVars, backupVars>>
    BY <1>4, SwitchStep DEF RowKept
  <2>2. UNCHANGED session
    BY <2>1 DEF sessionVars
  <2> QED BY <2>1, <2>2, OtherStepKeepsTheRow
<1>5. CASE BackupNext
  <2>1. /\ OtherStep /\ TargetsExist' /\ CopiesHaveAPlace'
        /\ RestoresHaveASource' /\ VersionsKept
    BY <1>5, BackupStep DEF RowKept, BackupGoal
  <2>2. UNCHANGED <<session, active, previous, staged, activation>>
    BY <2>1 DEF VersionsKept, versionVars, sessionVars
  <2>3. PointersTyped'
    BY <2>2 DEF PointersTyped
  <2> QED BY <2>1, <2>2, <2>3, OtherStepKeepsTheRow
<1>6. CASE UNCHANGED vars
  <2>1. UNCHANGED <<op, session, restore, active, previous, staged, activation>>
    BY <1>6 DEF vars, versionVars, sessionVars, backupVars
  <2>2. RowKept'
    BY <2>1 DEF RowKept, KindsAndSessions, RowFollowsLaunch, CopiesHaveAPlace,
                SessionsHaveAPlace
  <2>3. PointersTyped' /\ TargetsExist' /\ RestoresHaveASource'
    BY <2>1 DEF PointersTyped, TargetsExist, RestoresHaveASource
  <2> QED BY <2>2, <2>3
<1> QED BY <1>1, <1>2, <1>3, <1>4, <1>5, <1>6 DEF Next

\* It holds in the beginning.
LEMMA ControlInit ==
    ASSUME Init PROVE Control
<1>1. /\ op = Idle /\ session = NoSession /\ restore.phase = "none"
      /\ active \in Installs /\ {previous, staged, activation} \subseteq Places
  BY DEF Init, NoRestore, Places
<1>2. op \in CommandType /\ op.kind = "none" /\ op.step = "none"
  BY <1>1, IdleFields
<1>3. KindsAndSessions /\ RowFollowsLaunch
  BY <1>1, <1>2, NoSessionFields DEF KindsAndSessions, RowFollowsLaunch, SessionKinds
<1>4. CopiesHaveAPlace /\ SessionsHaveAPlace /\ TargetsExist /\ RestoresHaveASource
  BY <1>1, <1>2, NoSessionFields
     DEF CopiesHaveAPlace, SessionsHaveAPlace, TargetsExist, RestoresHaveASource
<1> QED BY <1>1, <1>2, <1>3, <1>4, NoSessionFields DEF Control, RowKept, PointersTyped

\* Of a launch and its recovery, only the game's own write changes a version's files.
LEMMA LaunchWrites ==
    ASSUME LaunchNext
    PROVE  \/ UNCHANGED <<data, written>>
           \/ GameWrites
<1>1. CASE AcceptLaunch \/ GiveUpPreparing \/ ProvideForLaunch \/ CloseWindow
  BY <1>1
     DEF AcceptLaunch, GiveUpPreparing, ProvideForLaunch, CloseWindow, copyVars, sessionVars
<1>2. CASE RecordSpawning \/ Spawn \/ RecordChild \/ KillUnrecorded \/ WriteMarker
  BY <1>2
     DEF RecordSpawning, Spawn, RecordChild, KillUnrecorded, WriteMarker, copyVars, sessionVars
<1>3. CASE GameEnded \/ LeaveUncertain \/ FinishCollecting \/ Finish
  BY <1>3 DEF GameEnded, LeaveUncertain, FinishCollecting, Finish, copyVars, sessionVars
<1>4. CASE RecoverSession
  BY <1>4 DEF RecoverSession, RecoverPreparing, RecoverLaunch, RecoverEnded, RecoverFails,
              copyVars, sessionVars
<1>5. CASE RequestCancel \/ GameExits
  BY <1>5 DEF RequestCancel, GameExits, copyVars
<1> QED BY <1>1, <1>2, <1>3, <1>4, <1>5 DEF LaunchNext, Supervise

\* While a game runs, every step leaves its version active, and only its own write
\* changes a version's files.
LEMMA GameKeepsItsFilesStep ==
    ASSUME Control, written \in Nat, [Next]_vars, session.child = "alive"
    PROVE  active' = active /\ (data' # data => written' # written)
<1> USE DEF Control, RowKept
<1>1. session # NoSession
  BY NoSessionFields
<1>2. CASE CollectEntry \/ Crash \/ UNCHANGED vars
  BY <1>2 DEF CollectEntry, Crash, vars, copyVars, versionVars
<1>3. ~ProvideEntry
  <2>1. SUFFICES ASSUME ProvideEntry PROVE FALSE
    OBVIOUS
  <2>2. op.step = "provide" /\ op # Idle
    BY <2>1, IdleFields DEF ProvideEntry
  <2>3. op.kind \in SessionKinds
    BY <1>1, <2>2 DEF KindsAndSessions
  <2> QED BY <2>2, <2>3 DEF SessionKinds, RowFollowsLaunch
<1>4. CASE LaunchNext
  <2>1. active' = active
    BY <1>4, LaunchStep DEF RowContext, versionVars, PointersTyped
  <2>2. GameWrites => written' # written
    BY DEF GameWrites
  <2> QED BY <1>4, <2>1, <2>2, LaunchWrites
<1>5. ~OtherStep
  BY <1>1 DEF OtherStep, OtherKinds, KindsAndSessions, Lockable
<1>6. ~SwitchNext /\ ~BackupNext
  BY <1>5, SwitchStep, BackupStep DEF BackupGoal
<1> QED BY <1>2, <1>3, <1>4, <1>6 DEF Next

-----------------------------------------------------------------------------
(* What the directories hold.                                               *)

SavesType ==
    user \in Directories /\ data \in [Installs -> Trees] /\ launched \subseteq Installs
GameType ==
    played \subseteq Installs /\ written \in 0 .. MaxVersion /\ mishaps \in 0 .. MaxMishaps
VaultType ==
    /\ backups \in [Backups -> Directories]
    /\ restore \in RestoreType /\ deletion \in DeletionType
    /\ stagedData \in Directories /\ previousData \in Directories /\ quarantine \in Directories

\* A deletion has a backup to delete, and a command that deletes one has its journal.
DeletionNamed ==
    /\ deletion.phase # "none" => deletion.backup \in Backups
    /\ op.kind \in Deleting => deletion.phase # "none"

FilesType == SavesType /\ GameType /\ VaultType /\ DeletionNamed

\* A directory that may be missing, read as one that is there.
LEMMA AtIsATree ==
    ASSUME NEW d \in Directories
    PROVE  At(d) \in Trees
<1>1. Empty \in Trees
  BY PlayerAssumption DEF Empty, Trees
<1> QED BY <1>1 DEF At, Directories

\* One entry of one version replaced.
LEMMA EntryReplaced ==
    ASSUME data \in [Installs -> Trees], NEW i \in Installs, NEW e \in Entries,
           NEW v \in 0 .. MaxVersion
    PROVE  [data EXCEPT ![i][e] = v] \in [Installs -> Trees]
<1>1. [data[i] EXCEPT ![e] = v] \in Trees
  BY DEF Trees
<1> QED BY <1>1

\* An entry's version in a directory.
LEMMA EntryInTree ==
    ASSUME NEW d \in Trees, NEW e \in Entries
    PROVE  d[e] \in 0 .. MaxVersion
BY DEF Trees

\* One more entry copied.
LEMMA EntryFiles ==
    ASSUME Control, SavesType, CollectEntry \/ ProvideEntry
    PROVE  SavesType'
<1> USE DEF Control, RowKept, SavesType
<1>0. At(user) \in Trees
  BY AtIsATree
<1>1. CASE CollectEntry
  <2>1. PICK e \in op.left :
          user' = IF user = NoTree /\ data[op.at][e] = 0
                  THEN NoTree ELSE [At(user) EXCEPT ![e] = data[op.at][e]]
    BY <1>1 DEF CollectEntry
  <2>2. e \in Entries /\ op.at \in Installs
    BY <1>1, <2>1 DEF CollectEntry, CommandType, EntrySets, CopiesHaveAPlace
  <2>3. data[op.at][e] \in 0 .. MaxVersion
    BY <2>2, EntryInTree
  <2>4. [At(user) EXCEPT ![e] = data[op.at][e]] \in Trees
    BY <1>0, <2>2, <2>3 DEF Trees
  <2>5. user' \in Directories
    BY <2>1, <2>4 DEF Directories
  <2> QED BY <1>1, <2>5 DEF CollectEntry
<1>2. CASE ProvideEntry
  <2>1. PICK e \in op.left :
          data' = IF At(user)[e] = 0 /\ op.at \notin launched
                  THEN data ELSE [data EXCEPT ![op.at][e] = At(user)[e]]
    BY <1>2 DEF ProvideEntry
  <2>2. e \in Entries /\ op.at \in Installs
    BY <1>2, <2>1 DEF ProvideEntry, CommandType, EntrySets, CopiesHaveAPlace
  <2>3. At(user)[e] \in 0 .. MaxVersion
    BY <1>0, <2>2, EntryInTree
  <2>4. data' \in [Installs -> Trees]
    BY <2>1, <2>2, <2>3, EntryReplaced
  <2> QED BY <1>2, <2>4 DEF ProvideEntry
<1> QED BY <1>1, <1>2

\* A launch and its recovery move saves only entry by entry.
LEMMA LaunchKeepsUser ==
    ASSUME LaunchNext
    PROVE  user' = user
<1>1. CASE AcceptLaunch \/ GiveUpPreparing \/ ProvideForLaunch \/ CloseWindow
  BY <1>1 DEF AcceptLaunch, GiveUpPreparing, ProvideForLaunch, CloseWindow, copyVars
<1>2. CASE RecordSpawning \/ Spawn \/ RecordChild \/ KillUnrecorded \/ WriteMarker
  BY <1>2 DEF RecordSpawning, Spawn, RecordChild, KillUnrecorded, WriteMarker, copyVars
<1>3. CASE GameEnded \/ LeaveUncertain \/ FinishCollecting \/ Finish
  BY <1>3 DEF GameEnded, LeaveUncertain, FinishCollecting, Finish, copyVars
<1>4. CASE RecoverSession
  BY <1>4
     DEF RecoverSession, RecoverPreparing, RecoverLaunch, RecoverEnded, RecoverFails, copyVars
<1>5. CASE RequestCancel \/ GameExits \/ GameWrites
  BY <1>5 DEF RequestCancel, GameExits, GameWrites, copyVars
<1> QED BY <1>1, <1>2, <1>3, <1>4, <1>5 DEF LaunchNext, Supervise

\* A step of a launch, its recovery or the game.
LEMMA LaunchFiles ==
    ASSUME Control, SavesType, GameType, LaunchNext
    PROVE  SavesType' /\ GameType'
<1> USE DEF Control, RowKept
<1>1. session.phase # "none" => session.install \in Installs
  BY DEF SessionsHaveAPlace
<1>2. data' \in [Installs -> Trees] /\ written' \in 0 .. MaxVersion
  <2>1. CASE UNCHANGED <<data, written>>
    BY <2>1 DEF SavesType, GameType
  <2>2. CASE GameWrites
    <3>1. /\ session.child = "alive" /\ written < MaxVersion /\ written' = written + 1
      BY <2>2 DEF GameWrites
    <3>2. PICK e \in Entries, v \in {0, written + 1} :
            data' = [data EXCEPT ![session.install][e] = v]
      BY <2>2 DEF GameWrites
    <3>3. session.install \in Installs
      BY <1>1, <3>1, NoSessionFields DEF KindsAndSessions
    <3>4. v \in 0 .. MaxVersion /\ written' \in 0 .. MaxVersion
      BY <3>1, PlayerAssumption DEF GameType
    <3>5. data \in [Installs -> Trees]
      BY DEF SavesType
    <3> QED BY <3>2, <3>3, <3>4, <3>5, EntryReplaced
  <2> QED BY <2>1, <2>2, LaunchWrites
<1>3. user' = user
  BY LaunchKeepsUser
<1>4. launched' \in {launched, launched \cup {session.install}}
      /\ (launched' # launched => session.phase # "none")
  <2>1. CASE WriteMarker
    <3>1. session.phase # "none"
      BY <2>1, NoSessionFields DEF WriteMarker, KindsAndSessions, SessionKinds
    <3> QED BY <2>1, <3>1 DEF WriteMarker
  <2>2. CASE AcceptLaunch \/ GiveUpPreparing \/ ProvideForLaunch \/ CloseWindow
    BY <2>2 DEF AcceptLaunch, GiveUpPreparing, ProvideForLaunch, CloseWindow, copyVars
  <2>3. CASE RecordSpawning \/ Spawn \/ RecordChild \/ KillUnrecorded
    BY <2>3 DEF RecordSpawning, Spawn, RecordChild, KillUnrecorded, copyVars
  <2>4. CASE GameEnded \/ LeaveUncertain \/ FinishCollecting \/ Finish
    BY <2>4 DEF GameEnded, LeaveUncertain, FinishCollecting, Finish, copyVars
  <2>5. CASE RecoverSession
    BY <2>5
       DEF RecoverSession, RecoverPreparing, RecoverLaunch, RecoverEnded, RecoverFails, copyVars
  <2>6. CASE RequestCancel \/ GameExits \/ GameWrites
    BY <2>6 DEF RequestCancel, GameExits, GameWrites, copyVars
  <2> QED BY <2>1, <2>2, <2>3, <2>4, <2>5, <2>6 DEF LaunchNext, Supervise
<1>5. played' \in {played, played \cup {session.install}}
      /\ (played' # played => session.phase # "none")
  <2>1. CASE RecordChild
    <3>1. session.phase # "none"
      BY <2>1, NoSessionFields DEF RecordChild, KindsAndSessions, SessionKinds
    <3> QED BY <2>1, <3>1 DEF RecordChild
  <2>2. CASE AcceptLaunch \/ GiveUpPreparing \/ ProvideForLaunch \/ CloseWindow
    BY <2>2 DEF AcceptLaunch, GiveUpPreparing, ProvideForLaunch, CloseWindow, sessionVars
  <2>3. CASE RecordSpawning \/ Spawn \/ WriteMarker \/ KillUnrecorded
    BY <2>3 DEF RecordSpawning, Spawn, WriteMarker, KillUnrecorded, sessionVars
  <2>4. CASE GameEnded \/ LeaveUncertain \/ FinishCollecting \/ Finish
    BY <2>4 DEF GameEnded, LeaveUncertain, FinishCollecting, Finish, sessionVars
  <2>5. CASE RecoverSession
    BY <2>5 DEF RecoverSession, RecoverPreparing, RecoverLaunch, RecoverEnded, RecoverFails,
                sessionVars
  <2>6. CASE RequestCancel \/ GameExits \/ GameWrites
    BY <2>6 DEF RequestCancel, GameExits, GameWrites
  <2> QED BY <2>1, <2>2, <2>3, <2>4, <2>5, <2>6 DEF LaunchNext, Supervise
<1>6. mishaps' = mishaps \/ Mishap
  <2>1. CASE AcceptLaunch \/ GiveUpPreparing \/ ProvideForLaunch \/ CloseWindow
    BY <2>1 DEF AcceptLaunch, GiveUpPreparing, ProvideForLaunch, CloseWindow
  <2>2. CASE RecordSpawning \/ Spawn \/ RecordChild \/ KillUnrecorded \/ WriteMarker
    BY <2>2 DEF RecordSpawning, Spawn, RecordChild, KillUnrecorded, WriteMarker
  <2>3. CASE GameEnded \/ LeaveUncertain \/ FinishCollecting \/ Finish
    BY <2>3 DEF GameEnded, LeaveUncertain, FinishCollecting, Finish
  <2>4. CASE RecoverSession
    BY <2>4
       DEF RecoverSession, RecoverPreparing, RecoverLaunch, RecoverEnded, RecoverFails
  <2>5. CASE RequestCancel \/ GameExits \/ GameWrites
    BY <2>5 DEF RequestCancel, GameExits, GameWrites
  <2> QED BY <2>1, <2>2, <2>3, <2>4, <2>5 DEF LaunchNext, Supervise
<1>7. mishaps' \in 0 .. MaxMishaps
  BY <1>6, PlayerAssumption DEF Mishap, GameType
<1>8. SavesType'
  BY <1>1, <1>2, <1>3, <1>4 DEF SavesType
<1>9. GameType'
  BY <1>1, <1>2, <1>5, <1>7 DEF GameType
<1> QED BY <1>8, <1>9

\* A backup of the saves.
LEMMA SnapshotFiles ==
    ASSUME VaultType, SavesType, NEW b \in Backups, Snapshot(b)
    PROVE  backups' \in [Backups -> Directories]
BY DEF VaultType, SavesType, Snapshot

\* A step of a backup, a restore or a deletion: what it makes of the saves.
LEMMA BackupSaves ==
    ASSUME Control, SavesType, VaultType, BackupNext
    PROVE  SavesType'
<1> USE DEF Control, RowKept, SavesType, VaultType
<1>1. CASE MoveAside
  BY <1>1 DEF MoveAside, Directories
<1>2. CASE MoveIn
  BY <1>2 DEF MoveIn
<1>3. CASE MoveInFails
  <2>1. UNCHANGED <<data, launched>> /\ user' \in {user, previousData}
    BY <1>3 DEF MoveInFails
  <2> QED BY <2>1
<1>4. CASE SyncEntry
  <2>1. PICK e \in op.left : data' = [data EXCEPT ![op.at][e] = At(user)[e]]
    BY <1>4 DEF SyncEntry
  <2>2. e \in Entries /\ op.at \in Installs
    BY <1>4, <2>1 DEF SyncEntry, CommandType, EntrySets, CopiesHaveAPlace
  <2>3. At(user)[e] \in 0 .. MaxVersion
    BY <2>2, AtIsATree, EntryInTree
  <2>4. data' \in [Installs -> Trees]
    BY <2>1, <2>2, <2>3, EntryReplaced
  <2> QED BY <1>4, <2>4 DEF SyncEntry
<1>5. CASE ClearMarker
  BY <1>5 DEF ClearMarker
<1>6. CASE UNCHANGED copyVars
  BY <1>6 DEF copyVars
<1>7. ASSUME NEW b \in Backups, BeginRestore(b) \/ BeginDelete(b)
      PROVE  UNCHANGED copyVars
  BY <1>7 DEF BeginRestore, BeginDelete
<1>8. CASE BeginBackup \/ CollectedForSnapshot \/ PublishBackup \/ SafetyBackup \/ PrepareRestore
  BY <1>6, <1>8
     DEF BeginBackup, CollectedForSnapshot, PublishBackup, SafetyBackup, PrepareRestore
<1>9. CASE RefuseRestore \/ PassReview \/ RecordPublished \/ SyncNext \/ CommitRestore
  BY <1>6, <1>9 DEF RefuseRestore, PassReview, RecordPublished, SyncNext, CommitRestore
<1>10. CASE RemovePrevious \/ RetireRestore \/ RecoverRestore \/ QuarantineBackup
  BY <1>6, <1>10 DEF RemovePrevious, RetireRestore, RecoverRestore, QuarantineBackup
<1>11. CASE RecordQuarantined \/ RemoveQuarantined \/ RetireDeletion \/ RecoverDeletion
            \/ BackupFails
  BY <1>6, <1>11
     DEF RecordQuarantined, RemoveQuarantined, RetireDeletion, RecoverDeletion, BackupFails
<1> QED
  BY <1>1, <1>2, <1>3, <1>4, <1>5, <1>6, <1>7, <1>8, <1>9, <1>10, <1>11
     DEF BackupNext, RestoreOn

\* What it makes of the backups, the journals and their directories.
LEMMA BackupVault ==
    ASSUME Control, SavesType, VaultType, DeletionNamed, BackupNext
    PROVE  VaultType'
<1> USE DEF Control, RowKept, VaultType
<1>0. NoTree \in Directories /\ NoRestore \in RestoreType /\ NoDeletion \in DeletionType
  BY DEF Directories, NoRestore, RestoreType, NoDeletion, DeletionType
<1>1. CASE UNCHANGED backupVars
  BY <1>1 DEF backupVars
<1>2. CASE PublishBackup \/ SafetyBackup
  <2>1. backups' = backups \/ \E b \in Backups : Snapshot(b)
    BY <1>2 DEF PublishBackup, SafetyBackup
  <2>2. UNCHANGED <<restore, stagedData, previousData, deletion, quarantine>>
    BY <1>2 DEF PublishBackup, SafetyBackup, restoreVars, deletionVars
  <2>3. backups' \in [Backups -> Directories]
    BY <2>1, SnapshotFiles
  <2> QED BY <2>2, <2>3
<1>3. CASE PrepareRestore
  <2>1. /\ restore' = [phase |-> "prepared", replaces |-> user # NoTree]
        /\ stagedData' = backups[op.backup] /\ op.kind = "restore"
        /\ UNCHANGED <<backups, previousData, deletion, quarantine>>
    BY <1>3 DEF PrepareRestore, deletionVars
  <2>2. op.backup \in Backups
    BY <2>1 DEF RestoresHaveASource
  <2>3. restore' \in RestoreType
    BY <2>1 DEF RestoreType
  <2> QED BY <2>1, <2>2, <2>3
<1>4. CASE RefuseRestore \/ RetireRestore
  <2>1. /\ restore' \in {restore, NoRestore} /\ stagedData' \in {stagedData, NoTree}
        /\ UNCHANGED <<backups, previousData, deletion, quarantine>>
    BY <1>4 DEF RefuseRestore, RetireRestore, deletionVars
  <2> QED BY <1>0, <2>1
<1>5. CASE MoveAside \/ MoveIn \/ MoveInFails \/ RemovePrevious
  <2>1. /\ previousData' \in {user, previousData, NoTree} /\ stagedData' \in {stagedData, NoTree}
        /\ UNCHANGED <<backups, restore, deletion, quarantine>>
    BY <1>5 DEF MoveAside, MoveIn, MoveInFails, RemovePrevious, deletionVars
  <2> QED BY <1>0, <2>1 DEF SavesType
<1>6. CASE RecordPublished \/ CommitRestore
  <2>1. /\ \/ restore' = [restore EXCEPT !.phase = "published"]
           \/ restore' = [restore EXCEPT !.phase = "committed"]
        /\ UNCHANGED <<backups, stagedData, previousData, deletion, quarantine>>
    BY <1>6 DEF RecordPublished, CommitRestore, deletionVars
  <2>2. restore' \in RestoreType
    BY <2>1 DEF RestoreType
  <2> QED BY <2>1, <2>2
<1>7. CASE SyncEntry \/ ClearMarker \/ SyncNext \/ BeginBackup \/ CollectedForSnapshot
           \/ PassReview \/ RecoverRestore \/ RecoverDeletion \/ BackupFails
  BY <1>1, <1>7 DEF SyncEntry, ClearMarker, SyncNext, BeginBackup, CollectedForSnapshot,
                    PassReview, RecoverRestore, RecoverDeletion, BackupFails
<1>8. ASSUME NEW b \in Backups, BeginRestore(b) \/ BeginDelete(b)
      PROVE  VaultType'
  <2>1. CASE BeginRestore(b)
    BY <1>1, <2>1 DEF BeginRestore
  <2>2. CASE BeginDelete(b)
    <3>1. /\ deletion' = [phase |-> "prepared", backup |-> b]
          /\ UNCHANGED <<backups, restore, stagedData, previousData, quarantine>>
      BY <2>2 DEF BeginDelete, restoreVars
    <3>2. deletion' \in DeletionType
      BY <3>1 DEF DeletionType
    <3> QED BY <3>1, <3>2
  <2> QED BY <1>8, <2>1, <2>2
<1>9. CASE QuarantineBackup
  <2>1. /\ quarantine' = backups[deletion.backup] /\ op.kind \in Deleting
        /\ backups' = [backups EXCEPT ![deletion.backup] = NoTree]
        /\ UNCHANGED <<restore, stagedData, previousData, deletion>>
    BY <1>9 DEF QuarantineBackup, restoreVars
  <2>2. deletion.backup \in Backups
    BY <2>1 DEF DeletionNamed
  <2> QED BY <1>0, <2>1, <2>2
<1>10. CASE RecordQuarantined \/ RemoveQuarantined \/ RetireDeletion
  <2>1. /\ quarantine' \in {quarantine, NoTree}
        /\ UNCHANGED <<backups, restore, stagedData, previousData>>
    BY <1>10
       DEF RecordQuarantined, RemoveQuarantined, RetireDeletion, restoreVars, deletionVars
  <2>2. \/ deletion' = deletion \/ deletion' = NoDeletion
        \/ deletion' = [deletion EXCEPT !.phase = "quarantined"]
        \/ deletion' = [deletion EXCEPT !.phase = "deleted"]
    BY <1>10 DEF RecordQuarantined, RemoveQuarantined, RetireDeletion, deletionVars
  <2>3. deletion' \in DeletionType
    BY <1>0, <2>2 DEF DeletionType
  <2> QED BY <1>0, <2>1, <2>3
<1> QED
  BY <1>2, <1>3, <1>4, <1>5, <1>6, <1>7, <1>8, <1>9, <1>10 DEF BackupNext, RestoreOn

\* The journal of a deletion names the backup it deletes.
LEMMA BackupDeletion ==
    ASSUME Control, DeletionNamed, deletion \in DeletionType, BackupNext
    PROVE  DeletionNamed'
<1> USE DEF Control, RowKept
<1>0. "delete" \in Deleting /\ "recover delete" \in Deleting /\ "none" \notin Deleting
      /\ "backup" \notin Deleting /\ "restore" \notin Deleting /\ "recover restore" \notin Deleting
  BY DEF Deleting
<1>1. op' = Idle \/ op'.kind = op.kind \/ Lockable
  BY BackupStep DEF BackupGoal, OtherStep
<1>2. Lockable => op.kind = "none"
  BY IdleFields DEF Lockable, LockFree
<1>3. ASSUME op.kind # "none", UNCHANGED deletion
      PROVE  DeletionNamed'
  BY <1>0, <1>1, <1>2, <1>3, IdleFields DEF DeletionNamed
<1>4. ASSUME op'.kind \notin Deleting, UNCHANGED deletion
      PROVE  DeletionNamed'
  BY <1>4 DEF DeletionNamed
<1>5. CASE BeginBackup \/ (\E b \in Backups : BeginRestore(b)) \/ RecoverRestore
  <2>1. UNCHANGED deletion
    BY <1>5 DEF BeginBackup, BeginRestore, RecoverRestore, backupVars
  <2>2. op'.kind \in {"backup", "restore", "recover restore"}
    <3>0. /\ "backup" \in Kinds /\ "restore" \in Kinds /\ "recover restore" \in Kinds
          /\ "publish" \in Steps /\ "safety" \in Steps /\ "sync" \in Steps
          /\ active \in Places /\ None \in Places
      BY DEF Kinds, Steps, PointersTyped, Places
    <3>1. CASE BeginBackup
      <4>1. op' = CollectFirst("backup", "publish", None)
        BY <3>1 DEF BeginBackup
      <4>2. op'.kind = "backup"
        BY <3>0, <4>1, CollectFirstKind
      <4> QED BY <4>2
    <3>2. CASE \E b \in Backups : BeginRestore(b)
      <4> DEFINE c == CollectFirst("restore", "safety", None)
      <4>1. PICK b \in Backups : op' = [c EXCEPT !.backup = b]
        BY <3>2 DEF BeginRestore
      <4>2. c \in CommandType /\ c.kind = "restore"
        BY <3>0, CollectFirstKind
      <4> HIDE DEF c
      <4> QED BY <4>1, <4>2 DEF CommandType
    <3>3. CASE RecoverRestore
      <4> DEFINE c == Command("recover restore", "sync")
      <4>1. \/ PublicationStep # "none" /\ op' = Command("recover restore", PublicationStep)
            \/ op' = [c EXCEPT !.todo = Installs]
        BY Zenon, <3>3 DEF RecoverRestore
      <4>2. PublicationStep # "none" => PublicationStep \in Steps
        BY DEF PublicationStep, Steps
      <4>3. c \in CommandType /\ c.kind = "recover restore"
        BY <3>0, CommandFields
      <4> HIDE DEF c
      <4>4. CASE PublicationStep # "none" /\ op' = Command("recover restore", PublicationStep)
        BY <3>0, <4>2, <4>4, CommandFields
      <4>5. CASE op' = [c EXCEPT !.todo = Installs]
        BY <4>3, <4>5 DEF CommandType
      <4> QED BY <4>1, <4>4, <4>5
    <3> QED BY <1>5, <3>1, <3>2, <3>3
  <2> QED BY <1>0, <1>4, <2>1, <2>2
<1>6. CASE CollectedForSnapshot \/ PublishBackup \/ SafetyBackup \/ PrepareRestore
  <2>1. op.kind # "none" /\ UNCHANGED deletion
    BY <1>6 DEF CollectedForSnapshot, PublishBackup, SafetyBackup, PrepareRestore,
                Snapshotting, backupVars, deletionVars
  <2> QED BY <1>3, <2>1
<1>7. CASE RefuseRestore \/ PassReview \/ MoveAside \/ MoveIn \/ MoveInFails
  <2>1. op.kind # "none" /\ UNCHANGED deletion
    BY <1>7 DEF RefuseRestore, PassReview, MoveAside, MoveIn, MoveInFails, Restoring,
                backupVars, deletionVars
  <2> QED BY <1>3, <2>1
<1>8. CASE RecordPublished \/ SyncNext \/ SyncEntry \/ ClearMarker \/ CommitRestore
  <2>1. op.kind # "none" /\ UNCHANGED deletion
    BY <1>8 DEF RecordPublished, SyncNext, SyncEntry, ClearMarker, CommitRestore, Restoring,
                backupVars, deletionVars
  <2> QED BY <1>3, <2>1
<1>9. CASE RemovePrevious \/ RetireRestore \/ QuarantineBackup \/ BackupFails
  <2>1. op.kind # "none" /\ UNCHANGED deletion
    BY <1>9 DEF RemovePrevious, RetireRestore, QuarantineBackup, BackupFails, Restoring,
                Deleting, backupVars, deletionVars
  <2> QED BY <1>3, <2>1
<1>10. CASE \E b \in Backups : BeginDelete(b)
  <2>1. PICK b \in Backups : deletion' = [phase |-> "prepared", backup |-> b]
    BY <1>10 DEF BeginDelete
  <2> QED BY <2>1 DEF DeletionNamed
<1>11. CASE RecoverDeletion
  BY <1>11 DEF RecoverDeletion, DeletionNamed, backupVars
<1>12. CASE RecordQuarantined
  <2>1. op.kind \in Deleting /\ deletion' = [deletion EXCEPT !.phase = "quarantined"]
    BY <1>12 DEF RecordQuarantined
  <2>2. deletion'.phase = "quarantined" /\ deletion'.backup = deletion.backup
    BY <2>1 DEF DeletionType
  <2> QED BY <2>1, <2>2 DEF DeletionNamed
<1>13. CASE RemoveQuarantined
  <2>1. /\ op.kind \in Deleting
        /\ deletion' = [deletion EXCEPT !.phase = "deleted"] \/ deletion' = deletion
    BY <1>13 DEF RemoveQuarantined, deletionVars
  <2>2. deletion'.phase \in {"deleted", deletion.phase} /\ deletion'.backup = deletion.backup
    BY <2>1 DEF DeletionType
  <2> QED BY <2>1, <2>2 DEF DeletionNamed
<1>14. CASE RetireDeletion
  <2>1. deletion' = NoDeletion /\ op' = Idle
    BY <1>14 DEF RetireDeletion
  <2> QED BY <1>0, <2>1, IdleFields DEF DeletionNamed, NoDeletion
<1> QED
  BY <1>5, <1>6, <1>7, <1>8, <1>9, <1>10, <1>11, <1>12, <1>13, <1>14
     DEF BackupNext, RestoreOn

\* Crashes and failed calls are counted up to the bound.
LEMMA MishapsBounded ==
    ASSUME mishaps \in 0 .. MaxMishaps, mishaps' = mishaps \/ Mishap
    PROVE  mishaps' \in 0 .. MaxMishaps
BY PlayerAssumption DEF Mishap

\* Every step keeps the types of what the directories hold.
LEMMA FilesStep ==
    ASSUME Control, FilesType, [Next]_vars
    PROVE  FilesType'
<1> USE DEF FilesType
<1>1. CASE CollectEntry \/ ProvideEntry
  <2>1. SavesType'
    BY <1>1, EntryFiles
  <2>2. UNCHANGED <<sessionVars, backupVars, mishaps>>
    BY <1>1 DEF CollectEntry, ProvideEntry
  <2>3. GameType' /\ VaultType'
    BY <2>2 DEF GameType, VaultType, sessionVars, backupVars
  <2>4. op'.kind = op.kind
    <3>1. PICK e \in op.left : op' = Without(e)
      BY <1>1 DEF CollectEntry, ProvideEntry
    <3> QED BY <3>1, WithoutFields DEF Control, RowKept
  <2>5. DeletionNamed'
    BY <2>2, <2>4 DEF DeletionNamed, backupVars
  <2> QED BY <2>1, <2>3, <2>5
<1>2. CASE Crash
  <2>1. op' = Idle /\ UNCHANGED <<copyVars, sessionVars, backupVars>> /\ Mishap
    BY <1>2 DEF Crash
  <2>2. SavesType' /\ VaultType'
    BY <2>1 DEF SavesType, VaultType, copyVars, backupVars
  <2>3. GameType'
    BY <2>1, MishapsBounded DEF GameType, sessionVars
  <2>4. DeletionNamed'
    BY <2>1, IdleFields DEF DeletionNamed, backupVars, Deleting
  <2> QED BY <2>2, <2>3, <2>4
<1>3. CASE LaunchNext
  <2>1. SavesType' /\ GameType'
    BY <1>3, LaunchFiles
  <2>2. UNCHANGED backupVars /\ LaunchOp
    BY <1>3, LaunchStep DEF Control, RowContext, PointersTyped
  <2>3. VaultType'
    BY <2>2 DEF VaultType, backupVars
  <2>4. op' = op \/ op'.kind \notin Deleting
    BY <2>2, IdleFields DEF LaunchOp, SessionKinds, Deleting
  <2>5. DeletionNamed'
    BY <2>2, <2>4 DEF DeletionNamed, backupVars
  <2> QED BY <2>1, <2>3, <2>5
<1>4. CASE SwitchNext
  <2>1. UNCHANGED <<copyVars, sessionVars, backupVars>> /\ SwitchOp
    BY <1>4, SwitchStep DEF Control, RowKept
  <2>2. mishaps' = mishaps \/ Mishap
    BY <1>4 DEF SwitchNext, BeginRollback, BeginActivation, ProvideToTarget, MovePointers,
                RetireActivation, SwitchFails, RecoverActivation
  <2>3. SavesType' /\ VaultType'
    BY <2>1 DEF SavesType, VaultType, copyVars, backupVars
  <2>4. GameType'
    BY <2>1, <2>2, MishapsBounded DEF GameType, sessionVars
  <2>5. op'.kind \notin Deleting
    BY <2>1, IdleFields DEF SwitchOp, Switching, Deleting
  <2>6. DeletionNamed'
    BY <2>1, <2>5 DEF DeletionNamed, backupVars
  <2> QED BY <2>3, <2>4, <2>6
<1>5. CASE BackupNext
  <2>1. SavesType' /\ VaultType'
    BY <1>5, BackupSaves, BackupVault
  <2>2. DeletionNamed'
    BY <1>5, BackupDeletion DEF VaultType
  <2>3. UNCHANGED sessionVars
    BY <1>5, BackupStep DEF Control, RowKept, BackupGoal, VersionsKept
  <2>4. mishaps' = mishaps \/ Mishap
    <3>1. CASE RestoreOn
      BY <3>1
         DEF RestoreOn, MoveAside, MoveIn, RecordPublished, SyncNext, SyncEntry, ClearMarker,
                  CommitRestore, RemovePrevious, RetireRestore
    <3>2. CASE \E b \in Backups : BeginRestore(b) \/ BeginDelete(b)
      BY <3>2 DEF BeginRestore, BeginDelete
    <3>3. CASE BeginBackup \/ CollectedForSnapshot \/ PublishBackup \/ SafetyBackup
      BY <3>3 DEF BeginBackup, CollectedForSnapshot, PublishBackup, SafetyBackup
    <3>4. CASE PrepareRestore \/ RefuseRestore \/ PassReview \/ MoveInFails \/ RecoverRestore
      BY <3>4 DEF PrepareRestore, RefuseRestore, PassReview, MoveInFails, RecoverRestore
    <3>5. CASE QuarantineBackup \/ RecordQuarantined \/ RemoveQuarantined \/ RetireDeletion
               \/ RecoverDeletion \/ BackupFails
      BY <3>5 DEF QuarantineBackup, RecordQuarantined, RemoveQuarantined, RetireDeletion,
                  RecoverDeletion, BackupFails
    <3> QED BY <1>5, <3>1, <3>2, <3>3, <3>4, <3>5 DEF BackupNext
  <2>5. GameType'
    BY <2>3, <2>4, MishapsBounded DEF GameType, sessionVars
  <2> QED BY <2>1, <2>2, <2>5
<1>6. CASE UNCHANGED vars
  BY <1>6 DEF vars, copyVars, sessionVars, backupVars, SavesType, GameType, VaultType,
              DeletionNamed
<1> QED BY <1>1, <1>2, <1>3, <1>4, <1>5, <1>6 DEF Next

-----------------------------------------------------------------------------
(* What has been collected.                                                 *)

\* One more entry collected is canonical, and the others stay as they are.
LEMMA CollectsAnEntry ==
    ASSUME Control, SavesType, CollectEntry, op.at \in Installs,
           NEW e \in op.left, op' = Without(e),
           user' = IF user = NoTree /\ data[op.at][e] = 0
                   THEN NoTree ELSE [At(user) EXCEPT ![e] = data[op.at][e]]
    PROVE  \A f \in Entries : At(user')[f] = IF f = e THEN data[op.at][e] ELSE At(user)[f]
<1>1. At(user) \in Trees /\ e \in Entries /\ data[op.at][e] \in 0 .. MaxVersion
  <2>1. e \in Entries
    BY DEF Control, RowKept, CommandType, EntrySets
  <2> QED BY <2>1, AtIsATree, EntryInTree DEF SavesType
<1>2. CASE user = NoTree /\ data[op.at][e] = 0
  <2>1. At(user) = Empty /\ At(user') = Empty
    BY <1>2 DEF At
  <2> QED BY <1>2, <2>1 DEF Empty
<1>3. CASE ~(user = NoTree /\ data[op.at][e] = 0)
  <2>1. user' = [At(user) EXCEPT ![e] = data[op.at][e]]
    BY <1>3
  <2>2. user' \in Trees
    BY <1>1, <2>1 DEF Trees
  <2>3. At(user') = user'
    BY <2>2, PlayerAssumption DEF At, Trees
  <2> QED BY <1>1, <2>1, <2>3 DEF Trees
<1> QED BY <1>2, <1>3

\* A step with nothing to say about what is collected.
LEMMA NothingCollected ==
    ASSUME session'.phase = "collecting" => session'.child = "gone",
           \/ op'.kind \notin SessionKinds
           \/ op'.step \notin {"collect", "finish"}
           \/ session'.phase \notin {"running", "collecting"}
    PROVE  CollectedSoFar'
BY DEF CollectedSoFar

\* Collecting begins once the game is gone.
LEMMA CollectingBegins ==
    ASSUME op'.step = "collect", op'.left = Entries, session'.child = "gone"
    PROVE  CollectedSoFar'
BY DEF CollectedSoFar

\* A step of a launch or its recovery keeps what has been collected.
LEMMA LaunchCollected ==
    ASSUME Control, CollectedSoFar, LaunchNext
    PROVE  CollectedSoFar'
<1> USE DEF Control, RowKept
<1>1. CASE AcceptLaunch
  <2>1. session'.phase = "preparing"
    BY <1>1, NoSessionFields DEF AcceptLaunch, SessionType
  <2> QED BY <2>1, NothingCollected
<1>2. CASE GiveUpPreparing \/ LeaveUncertain \/ Finish \/ RecoverFails \/ RecoverPreparing
  <2>1. op' = Idle /\ session' \in {session, NoSession}
    BY <1>2 DEF GiveUpPreparing, LeaveUncertain, Finish, RecoverFails, RecoverPreparing,
                Leave, Close, LockFree
  <2>2. op'.kind \notin SessionKinds
    BY <2>1, IdleFields DEF SessionKinds
  <2>3. session'.phase = "collecting" => session'.child = "gone"
    BY <2>1, NoSessionFields DEF CollectedSoFar
  <2> QED BY <2>2, <2>3, NothingCollected
<1>3. CASE ProvideForLaunch
  <2>1. session' = session /\ session.phase = "preparing"
    BY <1>3 DEF ProvideForLaunch, sessionVars
  <2> QED BY <2>1, NothingCollected
<1>4. CASE CloseWindow
  <2>1. /\ op.kind = "launch" /\ op.step = "provide"
        /\ session' = [session EXCEPT !.window = "closed"]
    BY <1>4 DEF CloseWindow, Copied
  <2>2. session'.phase = "preparing"
    BY <2>1 DEF SessionType, RowFollowsLaunch
  <2> QED BY <2>2, NothingCollected
<1>5. CASE RecordSpawning
  <2>1. session'.phase = "spawning"
    <3>1. "spawning" \in Phases
      BY DEF Phases
    <3> QED BY <1>5, <3>1, InPhaseFields DEF RecordSpawning
  <2> QED BY <2>1, NothingCollected
<1>6. CASE Spawn \/ KillUnrecorded
  <2>1. /\ op.kind = "launch" /\ op.step \in {"spawn", "identify"}
        /\ session' = WithChild("alive") \/ session' = WithChild("gone")
    BY <1>6 DEF Spawn, KillUnrecorded
  <2>2. session.phase = "spawning"
    BY <2>1 DEF RowFollowsLaunch
  <2>3. session'.phase = "spawning"
    BY <2>1, <2>2, WithChildFields
  <2> QED BY <2>3, NothingCollected
<1>7. CASE RecordChild
  <2>1. PICK phase \in {"running", "collecting"} :
          (phase = "collecting" => session.child = "gone") /\ session' = InPhase(phase)
    BY <1>7 DEF RecordChild
  <2>2. phase \in Phases
    BY DEF Phases
  <2>3. session'.phase = phase /\ session'.child = session.child
    BY <2>1, <2>2, InPhaseFields
  <2>4. op'.step = "mark"
    <3>1. "mark" \in Steps
      BY DEF Steps
    <3> QED BY <1>7, <3>1, ThenFields DEF RecordChild
  <2> QED BY <2>1, <2>3, <2>4, NothingCollected
<1>8. CASE WriteMarker
  <2>1. session' = session /\ (op' = Then("wait") \/ op' = Failing(Then("wait")))
    BY <1>8 DEF WriteMarker, sessionVars
  <2>2. op'.step = "wait"
    <3> DEFINE c == Then("wait")
    <3>1. c \in CommandType /\ c.step = "wait"
      <4>1. "wait" \in Steps
        BY DEF Steps
      <4> QED BY <4>1, ThenFields
    <3>2. op' = c \/ op' = Failing(c)
      BY <2>1
    <3> HIDE DEF c
    <3> QED BY <3>1, <3>2, FailingFields
  <2> QED BY <2>1, <2>2, NothingCollected DEF CollectedSoFar
<1>9. CASE GameEnded \/ RecoverEnded
  <2>1. /\ op.kind \in SessionKinds /\ op.step = "wait" /\ session.child = "gone"
        /\ session' = InPhase("collecting") \/ session' = session
        /\ op' = Copying("collect", session.install)
             \/ op' = Failing(Copying("collect", session.install))
    BY <1>9 DEF GameEnded, RecoverEnded, SessionKinds
  <2>2. session'.child = "gone"
    <3>1. "collecting" \in Phases
      BY DEF Phases
    <3> QED BY <2>1, <3>1, InPhaseFields
  <2>3. op'.step = "collect" /\ op'.left = Entries
    <3> DEFINE c == Copying("collect", session.install)
    <3>1. c \in CommandType /\ c.step = "collect" /\ c.left = Entries
      <4>1. "collect" \in Steps /\ session.install \in Places
        BY DEF Steps, SessionType
      <4> QED BY <4>1, CopyingFields
    <3>2. op' = c \/ op' = Failing(c)
      BY <2>1
    <3> HIDE DEF c
    <3> QED BY <3>1, <3>2, FailingFields
  <2> QED BY <2>2, <2>3, CollectingBegins
<1>10. CASE FinishCollecting
  <2>1. /\ op.kind \in SessionKinds /\ op.step = "collect" /\ op.left = {}
        /\ session.phase # "preparing"
        /\ op' = Then("finish") /\ UNCHANGED <<user, data, session>>
    BY <1>10 DEF FinishCollecting, Copied, SessionKinds, sessionVars, copyVars
  <2>2. op'.kind = op.kind /\ op'.step = "finish" /\ op'.left = {}
    <3>1. "finish" \in Steps
      BY DEF Steps
    <3> QED BY <2>1, <3>1, ThenFields
  <2> QED BY <2>1, <2>2 DEF CollectedSoFar
<1>11. CASE RecoverLaunch
  <2>1. /\ session.phase \in {"running", "collecting"} /\ UNCHANGED session
        /\ \/ op' = Command("recover launch", "wait")
           \/ /\ session.phase = "collecting"
              /\ op' = On(Command("recover launch", "collect"), session.install)
    BY Zenon, <1>11 DEF RecoverLaunch, sessionVars
  <2>0. "recover launch" \in Kinds /\ "wait" \in Steps /\ "collect" \in Steps
        /\ session.install \in Places
    BY DEF Kinds, Steps, SessionType
  <2>2. CASE op' = Command("recover launch", "wait")
    <3>1. op'.step = "wait"
      BY <2>0, <2>2, CommandFields
    <3> QED BY <2>1, <3>1, NothingCollected DEF CollectedSoFar
  <2>3. CASE /\ session.phase = "collecting"
             /\ op' = On(Command("recover launch", "collect"), session.install)
    <3> DEFINE c == Command("recover launch", "collect")
    <3>1. c \in CommandType /\ c.step = "collect"
      BY <2>0, CommandFields
    <3>2. op' = On(c, session.install)
      BY <2>3
    <3> HIDE DEF c
    <3>3. op'.step = "collect" /\ op'.left = Entries
      BY <2>0, <3>1, <3>2, OnFields
    <3>4. session'.child = "gone"
      BY <2>1, <2>3 DEF CollectedSoFar
    <3> QED BY <3>3, <3>4, CollectingBegins
  <2> QED BY <2>1, <2>2, <2>3
<1>12. CASE RequestCancel
  <2>1. session.phase = "preparing" /\ session' = [session EXCEPT !.asked = TRUE]
    BY <1>12 DEF RequestCancel
  <2>2. session'.phase = "preparing"
    BY <2>1 DEF SessionType
  <2> QED BY <2>2, NothingCollected
<1>13. CASE GameExits
  <2>1. session.child = "alive" /\ session' = WithChild("gone") /\ UNCHANGED op
    BY <1>13 DEF GameExits
  <2>2. session'.phase = session.phase /\ session'.child = "gone"
    BY <2>1, WithChildFields
  <2> QED BY <2>1, <2>2, NothingCollected DEF CollectedSoFar
<1>14. CASE GameWrites
  <2>1. session.child = "alive" /\ UNCHANGED <<op, session>>
    BY <1>14 DEF GameWrites
  <2> QED BY <2>1, NothingCollected DEF CollectedSoFar
<1> QED
  BY <1>1, <1>2, <1>3, <1>4, <1>5, <1>6, <1>7, <1>8, <1>9, <1>10, <1>11, <1>12, <1>13,
     <1>14 DEF LaunchNext, Supervise, RecoverSession

\* Every step keeps what has been collected.
LEMMA CollectedStep ==
    ASSUME Control, SavesType, CollectedSoFar, [Next]_vars
    PROVE  CollectedSoFar'
<1> USE DEF Control, RowKept
<1>1. CASE CollectEntry
  <2>1. PICK e \in op.left :
          /\ user' = IF user = NoTree /\ data[op.at][e] = 0
                     THEN NoTree ELSE [At(user) EXCEPT ![e] = data[op.at][e]]
          /\ op' = Without(e)
    BY <1>1 DEF CollectEntry
  <2>2. UNCHANGED <<data, session>> /\ op.step = "collect"
    BY <1>1 DEF CollectEntry, sessionVars
  <2>3. op.at \in Installs
    BY <2>1, <2>2 DEF CopiesHaveAPlace
  <2>4. \A f \in Entries : At(user')[f] = IF f = e THEN data[op.at][e] ELSE At(user)[f]
    BY <1>1, <2>1, <2>3, CollectsAnEntry
  <2>5. op'.kind = op.kind /\ op'.step = "collect" /\ op'.left = op.left \ {e}
    BY <2>1, <2>2, WithoutFields
  <2>6. CASE op.kind \in SessionKinds /\ session.phase \in {"running", "collecting"}
    <3>1. op.at = session.install
      BY <2>2, <2>6 DEF SessionsHaveAPlace
    <3>2. /\ session.child = "gone"
          /\ \A f \in Entries \ op.left : At(user)[f] = data[session.install][f]
      BY <2>2, <2>6 DEF CollectedSoFar
    <3>3. \A f \in Entries \ op'.left : At(user')[f] = data[session.install][f]
      BY <2>4, <2>5, <3>1, <3>2
    <3> QED BY <2>2, <2>5, <3>2, <3>3 DEF CollectedSoFar
  <2>7. CASE ~(op.kind \in SessionKinds /\ session.phase \in {"running", "collecting"})
    BY <2>2, <2>5, <2>7, NothingCollected DEF CollectedSoFar
  <2> QED BY <2>6, <2>7
<1>2. CASE ProvideEntry
  <2>1. PICK e \in op.left : op' = Without(e)
    BY <1>2 DEF ProvideEntry
  <2>2. op'.step = "provide" /\ UNCHANGED session
    BY <1>2, <2>1, WithoutFields DEF ProvideEntry, sessionVars
  <2> QED BY <2>2, NothingCollected DEF CollectedSoFar
<1>3. CASE Crash
  <2>1. op'.kind = "none" /\ UNCHANGED session
    BY <1>3, IdleFields DEF Crash, sessionVars
  <2> QED BY <2>1, NothingCollected DEF CollectedSoFar, SessionKinds
<1>4. CASE LaunchNext
  BY <1>4, LaunchCollected
<1>5. CASE SwitchNext \/ BackupNext
  <2>1. OtherStep /\ CopiesHaveAPlace' /\ UNCHANGED session
    BY <1>5, SwitchStep, BackupStep DEF BackupGoal, VersionsKept, sessionVars
  <2>2. session' = NoSession
    BY <2>1, OtherStepKeepsTheRow
  <2> QED BY <2>2, NoSessionFields, NothingCollected
<1>6. CASE UNCHANGED vars
  BY <1>6 DEF vars, copyVars, sessionVars, CollectedSoFar
<1> QED BY <1>1, <1>2, <1>3, <1>4, <1>5, <1>6 DEF Next

-----------------------------------------------------------------------------
(* The theorems.                                                            *)

PlayerInvariant == Control /\ FilesType /\ CollectedSoFar

\* In the beginning nothing has been played, copied or collected.
LEMMA FilesInit ==
    ASSUME Init
    PROVE  FilesType /\ CollectedSoFar
<1>1. /\ data \in [Installs -> {Empty}] /\ user = NoTree /\ launched = {}
      /\ played = {} /\ written = 0 /\ mishaps = 0
      /\ stagedData = NoTree /\ previousData = NoTree /\ quarantine = NoTree
      /\ backups = [b \in Backups |-> NoTree]
      /\ restore = NoRestore /\ deletion = NoDeletion /\ op = Idle /\ session = NoSession
  BY DEF Init
<1>2. Empty \in Trees
  BY PlayerAssumption DEF Empty, Trees
<1>3. SavesType
  BY <1>1, <1>2 DEF SavesType, Directories
<1>4. GameType
  BY <1>1, PlayerAssumption DEF GameType
<1>5. VaultType
  BY <1>1 DEF VaultType, Directories, NoRestore, RestoreType, NoDeletion, DeletionType
<1>6. DeletionNamed
  BY <1>1, IdleFields DEF DeletionNamed, NoDeletion, Deleting
<1>7. CollectedSoFar
  BY <1>1, NoSessionFields DEF CollectedSoFar
<1> QED BY <1>3, <1>4, <1>5, <1>6, <1>7 DEF FilesType

\* The inductive invariant: who holds the lock, what the directories hold, and
\* what has been collected.
THEOREM PlayerInvariantHolds == Spec => []PlayerInvariant
<1>1. Init => PlayerInvariant
  BY ControlInit, FilesInit DEF PlayerInvariant
<1>2. PlayerInvariant /\ [Next]_vars => PlayerInvariant'
  <2> SUFFICES ASSUME PlayerInvariant, [Next]_vars PROVE PlayerInvariant'
    OBVIOUS
  <2>1. Control'
    BY ControlStep DEF PlayerInvariant
  <2>2. FilesType'
    BY FilesStep DEF PlayerInvariant
  <2>3. CollectedSoFar'
    BY CollectedStep DEF PlayerInvariant, FilesType
  <2> QED BY <2>1, <2>2, <2>3 DEF PlayerInvariant
<1> QED BY <1>1, <1>2, PTL DEF Spec

\* Types.
THEOREM PlayerTypes == Spec => []TypeOK
<1>1. PlayerInvariant => TypeOK
  <2> SUFFICES ASSUME PlayerInvariant PROVE TypeOK
    OBVIOUS
  <2>1. /\ user \in Trees \cup {NoTree} /\ data \in [Installs -> Trees] /\ launched \subseteq Installs
        /\ played \subseteq Installs /\ written \in 0 .. MaxVersion /\ mishaps \in 0 .. MaxMishaps
    BY DEF PlayerInvariant, FilesType, SavesType, GameType, Directories
  <2>2. /\ backups \in [Backups -> Trees \cup {NoTree}]
        /\ restore \in [phase : {"none", "prepared", "published", "committed"}, replaces : BOOLEAN]
        /\ {stagedData, previousData, quarantine} \subseteq Trees \cup {NoTree}
        /\ deletion \in [phase : {"none", "prepared", "quarantined", "deleted"},
                         backup : Backups \cup {None}]
    BY DEF PlayerInvariant, FilesType, VaultType, Directories, RestoreType, DeletionType
  <2>3. active \in Installs /\ {previous, staged, activation} \subseteq Installs \cup {None}
    BY DEF PlayerInvariant, Control, PointersTyped, Places
  <2>4. session \in [phase : Phases, install : Installs \cup {None}, asked : BOOLEAN,
                     window : {"open", "closed"}, child : {"none", "alive", "gone"}]
    BY DEF PlayerInvariant, Control, RowKept, SessionType, Places
  <2>5. op \in [kind : Kinds, step : Steps, at : Installs \cup {None},
                left : SUBSET Entries, todo : SUBSET Installs,
                backup : Backups \cup {None}, failed : BOOLEAN]
    BY DEF PlayerInvariant, Control, RowKept, CommandType, Places, EntrySets
  <2> QED BY <2>1, <2>2, <2>3, <2>4, <2>5 DEF TypeOK
<1> QED BY <1>1, PlayerInvariantHolds, PTL

\* An unfinished session and an unfinished restore exclude each other, so neither
\* recovery waits for the other (recover_launch_sessions, recover_restore).
THEOREM RecoveriesNeverBlockHolds == Spec => []RecoveriesNeverBlock
<1>1. PlayerInvariant => RecoveriesNeverBlock
  BY DEF PlayerInvariant, Control, RowKept, KindsAndSessions, RecoveriesNeverBlock,
         NoRestorePending
<1> QED BY <1>1, PlayerInvariantHolds, PTL

\* A cancel request that was taken excludes the game (begin_publication).
THEOREM CancelledNeverPlaysHolds == Spec => []CancelledNeverPlays
<1>1. PlayerInvariant => CancelledNeverPlays
  BY DEF PlayerInvariant, Control, RowKept, RowFollowsLaunch, CancelledNeverPlays
<1> QED BY <1>1, PlayerInvariantHolds, PTL

\* While a game runs, with or without its supervisor, its version stays active and
\* only its own writes change an installed version's files (lock_port and
\* require_no_unfinished_launch_session).
THEOREM GameKeepsItsFilesHolds == Spec => GameKeepsItsFiles
<1>1. PlayerInvariant /\ [Next]_vars =>
        [session.child = "alive" =>
           /\ active' = active
           /\ data' # data => written' # written]_vars
  <2>1. PlayerInvariant => Control /\ written \in Nat
    BY PlayerAssumption DEF PlayerInvariant, FilesType, GameType
  <2> QED BY <2>1, GameKeepsItsFilesStep
<1> QED BY <1>1, PlayerInvariantHolds, PTL DEF Spec, GameKeepsItsFiles

\* The row of a game that ran is closed by the last step of its launch or of its
\* recovery alone.
LEMMA OnlyFinishCloses ==
    ASSUME Control, [Next]_vars, session.phase \in {"running", "collecting"},
           session' = NoSession
    PROVE  Finish
<1> USE DEF Control, RowKept
<1>0. session # NoSession /\ session'.phase = "none"
  BY NoSessionFields
<1>1. CASE CollectEntry \/ ProvideEntry \/ Crash \/ UNCHANGED vars
  BY <1>0, <1>1 DEF CollectEntry, ProvideEntry, Crash, vars, sessionVars
<1>2. ~OtherStep
  BY <1>0 DEF OtherStep, OtherKinds, KindsAndSessions, Lockable
<1>3. ~SwitchNext /\ ~BackupNext
  BY <1>2, SwitchStep, BackupStep DEF BackupGoal
<1>4. ~AcceptLaunch /\ ~RecoverPreparing /\ ~ProvideForLaunch /\ ~RequestCancel
  BY <1>0 DEF AcceptLaunch, Lockable, RecoverPreparing, ProvideForLaunch, RequestCancel
<1>5. ~GiveUpPreparing
  BY DEF GiveUpPreparing, RowFollowsLaunch
<1>6. ~CloseWindow /\ ~RecordSpawning /\ ~Spawn /\ ~KillUnrecorded
  BY DEF CloseWindow, RecordSpawning, Spawn, KillUnrecorded, RowFollowsLaunch, Copied
<1>7. ~RecordChild
  BY DEF RecordChild, RowFollowsLaunch
<1>8. ~WriteMarker /\ ~LeaveUncertain /\ ~FinishCollecting /\ ~RecoverLaunch /\ ~RecoverFails
      /\ ~GameWrites
  BY <1>0 DEF WriteMarker, LeaveUncertain, FinishCollecting, RecoverLaunch, RecoverFails,
              Leave, GameWrites, sessionVars
<1>9. ~GameEnded /\ ~RecoverEnded /\ ~GameExits
  <2>1. "collecting" \in Phases
    BY DEF Phases
  <2>2. InPhase("collecting").phase = "collecting"
    BY <2>1, InPhaseFields
  <2>3. WithChild("gone").phase = session.phase
    BY WithChildFields
  <2> QED BY <1>0, <2>2, <2>3 DEF GameEnded, RecoverEnded, GameExits
<1> QED
  BY <1>1, <1>3, <1>4, <1>5, <1>6, <1>7, <1>8, <1>9
     DEF Next, LaunchNext, Supervise, RecoverSession

\* A session whose game was recorded is closed only when the canonical saves are
\* exactly what its version holds (supervise_launch_identified,
\* recover_launch_session).
THEOREM ClosedOnlyWhenCollectedHolds == Spec => ClosedOnlyWhenCollected
<1>1. ASSUME PlayerInvariant, [Next]_vars, session.phase \in {"running", "collecting"},
             session' = NoSession
      PROVE  At(user) = data[session.install]
  <2>1. op.kind \in SessionKinds /\ op.step = "finish"
    BY <1>1, OnlyFinishCloses DEF PlayerInvariant, Finish, SessionKinds
  <2>2. \A e \in Entries : At(user)[e] = data[session.install][e]
    BY <1>1, <2>1 DEF PlayerInvariant, CollectedSoFar
  <2>3. session.install \in Installs
    BY <1>1 DEF PlayerInvariant, Control, RowKept, SessionsHaveAPlace
  <2>4. At(user) \in Trees /\ data[session.install] \in Trees
    BY <1>1, <2>3, AtIsATree DEF PlayerInvariant, FilesType, SavesType
  <2> QED BY <2>2, <2>4 DEF Trees
<1>2. PlayerInvariant /\ [Next]_vars =>
        [session.phase \in {"running", "collecting"} /\ session' = NoSession
           => At(user) = data[session.install]]_vars
  BY <1>1
<1> QED BY <1>2, PlayerInvariantHolds, PTL DEF Spec, ClosedOnlyWhenCollected
=============================================================================
