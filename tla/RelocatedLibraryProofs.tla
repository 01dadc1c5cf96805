----------------------- MODULE RelocatedLibraryProofs -----------------------
(***************************************************************************)
(* Theorems about a game that is played, switched and backed up while its  *)
(* versions move to another folder, for every number of versions, entries, *)
(* backups and crashes: the next start always finds a state of the move it *)
(* can go on from, no version moves under a session, and what is proved    *)
(* of the player library without relocations holds with them.              *)
(*                                                                         *)
(* A relocation is one more command that takes the port lock only when no  *)
(* session is unfinished, so the argument of PlayerLibraryProofs carries   *)
(* over; and between two tries nothing but a relocation touches its        *)
(* journal.                                                                *)
(***************************************************************************)
EXTENDS RelocatedLibrary, PlayerLibraryProofs

RelocationPhases == {"none", "copying", "prepared", "published", "committed", "cleanup"}
RelocationType ==
    [phase : RelocationPhases, reviewed : [Installs -> TreesOfVersions \cup {NoTree}],
     staged : Places, copied : SUBSET Installs, placed : SUBSET Installs, moved : BOOLEAN]
OldCopiesType == [Installs -> TreesOfVersions \cup {NoTree}]

\* What the journal has of a move that is under way: what was reviewed, and that
\* nothing is in place before everything was copied.
JournalOfAMove ==
    /\ relocation.phase # "none" => \A i \in Installs : relocation.reviewed[i] \in TreesOfVersions
    /\ relocation.phase = "copying" => relocation.placed = {}

\* What a step of a relocation, or of its recovery, may count on.
RelocationSteps == {"copy", "place", "move", "clean"}
RelocationCommand ==
    op.kind \in Relocating =>
      /\ op.step \in RelocationSteps
      /\ op.step = "copy" => relocation.phase = "copying"
      /\ op.step = "place" => relocation.phase = "prepared"
      /\ op.step = "move" => relocation.phase = "published"
      /\ op.step = "clean" => relocation.phase \in {"committed", "cleanup"}

MoveJournal ==
    /\ relocation \in RelocationType /\ oldCopies \in OldCopiesType
    /\ RelocationIsRecoverable /\ JournalOfAMove /\ RelocationCommand

RelocatedInvariant == PlayerInvariant /\ MoveJournal

-----------------------------------------------------------------------------
(* The steps of a relocation.                                              *)

\* The relocation and its recovery are commands that are no launch.
LEMMA RelocatingKinds ==
    /\ Relocating \subseteq OtherKinds /\ Relocating \subseteq Kinds
    /\ "none" \notin Relocating
    /\ {"relocate", "recover relocate"} \subseteq Relocating
    /\ RelocationSteps \subseteq Steps
    /\ RelocationSteps \cap {"none", "collect", "provide", "sync"} = {}
    /\ Relocating \cap (Deleting \cup SessionKinds \cup Switching \cup BackupKinds) = {}
    /\ "restore" \notin Relocating
BY DEF Relocating, OtherKinds, Kinds, SessionKinds, RelocationSteps, Steps, Deleting, Switching,
       BackupKinds

\* Where a relocation is taken up again.
LEMMA StepOfPhase ==
    ASSUME NEW p \in RelocationPhases
    PROVE  /\ StepOf(p) \in RelocationSteps
           /\ StepOf(p) = "copy" => p = "copying"
           /\ StepOf(p) = "place" => p = "prepared"
           /\ StepOf(p) = "move" => p = "published"
           /\ StepOf(p) = "clean" => p \in {"none", "committed", "cleanup"}
<1>1. CASE p = "copying"
  <2>1. StepOf(p) = "copy"
    BY <1>1 DEF StepOf
  <2> QED BY <1>1, <2>1 DEF RelocationSteps
<1>2. CASE p = "prepared"
  <2>1. StepOf(p) = "place"
    BY <1>2 DEF StepOf
  <2> QED BY <1>2, <2>1 DEF RelocationSteps
<1>3. CASE p = "published"
  <2>1. StepOf(p) = "move"
    BY <1>3 DEF StepOf
  <2> QED BY <1>3, <2>1 DEF RelocationSteps
<1>4. CASE p \in {"none", "committed", "cleanup"}
  <2>1. StepOf(p) = "clean"
    BY <1>4 DEF StepOf
  <2> QED BY <1>4, <2>1 DEF RelocationSteps
<1> QED BY <1>1, <1>2, <1>3, <1>4 DEF RelocationPhases

\* A relocation without a journal is not taken up.
LEMMA ResumesAMove == Resumable => relocation.phase # "none"
BY DEF Resumable

\* How its command goes on, ends, or begins.
RelocationOp ==
    \/ op.kind \in Relocating /\ op' = Idle
    \/ op.kind \in Relocating /\ op' = op
    \/ op.kind \in Relocating /\ (\E s \in RelocationSteps : op' = Then(s))
    \/ Lockable /\ (\E k \in Relocating, s \in RelocationSteps : op' = Command(k, s))

\* Every step of a relocation is one of these; the rest of the library but the
\* versions' trees stays as it is.
LEMMA RelocationStep ==
    ASSUME relocation \in RelocationType, RelocationNext
    PROVE  /\ RelocationOp /\ UNCHANGED PlayerVars
           /\ mishaps' = mishaps \/ Mishap
           /\ UNCHANGED <<data, launched>> \/ MoveRows
<1> USE RelocatingKinds
<1> {"copy", "place", "move", "clean"} \subseteq RelocationSteps
  BY DEF RelocationSteps
<1>1. CASE BeginRelocation
  BY <1>1 DEF BeginRelocation, RelocationOp
<1>2. CASE CopyVersion \/ PlaceVersion
  BY <1>2 DEF CopyVersion, PlaceVersion, RelocationOp
<1>3. CASE PrepareRelocation
  BY <1>3 DEF PrepareRelocation, RelocationOp
<1>4. CASE PublishRelocation
  BY <1>4 DEF PublishRelocation, RelocationOp
<1>5. CASE MoveRows \/ RemoveOldCopy
  BY <1>5 DEF MoveRows, RemoveOldCopy, RelocationOp
<1>6. CASE CommitRelocation
  BY <1>6 DEF CommitRelocation, RelocationOp
<1>7. CASE KeepOldCopies \/ RetireRelocation \/ RelocationFails
  BY <1>7 DEF KeepOldCopies, RetireRelocation, RelocationFails, RelocationOp
<1>8. CASE RecoverRelocation
  <2>1. StepOf(relocation.phase) \in RelocationSteps
    BY StepOfPhase DEF RelocationType
  <2> QED BY <1>8, <2>1 DEF RecoverRelocation, RelocationOp
<1> QED BY <1>1, <1>2, <1>3, <1>4, <1>5, <1>6, <1>7, <1>8 DEF RelocationNext, RelocateOn

\* What such a command is.
LEMMA RelocationOpFields ==
    ASSUME op \in CommandType, CopiesHaveAPlace, RelocationOp
    PROVE  /\ OtherStep /\ CopiesHaveAPlace'
           /\ op'.kind \in Relocating \cup {"none"}
<1> USE RelocatingKinds
<1>1. CASE op.kind \in Relocating /\ op' = Idle
  BY <1>1, IdleFields DEF OtherStep, CopiesHaveAPlace
<1>2. CASE op.kind \in Relocating /\ op' = op
  BY <1>2 DEF OtherStep, CopiesHaveAPlace
<1>3. CASE op.kind \in Relocating /\ \E s \in RelocationSteps : op' = Then(s)
  <2>1. PICK s \in RelocationSteps : op' = Then(s)
    BY <1>3
  <2>2. op' \in CommandType /\ op'.kind = op.kind /\ op'.step = s
    BY <2>1, ThenFields
  <2> QED BY <1>3, <2>2 DEF OtherStep, CopiesHaveAPlace
<1>4. CASE Lockable /\ \E k \in Relocating, s \in RelocationSteps : op' = Command(k, s)
  <2>1. PICK k \in Relocating, s \in RelocationSteps : op' = Command(k, s)
    BY <1>4
  <2>2. op' \in CommandType /\ op'.kind = k /\ op'.step = s
    BY <2>1, CommandFields
  <2> QED BY <1>4, <2>2 DEF OtherStep, CopiesHaveAPlace
<1> QED BY <1>1, <1>2, <1>3, <1>4 DEF RelocationOp

\* A relocation runs while no session is unfinished, and leaves what the player
\* library relies on as it was.
LEMMA RelocationKeepsThePlayer ==
    ASSUME PlayerInvariant, MoveJournal, RelocationNext
    PROVE  PlayerInvariant' /\ session = NoSession
<1>0. Control /\ RowKept /\ SavesType
  BY DEF PlayerInvariant, Control, FilesType
<1>1. /\ RelocationOp /\ UNCHANGED PlayerVars /\ (mishaps' = mishaps \/ Mishap)
      /\ UNCHANGED <<data, launched>> \/ MoveRows
  BY RelocationStep DEF MoveJournal
<1>2. /\ OtherStep /\ CopiesHaveAPlace' /\ op'.kind \in Relocating \cup {"none"}
  BY <1>0, <1>1, RelocationOpFields DEF RowKept
<1>3. UNCHANGED <<user, active, previous, staged, activation, session, played, written, backupVars>>
  BY <1>1 DEF PlayerVars, versionVars, sessionVars
<1>4. RowKept' /\ session = NoSession
  BY <1>0, <1>2, <1>3, OtherStepKeepsTheRow
<1>5. op'.kind \notin {"rollback", "activate", "recover activate", "restore"} \cup Deleting
  BY <1>2, RelocatingKinds DEF Switching, Deleting
<1>6. Control'
  BY <1>0, <1>3, <1>4, <1>5 DEF Control, PointersTyped, TargetsExist, RestoresHaveASource
<1>7. data' \in [Installs -> Trees] /\ launched' \subseteq Installs
  <2>1. CASE UNCHANGED <<data, launched>>
    BY <1>0, <2>1 DEF SavesType
  <2>2. CASE MoveRows
    <3>1. relocation.phase # "none"
      BY <2>2 DEF MoveRows, MoveJournal, RelocationCommand
    <3>2. \A i \in Installs : relocation.reviewed[i].saves \in Trees
      BY <3>1 DEF MoveJournal, JournalOfAMove, TreesOfVersions
    <3> QED BY <2>2, <3>2 DEF MoveRows
  <2> QED BY <1>1, <2>1, <2>2
<1>8. SavesType' /\ GameType' /\ VaultType' /\ DeletionNamed'
  <2>1. SavesType'
    BY <1>0, <1>3, <1>7 DEF SavesType
  <2>2. GameType'
    BY <1>1, <1>3, MishapsBounded DEF PlayerInvariant, FilesType, GameType
  <2>3. VaultType'
    BY <1>3 DEF PlayerInvariant, FilesType, VaultType, backupVars
  <2>4. DeletionNamed'
    BY <1>3, <1>5 DEF PlayerInvariant, FilesType, DeletionNamed, backupVars
  <2> QED BY <2>1, <2>2, <2>3, <2>4
<1>9. CollectedSoFar'
  <2>1. session' = NoSession
    BY <1>3, <1>4
  <2> QED BY <2>1, NoSessionFields, NothingCollected
<1> QED BY <1>4, <1>6, <1>8, <1>9 DEF PlayerInvariant, FilesType

-----------------------------------------------------------------------------
(* The journal of a relocation.                                            *)

\* A journal in its next phase, or with a version more copied or placed.
LEMMA JournalFields ==
    ASSUME relocation \in RelocationType, NEW p \in RelocationPhases
    PROVE  LET r == [relocation EXCEPT !.phase = p]
           IN  /\ r \in RelocationType /\ r.phase = p /\ r.reviewed = relocation.reviewed
               /\ r.copied = relocation.copied /\ r.placed = relocation.placed
               /\ r.moved = relocation.moved
BY DEF RelocationType

\* No journal.
LEMMA NoRelocationFields ==
    /\ NoRelocation \in RelocationType
    /\ NoRelocation.phase = "none" /\ ~NoRelocation.moved
    /\ NoRelocation.copied = {} /\ NoRelocation.placed = {}
BY DEF NoRelocation, RelocationType, RelocationPhases, Places

\* The types, as the recoverable states name them.
LEMMA JournalTypes ==
    ASSUME relocation \in RelocationType, oldCopies \in OldCopiesType,
           relocation.phase = "none" => relocation = NoRelocation
    PROVE  RelocationTypeOK
BY DEF RelocationTypeOK, RelocationType, OldCopiesType, RelocationPhases, Places

\* What MoveJournal says of the journal alone, in one conjunction.
Journal(r) ==
    /\ r \in RelocationType
    /\ r.phase = "none" => r = NoRelocation
    /\ r.phase # "none" => \A i \in Installs : r.reviewed[i] \in TreesOfVersions
    /\ r.phase = "copying" => r.placed = {}
    /\ r.phase = "prepared" => r.copied \cap r.placed = {} /\ r.copied \cup r.placed = Installs
    /\ r.phase \in {"published", "committed", "cleanup"} => r.placed = Installs /\ r.copied = {}
    /\ r.moved => r.phase \in {"published", "committed", "cleanup"}
    /\ r.phase \in {"committed", "cleanup"} => r.moved

\* MoveJournal in these terms.
LEMMA JournalIs ==
    MoveJournal <=> Journal(relocation) /\ oldCopies \in OldCopiesType /\ RelocationCommand
<1>1. MoveJournal => Journal(relocation) /\ oldCopies \in OldCopiesType /\ RelocationCommand
  BY DEF MoveJournal, Journal, RelocationIsRecoverable, RelocationTypeOK, JournalOfAMove
<1>2. Journal(relocation) /\ oldCopies \in OldCopiesType /\ RelocationCommand => MoveJournal
  BY JournalTypes DEF MoveJournal, Journal, RelocationIsRecoverable, JournalOfAMove
<1> QED BY <1>1, <1>2

\* The step of a command against the phase of the journal.
StepFits(step, phase) ==
    \/ step = "copy" /\ phase = "copying"
    \/ step = "place" /\ phase = "prepared"
    \/ step = "move" /\ phase = "published"
    \/ step = "clean" /\ phase \in {"committed", "cleanup"}

\* A relocating command whose step fits keeps what it may count on.
LEMMA FittingStep ==
    ASSUME op'.kind \in Relocating => StepFits(op'.step, relocation'.phase)
    PROVE  RelocationCommand'
BY DEF RelocationCommand, StepFits, RelocationSteps

\* What a review reads of a version.
LEMMA TreesAreTrees ==
    ASSUME SavesType
    PROVE  \A i \in Installs : Tree(i) \in TreesOfVersions
<1> SUFFICES ASSUME NEW i \in Installs PROVE Tree(i) \in TreesOfVersions
  OBVIOUS
<1>1. data[i] \in Trees
  BY DEF SavesType
<1>2. (i \in launched) \in BOOLEAN
  OBVIOUS
<1> QED BY <1>1, <1>2, Zenon DEF Tree, TreesOfVersions

\* Every step of a relocation keeps its journal.
LEMMA RelocationKeepsItsJournal ==
    ASSUME op \in CommandType, SavesType, staged \in Places, MoveJournal, RelocationNext
    PROVE  MoveJournal'
<1> USE RelocatingKinds
<1>0. /\ Journal(relocation) /\ oldCopies \in OldCopiesType /\ RelocationCommand
      /\ relocation \in RelocationType
  BY JournalIs DEF Journal
<1>t. \A i \in Installs : Tree(i) \in TreesOfVersions
  BY TreesAreTrees
<1>p. {"none", "copying", "prepared", "published", "committed", "cleanup"} \subseteq RelocationPhases
  BY DEF RelocationPhases
<1>s. {"copy", "place", "move", "clean"} \subseteq Steps
  BY DEF RelocationSteps
<1> SUFFICES Journal(relocation') /\ oldCopies' \in OldCopiesType /\ RelocationCommand'
  <2>1. (MoveJournal <=> Journal(relocation) /\ oldCopies \in OldCopiesType /\ RelocationCommand)'
    BY JournalIs, PTL
  <2> QED BY <2>1
<1>1. CASE BeginRelocation
  <2>1. /\ relocation' = [NoRelocation EXCEPT !.phase = "copying", !.staged = staged,
                                 !.reviewed = [i \in Installs |-> Tree(i)]]
        /\ op' = Command("relocate", "copy") /\ UNCHANGED oldCopies
    BY <1>1 DEF BeginRelocation
  <2>2. /\ relocation' \in RelocationType /\ relocation'.phase = "copying"
        /\ relocation'.reviewed = [i \in Installs |-> Tree(i)]
        /\ relocation'.placed = {} /\ relocation'.moved = FALSE
    BY <1>t, <2>1, NoRelocationFields DEF RelocationType, RelocationPhases, NoRelocation
  <2>3. Journal(relocation')
    BY <1>t, <2>2 DEF Journal
  <2>4. op'.step = "copy"
    BY <1>s, <2>1, CommandFields
  <2> QED BY <1>0, <2>1, <2>2, <2>3, <2>4, FittingStep DEF StepFits
<1>2. CASE CopyVersion
  <2>1. PICK i \in Installs \ relocation.copied :
          relocation' = [relocation EXCEPT !.copied = @ \cup {i}]
    BY <1>2 DEF CopyVersion
  <2>2. relocation.phase = "copying" /\ op.step = "copy" /\ UNCHANGED <<op, oldCopies>>
    BY <1>0, <1>2 DEF CopyVersion, RelocationCommand
  <2>3. /\ relocation' \in RelocationType /\ relocation'.phase = "copying"
        /\ relocation'.reviewed = relocation.reviewed
        /\ relocation'.placed = relocation.placed /\ relocation'.moved = relocation.moved
    BY <1>0, <2>1, <2>2 DEF RelocationType
  <2>4. Journal(relocation')
    BY <1>0, <2>2, <2>3 DEF Journal
  <2> QED BY <1>0, <2>2, <2>3, <2>4, FittingStep DEF StepFits
<1>3. CASE PrepareRelocation
  <2>1. /\ relocation' = [relocation EXCEPT !.phase = "prepared"] /\ relocation.copied = Installs
        /\ op' = Then("place") /\ relocation.phase = "copying" /\ UNCHANGED oldCopies
    BY <1>0, <1>3 DEF PrepareRelocation, RelocationCommand
  <2>2. Journal(relocation') /\ relocation'.phase = "prepared"
    BY <1>0, <1>p, <2>1, JournalFields DEF Journal
  <2>3. op'.step = "place"
    BY <1>s, <2>1, ThenFields
  <2> QED BY <1>0, <2>1, <2>2, <2>3, FittingStep DEF StepFits
<1>4. CASE PlaceVersion
  <2>1. PICK i \in relocation.copied \ relocation.placed :
          relocation' = [relocation EXCEPT !.copied = @ \ {i}, !.placed = @ \cup {i}]
    BY <1>4 DEF PlaceVersion
  <2>2. relocation.phase = "prepared" /\ op.step = "place" /\ UNCHANGED <<op, oldCopies>>
    BY <1>0, <1>4 DEF PlaceVersion, RelocationCommand
  <2>3. /\ relocation' \in RelocationType /\ relocation'.phase = "prepared"
        /\ relocation'.reviewed = relocation.reviewed /\ relocation'.moved = relocation.moved
        /\ relocation'.copied = relocation.copied \ {i}
        /\ relocation'.placed = relocation.placed \cup {i}
    BY <1>0, <2>1, <2>2 DEF RelocationType
  <2>4. Journal(relocation')
    BY <1>0, <2>1, <2>2, <2>3 DEF Journal
  <2> QED BY <1>0, <2>2, <2>3, <2>4, FittingStep DEF StepFits
<1>5. CASE PublishRelocation
  <2>1. /\ relocation' = [relocation EXCEPT !.phase = "published"] /\ relocation.placed = Installs
        /\ op' = Then("move") /\ relocation.phase = "prepared" /\ UNCHANGED oldCopies
    BY <1>0, <1>5 DEF PublishRelocation, RelocationCommand
  <2>2. relocation.copied = {}
    BY <1>0, <2>1 DEF Journal
  <2>3. Journal(relocation') /\ relocation'.phase = "published"
    BY <1>0, <1>p, <2>1, <2>2, JournalFields DEF Journal
  <2>4. op'.step = "move"
    BY <1>s, <2>1, ThenFields
  <2> QED BY <1>0, <2>1, <2>3, <2>4, FittingStep DEF StepFits
<1>6. CASE MoveRows
  <2>1. /\ relocation' = [relocation EXCEPT !.moved = TRUE] /\ relocation.phase = "published"
        /\ oldCopies' = [i \in Installs |-> Tree(i)] /\ op' = op /\ op.step = "move"
    BY <1>0, <1>6 DEF MoveRows, RelocationCommand
  <2>2. /\ relocation' \in RelocationType /\ relocation'.phase = "published"
        /\ relocation'.reviewed = relocation.reviewed
        /\ relocation'.copied = relocation.copied /\ relocation'.placed = relocation.placed
    BY <1>0, <2>1 DEF RelocationType
  <2>3. Journal(relocation')
    BY <1>0, <2>1, <2>2 DEF Journal
  <2>4. oldCopies' \in OldCopiesType
    BY <1>t, <2>1 DEF OldCopiesType
  <2> QED BY <2>1, <2>2, <2>3, <2>4, FittingStep DEF StepFits
<1>7. CASE CommitRelocation
  <2>1. /\ relocation' = [relocation EXCEPT !.phase = "committed"] /\ relocation.moved
        /\ op' = Then("clean") /\ relocation.phase = "published" /\ UNCHANGED oldCopies
    BY <1>0, <1>7 DEF CommitRelocation, RelocationCommand, Authority
  <2>2. Journal(relocation') /\ relocation'.phase = "committed"
    BY <1>0, <1>p, <2>1, JournalFields DEF Journal
  <2>3. op'.step = "clean"
    BY <1>s, <2>1, ThenFields
  <2> QED BY <1>0, <2>1, <2>2, <2>3, FittingStep DEF StepFits
<1>8. CASE RemoveOldCopy
  <2>1. UNCHANGED <<op, relocation>>
    BY <1>8 DEF RemoveOldCopy
  <2>2. oldCopies' \in OldCopiesType
    BY <1>0, <1>8 DEF RemoveOldCopy, OldCopiesType
  <2>3. RelocationCommand'
    BY <1>0, <2>1 DEF RelocationCommand
  <2> QED BY <1>0, <2>1, <2>2, <2>3
<1>9. CASE KeepOldCopies
  <2>1. /\ relocation' = [relocation EXCEPT !.phase = "cleanup"] /\ relocation.moved
        /\ relocation.phase \in {"committed", "cleanup"} /\ op' = Idle /\ UNCHANGED oldCopies
    BY <1>0, <1>9 DEF KeepOldCopies, RelocationCommand, Authority
  <2>2. Journal(relocation')
    BY <1>0, <1>p, <2>1, JournalFields DEF Journal
  <2> QED BY <1>0, <2>1, <2>2, IdleFields DEF RelocationCommand
<1>10. CASE RetireRelocation
  <2>1. relocation' = NoRelocation /\ op' = Idle /\ UNCHANGED oldCopies
    BY <1>10 DEF RetireRelocation
  <2>2. Journal(relocation')
    BY <2>1, NoRelocationFields DEF Journal
  <2> QED BY <1>0, <2>1, <2>2, IdleFields DEF RelocationCommand
<1>11. CASE RelocationFails
  <2>1. op' = Idle /\ UNCHANGED <<relocation, oldCopies>>
    BY <1>11 DEF RelocationFails, relocationVars
  <2> QED BY <1>0, <2>1, IdleFields DEF RelocationCommand
<1>12. CASE RecoverRelocation
  <2>1. /\ op' = Command("recover relocate", StepOf(relocation.phase)) /\ relocation.phase # "none"
        /\ UNCHANGED <<relocation, oldCopies>>
    BY <1>12, ResumesAMove DEF RecoverRelocation, relocationVars
  <2>2. relocation.phase \in RelocationPhases
    BY <1>0 DEF RelocationType
  <2>3. StepOf(relocation.phase) \in RelocationSteps
    BY <2>2, StepOfPhase
  <2>4. op'.step = StepOf(relocation.phase)
    BY <2>1, <2>3, CommandFields
  <2>5. StepFits(op'.step, relocation'.phase)
    BY <2>1, <2>2, <2>3, <2>4, StepOfPhase DEF StepFits, RelocationSteps
  <2> QED BY <1>0, <2>1, <2>5, FittingStep
<1> QED BY <1>1, <1>2, <1>3, <1>4, <1>5, <1>6, <1>7, <1>8, <1>9, <1>10, <1>11, <1>12
        DEF RelocationNext, RelocateOn

-----------------------------------------------------------------------------
(* Everything else.                                                        *)

\* A new command is of the kind it is given, whether it collects first or not.
LEMMA KindOfCommand ==
    ASSUME NEW k, NEW s, NEW i
    PROVE  Command(k, s).kind = k /\ CollectFirst(k, s, i).kind = k
<1>1. Command(k, s).kind = k
  BY DEF Command, Idle
<1>2. On(Command(k, s), i).kind = k
  BY DEF Command, Idle, On
<1>3. On(Command(k, "collect"), active).kind = k
  BY DEF Command, Idle, On
<1> QED BY <1>1, <1>2, <1>3 DEF CollectFirst

\* A restore begins as one, whichever backup it is of.
LEMMA RestoreBegins ==
    ASSUME active \in Places, NEW b \in Backups, BeginRestore(b)
    PROVE  op'.kind = "restore"
<1> DEFINE c == CollectFirst("restore", "safety", None)
<1>1. "restore" \in Kinds /\ "safety" \in Steps /\ None \in Places
  BY DEF Kinds, Steps, Places
<1>2. c \in CommandType /\ c.kind = "restore"
  BY <1>1, CollectFirstKind
<1>3. op' = [c EXCEPT !.backup = b]
  BY DEF BeginRestore
<1> HIDE DEF c
<1> QED BY <1>2, <1>3 DEF CommandType

\* A backup, a restore or a deletion begins or goes on as one.
LEMMA BackupIsNoRelocation ==
    ASSUME Control, BackupNext
    PROVE  op'.kind \notin Relocating
<1> USE RelocatingKinds DEF Control, RowKept
<1>k. /\ active \in Places /\ None \in Places
      /\ {"backup", "restore", "recover restore", "delete", "recover delete"} \subseteq BackupKinds
      /\ BackupKinds \subseteq Kinds /\ BackupKinds \cap Relocating = {}
      /\ Snapshotting \subseteq BackupKinds /\ Restoring \subseteq BackupKinds
      /\ Deleting \subseteq BackupKinds
  BY DEF PointersTyped, Places, BackupKinds, Kinds, Snapshotting, Restoring, Deleting
<1>o. OtherStep
  BY BackupStep DEF BackupGoal
<1>1. CASE BeginBackup
  <2>1. op' = CollectFirst("backup", "publish", None)
    BY <1>1 DEF BeginBackup
  <2>2. op'.kind = "backup"
    BY <2>1, KindOfCommand
  <2> QED BY <1>k, <2>2
<1>2. CASE \E b \in Backups : BeginRestore(b)
  BY <1>k, <1>2, RestoreBegins
<1>3. CASE \E b \in Backups : BeginDelete(b)
  <2>1. op' = Command("delete", "quarantine")
    BY <1>3 DEF BeginDelete
  <2>2. op'.kind = "delete"
    BY <2>1, KindOfCommand
  <2> QED BY <1>k, <2>2
<1>4. CASE RecoverRestore
  <2>1. CASE restore.phase = "prepared"
    <3>1. op' = Command("recover restore", PublicationStep)
      BY <1>4, <2>1 DEF RecoverRestore
    <3>2. Command("recover restore", PublicationStep).kind = "recover restore"
      BY DEF Command, Idle
    <3> QED BY <1>k, <3>1, <3>2
  <2>2. CASE restore.phase # "prepared"
    <3>1. op' = [Command("recover restore", "sync") EXCEPT !.todo = Installs]
      BY <1>4, <2>2 DEF RecoverRestore
    <3>2. op'.kind = "recover restore"
      BY <3>1 DEF Command, Idle
    <3> QED BY <1>k, <3>2
  <2> QED BY <2>1, <2>2
<1>5. CASE RecoverDeletion
  <2>1. PICK s \in {"quarantine", "record", "remove"} : op' = Command("recover delete", s)
    BY <1>5 DEF RecoverDeletion
  <2>2. op'.kind = "recover delete"
    BY Zenon, <2>1, KindOfCommand
  <2> QED BY <1>k, <2>2
<1>6. CASE op.kind \in BackupKinds
  <2>1. op.kind # "none"
    BY <1>6 DEF BackupKinds
  <2>2. op' = Idle \/ op'.kind = op.kind
    BY <1>o, <2>1, IdleFields DEF OtherStep, Lockable, LockFree
  <2> QED BY <1>6, <1>k, <2>2, IdleFields
<1>7. \/ BeginBackup \/ RecoverRestore \/ RecoverDeletion
      \/ \E b \in Backups : BeginRestore(b) \/ BeginDelete(b)
      \/ op.kind \in BackupKinds
  <2>1. RestoreOn => op.kind \in BackupKinds
    BY <1>k DEF RestoreOn, MoveAside, MoveIn, RecordPublished, SyncNext, SyncEntry, ClearMarker,
                CommitRestore, RemovePrevious, RetireRestore
  <2>2. CollectedForSnapshot \/ PublishBackup \/ SafetyBackup \/ PrepareRestore \/ RefuseRestore
          \/ PassReview \/ MoveInFails => op.kind \in BackupKinds
    BY <1>k DEF CollectedForSnapshot, PublishBackup, SafetyBackup, PrepareRestore, RefuseRestore,
                PassReview, MoveInFails
  <2>3. QuarantineBackup \/ RecordQuarantined \/ RemoveQuarantined \/ RetireDeletion
          \/ BackupFails => op.kind \in BackupKinds
    BY <1>k DEF QuarantineBackup, RecordQuarantined, RemoveQuarantined, RetireDeletion, BackupFails
  <2> QED BY <2>1, <2>2, <2>3 DEF BackupNext
<1> QED BY <1>1, <1>2, <1>3, <1>4, <1>5, <1>6, <1>7

\* Nothing but a relocation begins one or goes on with one.
LEMMA OthersDoNotRelocate ==
    ASSUME Control, RelocationCommand, [Next]_vars
    PROVE  op' = op \/ op'.kind \notin Relocating
<1> USE RelocatingKinds DEF Control, RowKept
<1>1. CASE CollectEntry \/ ProvideEntry
  <2>1. op'.kind = op.kind /\ op.step \in {"collect", "provide"}
    <3>1. PICK e \in op.left : op' = Without(e)
      BY <1>1 DEF CollectEntry, ProvideEntry
    <3> QED BY <1>1, <3>1, WithoutFields DEF CollectEntry, ProvideEntry
  <2> QED BY <2>1 DEF RelocationCommand
<1>2. CASE Crash
  BY <1>2, IdleFields DEF Crash
<1>3. CASE LaunchNext
  BY <1>3, LaunchStep, IdleFields DEF LaunchOp, PointersTyped
<1>4. CASE SwitchNext
  BY <1>4, SwitchStep, IdleFields DEF SwitchOp
<1>5. CASE BackupNext
  BY <1>5, BackupIsNoRelocation
<1>6. CASE UNCHANGED vars
  BY <1>6 DEF vars
<1> QED BY <1>1, <1>2, <1>3, <1>4, <1>5, <1>6 DEF Next

\* The rest of the library keeps the invariant beside an unfinished relocation.
LEMMA OthersKeepTheJournal ==
    ASSUME RelocatedInvariant, [Next]_vars, UNCHANGED relocationVars
    PROVE  RelocatedInvariant'
<1>1. Control /\ FilesType /\ CollectedSoFar /\ SavesType /\ RelocationCommand
  BY DEF RelocatedInvariant, PlayerInvariant, FilesType, MoveJournal
<1>2. Control' /\ FilesType' /\ CollectedSoFar'
  BY <1>1, ControlStep, FilesStep, CollectedStep
<1>3. UNCHANGED <<relocation, oldCopies>>
  BY DEF relocationVars
<1>4. RelocationCommand'
  BY <1>1, <1>3, OthersDoNotRelocate DEF RelocationCommand
<1>5. RelocationIsRecoverable'
  BY <1>3 DEF RelocatedInvariant, MoveJournal, RelocationIsRecoverable, RelocationTypeOK
<1>6. JournalOfAMove'
  BY <1>3 DEF RelocatedInvariant, MoveJournal, JournalOfAMove
<1>7. relocation' \in RelocationType /\ oldCopies' \in OldCopiesType
  BY <1>3 DEF RelocatedInvariant, MoveJournal
<1> QED BY <1>2, <1>4, <1>5, <1>6, <1>7 DEF RelocatedInvariant, PlayerInvariant, MoveJournal

\* It holds at the start.
LEMMA RelocatedInit == RInit => RelocatedInvariant
<1> SUFFICES ASSUME RInit PROVE RelocatedInvariant
  OBVIOUS
<1>1. Init /\ relocation = NoRelocation /\ oldCopies = [i \in Installs |-> NoTree]
  BY DEF RInit
<1>2. PlayerInvariant
  BY <1>1, ControlInit, FilesInit DEF PlayerInvariant
<1>3. Journal(relocation)
  BY <1>1, NoRelocationFields DEF Journal
<1>4. oldCopies \in OldCopiesType
  BY <1>1 DEF OldCopiesType
<1>5. RelocationCommand
  BY <1>1, IdleFields, RelocatingKinds DEF Init, RelocationCommand
<1> QED BY <1>2, <1>3, <1>4, <1>5, JournalIs DEF RelocatedInvariant

\* Every step keeps it.
LEMMA RelocatedStep ==
    ASSUME RelocatedInvariant, [RNext]_allVars
    PROVE  RelocatedInvariant'
<1>1. CASE RelocationNext
  <2>1. PlayerInvariant'
    BY <1>1, RelocationKeepsThePlayer DEF RelocatedInvariant
  <2>2. MoveJournal'
    BY <1>1, RelocationKeepsItsJournal
       DEF RelocatedInvariant, PlayerInvariant, Control, RowKept, FilesType, PointersTyped
  <2> QED BY <2>1, <2>2 DEF RelocatedInvariant
<1>2. CASE Beside(Next) \/ UNCHANGED allVars
  BY <1>2, OthersKeepTheJournal DEF Beside, allVars
<1> QED BY <1>1, <1>2 DEF RNext

-----------------------------------------------------------------------------
(* The theorems.                                                           *)

\* The invariant of the player library, and that of the journal of a relocation.
THEOREM RelocatedInvariantHolds == RSpec => []RelocatedInvariant
<1> QED BY RelocatedInit, RelocatedStep, PTL DEF RSpec

\* Whatever is left of a relocation, each version is either staged or in place until
\* all are, and only then do the rows change (execute_relocation, authority_state).
THEOREM RelocationIsRecoverableHolds == RSpec => []RelocationIsRecoverable
<1>1. RelocatedInvariant => RelocationIsRecoverable
  BY DEF RelocatedInvariant, MoveJournal
<1> QED BY <1>1, RelocatedInvariantHolds, PTL

\* A version never moves while a session is unfinished (lock_port;
\* recover_launch_session compares the recorded path with the registered one).
THEOREM SessionsKeepTheirPathHolds == RSpec => SessionsKeepTheirPath
<1>1. ASSUME RelocatedInvariant, [RNext]_allVars, session # NoSession
      PROVE  relocation'.moved = relocation.moved
  <2>1. ~RelocationNext
    BY <1>1, RelocationKeepsThePlayer DEF RelocatedInvariant
  <2> QED BY <1>1, <2>1 DEF RNext, Beside, allVars, relocationVars
<1>2. RelocatedInvariant /\ [RNext]_allVars =>
        [session # NoSession => relocation'.moved = relocation.moved]_allVars
  BY <1>1
<1> QED BY <1>2, RelocatedInvariantHolds, PTL DEF RSpec, SessionsKeepTheirPath

\* Relocations do not make a session and a restore wait for each other.
THEOREM RecoveriesNeverBlockBesideRelocations == RSpec => []RecoveriesNeverBlock
<1>1. RelocatedInvariant => RecoveriesNeverBlock
  BY DEF RelocatedInvariant, PlayerInvariant, Control, RowKept, KindsAndSessions,
         RecoveriesNeverBlock, NoRestorePending
<1> QED BY <1>1, RelocatedInvariantHolds, PTL
=============================================================================
