-------------------------- MODULE LibraryMoveProofs --------------------------
(***************************************************************************)
(* Theorems about LibraryMove, for every set of roots, clients, transfers  *)
(* and saves.                                                              *)
(***************************************************************************)
EXTENDS LibraryMove, TLAPS

USE NoRootAssumption, NoIdAssumption
USE DEF roots, journals, databases, command, users, disk

MoveStep(s) == Command(s) \/ Step(s) \/ Crash(s)

(************************** Journals and their fields **********************)

\* The journal of a move names the move and its destination.
LEMMA JournalFields ==
  ASSUME TypeOK, NEW s \in Roots
  PROVE  /\ journal[s] # NoJournal =>
              /\ journal[s] \in TransferJournal
              /\ journal[s].id \in Ids /\ journal[s].dst \in Roots
              /\ journal[s].phase \in TransferPhase
         /\ journal[s] = NoJournal => journal[s].id = NoId
BY DEF TypeOK, DiskTypes, TransferJournal, NoJournal

\* Journaling a phase changes nothing else about the move.
LEMMA SetPhaseKeepsTheMove ==
  ASSUME TypeOK, NEW s \in Roots, journal[s] # NoJournal,
         NEW phase \in TransferPhase, SetPhase(s, phase)
  PROVE  /\ journal' \in [Roots -> TransferJournal \cup {NoJournal}]
         /\ \A q \in Roots \ {s} : journal'[q] = journal[q]
         /\ journal'[s] # NoJournal
         /\ journal'[s].id = journal[s].id /\ journal'[s].dst = journal[s].dst
         /\ journal'[s].phase = phase
<1>1. journal[s] \in TransferJournal /\ journal \in [Roots -> TransferJournal \cup {NoJournal}]
  BY JournalFields DEF TypeOK, DiskTypes
<1>2. DEFINE j == [journal[s] EXCEPT !.phase = phase]
<1>3. j \in TransferJournal /\ j # NoJournal /\ j.id = journal[s].id /\ j.dst = journal[s].dst
       /\ j.phase = phase
  BY <1>1 DEF TransferJournal, NoJournal, TransferPhase
<1>4. journal' = [journal EXCEPT ![s] = j]
  BY DEF SetPhase
<1>. HIDE DEF j
<1>. QED BY <1>1, <1>3, <1>4

(******************************* Local steps *******************************)

\* A step of the command on s leaves the other commands alone, takes a lease
\* only of a root nobody holds, and works on one move once it has a journal.
LocalStep(s) ==
  /\ \A q \in Roots \ {s} :
       /\ pc'[q] = pc[q] /\ target'[q] = target[q]
       /\ journal'[q] = journal[q] /\ archived'[q] = archived[q]
       /\ q \in leased' <=> q \in leased
  /\ dbs \subseteq dbs'
  /\ pc[s] = "idle" => UNCHANGED command \/ ~HeldExclusively(s)
  /\ s \in leased' => s \in leased \/ (pc[s] \notin Starting /\ ~HeldExclusively(journal[s].dst))
  /\ \/ pc[s] \in Starting
     \/ /\ journal'[s].id = journal[s].id /\ journal'[s].dst = journal[s].dst
        /\ journal'[s] = NoJournal <=> journal[s] = NoJournal

\* A step of one move command leaves the commands of the other roots alone.
LEMMA StepsAreLocal ==
  ASSUME TypeOK, StepsHaveAJournal, LeasesAreHeldInSteps, NEW s \in Roots, MoveStep(s)
  PROVE  LocalStep(s)
<1> USE DEF LocalStep, Goto, Return
<1>a. /\ pc \in [Roots -> Steps] /\ target \in [Roots -> Roots \cup {NoRoot}]
      /\ leased \subseteq Roots
      /\ journal \in [Roots -> TransferJournal \cup {NoJournal}]
      /\ archived \in [Roots -> SUBSET Ids]
  BY DEF TypeOK, DiskTypes, CommandTypes
<1>1. ASSUME NEW d \in Roots, StartMove(s, d) PROVE LocalStep(s)
  BY <1>a, <1>1 DEF StartMove, OpenExclusive, Initialize, CanLockExclusively
<1>2. CASE ResumeMove(s)
  BY <1>a, <1>2 DEF ResumeMove, OpenExclusive, Initialize, CanLockExclusively
<1>3. CASE AbortMove(s)
  BY <1>a, <1>3 DEF AbortMove, OpenExclusive, Initialize, CanLockExclusively
<1>4. CASE ArchiveJournal(s)
  BY <1>a, <1>4 DEF ArchiveJournal
<1>5. ASSUME NEW id \in Ids, CreateJournal(s, id) PROVE LocalStep(s)
  BY <1>a, <1>5 DEF CreateJournal, Starting
<1>6. CASE EnsureActivity(s) \/ AbortRecord(s)
  BY <1>a, <1>6 DEF EnsureActivity, AbortRecord, RecordActivity
<1>7. CASE GateSource(s)
  BY <1>a, <1>7 DEF GateSource
<1>8. CASE MakeDestination(s)
  BY <1>a, <1>8 DEF MakeDestination
<1>9. CASE LockCreated(s)
  BY <1>a, <1>9 DEF LockCreated, CanLockExclusively, Starting
<1>10. CASE LockReused(s)
  BY <1>a, <1>10 DEF LockReused, CanLockExclusively, Starting
<1>11. CASE AdmitDestination(s)
  BY <1>a, <1>11 DEF AdmitDestination, Initialize
<1>12. ASSUME NEW v \in Data, CopyFile(s, v) PROVE LocalStep(s)
  BY <1>a, <1>12 DEF CopyFile
<1>13. CASE CopyDatabase(s)
  BY <1>a, <1>13 DEF CopyDatabase
<1>14. CASE CheckCopies(s)
  BY <1>a, <1>14 DEF CheckCopies
<1>15. CASE WriteReceipt(s)
  BY <1>a, <1>15 DEF WriteReceipt
<1>16. CASE RetireSource(s)
  BY <1>a, <1>16 DEF RetireSource
<1>17. CASE ActivateDestination(s)
  BY <1>a, <1>17 DEF ActivateDestination
<1>18. CASE FinishMove(s) \/ AbortFail(s)
  BY <1>a, <1>18 DEF FinishMove, AbortFail, FinishActivity
<1>19. CASE JournalVerified(s) \/ JournalPublished(s) \/ JournalComplete(s) \/ JournalAborted(s)
  <2>1. journal[s] # NoJournal /\ pc[s] # "idle"
    BY <1>19 DEF StepsHaveAJournal, Starting, JournalVerified, JournalPublished,
                 JournalComplete, JournalAborted
  <2>2. PICK phase \in TransferPhase : SetPhase(s, phase)
    BY <1>19 DEF JournalVerified, JournalPublished, JournalComplete, JournalAborted, TransferPhase
  <2>. QED BY <1>a, <1>19, <2>1, <2>2, SetPhaseKeepsTheMove
         DEF JournalVerified, JournalPublished, JournalComplete, JournalAborted
<1>20. CASE AbortLock(s)
  BY <1>a, <1>20 DEF AbortLock, CanLockExclusively, Starting
<1>21. CASE UngateSource(s)
  BY <1>a, <1>21 DEF UngateSource
<1>22. CASE Crash(s)
  BY <1>a, <1>22 DEF Crash
<1>. QED
  BY <1>1, <1>2, <1>3, <1>4, <1>5, <1>6, <1>7, <1>8, <1>9, <1>10, <1>11, <1>12, <1>13,
     <1>14, <1>15, <1>16, <1>17, <1>18, <1>19, <1>20, <1>21, <1>22
     DEF MoveStep, Command, Step, Create, Continue, Abort

(*********************************** Types *********************************)

\* The types hold at the start.
LEMMA TypesStart == Init => TypeOK
BY DEF Init, TypeOK, DiskTypes, CommandTypes, UserTypes, NoMarker, NoJournal, NoActivity,
       ActivityStatus, Steps

\* The marker of a journal's transfer.
LEMMA AuthorityTypes ==
  ASSUME TypeOK, NEW s \in Roots, journal[s] # NoJournal, NEW state \in {"pending", "moved"}
  PROVE  AuthorityOf(journal[s], state) \in Marker
BY JournalFields DEF AuthorityOf, Marker

\* A step of a command keeps the types of what commands remember.
LEMMA CommandTypesAreKept ==
  ASSUME TypeOK, StepsHaveAJournal, NEW s \in Roots, MoveStep(s)
  PROVE  CommandTypes'
<1> USE DEF CommandTypes, Goto, Return
<1>a. CommandTypes BY DEF TypeOK
<1>1. ASSUME NEW d \in Roots, StartMove(s, d) PROVE CommandTypes'
  BY <1>a, <1>1 DEF StartMove, Steps
<1>2. CASE ResumeMove(s) \/ AbortMove(s)
  BY <1>a, <1>2 DEF ResumeMove, AbortMove, Steps
<1>3. CASE ArchiveJournal(s) \/ \E id \in Ids : CreateJournal(s, id)
  BY <1>a, <1>3 DEF ArchiveJournal, CreateJournal, Steps
<1>4. CASE EnsureActivity(s) \/ AbortRecord(s)
  BY <1>a, <1>4 DEF EnsureActivity, AbortRecord, RecordActivity, Steps
<1>5. CASE GateSource(s) \/ MakeDestination(s) \/ LockCreated(s) \/ LockReused(s) \/ AdmitDestination(s)
  BY <1>a, <1>5 DEF GateSource, MakeDestination, LockCreated, LockReused, AdmitDestination, Steps
<1>6. CASE \/ (\E v \in Data : CopyFile(s, v)) \/ CopyDatabase(s) \/ CheckCopies(s) \/ WriteReceipt(s)
  BY <1>a, <1>6 DEF CopyFile, CopyDatabase, CheckCopies, WriteReceipt, Steps
<1>7. CASE \/ JournalVerified(s) \/ RetireSource(s) \/ JournalPublished(s) \/ ActivateDestination(s)
           \/ JournalComplete(s) \/ JournalAborted(s)
  BY <1>a, <1>7 DEF JournalVerified, RetireSource, JournalPublished, ActivateDestination,
                    JournalComplete, JournalAborted, Steps
<1>8. CASE FinishMove(s) \/ AbortFail(s)
  BY <1>a, <1>8 DEF FinishMove, AbortFail, FinishActivity, Steps
<1>9. CASE AbortLock(s) \/ UngateSource(s) \/ Crash(s)
  BY <1>a, <1>9 DEF AbortLock, UngateSource, Crash, Steps
<1>. QED
  BY <1>1, <1>2, <1>3, <1>4, <1>5, <1>6, <1>7, <1>8, <1>9 DEF MoveStep, Command, Step, Create, Continue, Abort

\* A step of a command leaves what clients remember alone, and so its types.
LEMMA UserTypesAreKept ==
  ASSUME TypeOK, NEW s \in Roots, MoveStep(s)
  PROVE  UserTypes'
<1>1. UNCHANGED users
  BY DEF MoveStep, Command, Step, Create, Continue, Abort, StartMove, ResumeMove, AbortMove,
     ArchiveJournal, CreateJournal, EnsureActivity, AbortRecord, RecordActivity, GateSource,
     MakeDestination, LockCreated, LockReused, AdmitDestination, CopyFile, CopyDatabase,
     CheckCopies, WriteReceipt, JournalVerified, RetireSource, JournalPublished,
     ActivateDestination, FinishMove, FinishActivity, JournalComplete, AbortLock, AbortFail,
     JournalAborted, UngateSource, Crash
<1>. QED BY <1>1 DEF TypeOK, UserTypes

\* A changed activity row is still an activity row.
LEMMA ActivityTypes ==
  ASSUME NEW r \in Roots, NEW i \in Ids, NEW x \in ActivityStatus, TypeOK,
         activity' = [activity EXCEPT ![r][i] = x]
  PROVE  activity' \in [Roots -> [Ids -> ActivityStatus]]
<1>1. activity \in [Roots -> [Ids -> ActivityStatus]] /\ activity[r] \in [Ids -> ActivityStatus]
  BY DEF TypeOK, DiskTypes
<1>2. DEFINE row == [activity[r] EXCEPT ![i] = x]
<1>3. row \in [Ids -> ActivityStatus]
  BY <1>1
<1>4. activity' = [activity EXCEPT ![r] = row]
  OBVIOUS
<1>. HIDE DEF row
<1>. QED BY <1>1, <1>3, <1>4

\* A step of a command keeps the types of what is on disk.
LEMMA DiskTypesAreKept ==
  ASSUME TypeOK, StepsHaveAJournal, StartsAreUnmarked, NEW s \in Roots, MoveStep(s)
  PROVE  DiskTypes'
<1> USE DEF DiskTypes
<1>a. DiskTypes BY DEF TypeOK
<1>b. pc[s] \notin Starting \cup {"idle"} =>
        /\ journal[s] # NoJournal /\ journal[s].dst \in Roots /\ journal[s].id \in Ids
        /\ journal[s].files \in SUBSET Data
  BY JournalFields DEF StepsHaveAJournal, TransferJournal
<1>c. activity \in [Roots -> [Ids -> ActivityStatus]]
  BY <1>a
<1>1. CASE (\E d \in Roots : StartMove(s, d)) \/ ResumeMove(s) \/ AbortMove(s)
  BY <1>a, <1>1 DEF StartMove, ResumeMove, AbortMove, OpenExclusive, Initialize
<1>2. CASE ArchiveJournal(s)
  <2>1. journal[s].id \in Ids \/ archived' = archived
    BY <1>2, JournalFields DEF ArchiveJournal
  <2>. QED BY <1>a, <1>2, <2>1 DEF ArchiveJournal
<1>3. ASSUME NEW id \in Ids, CreateJournal(s, id) PROVE DiskTypes'
  <2>1. [phase |-> "copying", id |-> id, dst |-> target[s],
           files |-> files[s], settings |-> settings[s]] \in TransferJournal
    BY <1>a, <1>3 DEF CreateJournal, StartsAreUnmarked, Starting, TransferJournal, TransferPhase
  <2>2. journal' \in [Roots -> TransferJournal \cup {NoJournal}]
    BY <1>a, <1>3, <2>1 DEF CreateJournal
  <2>. QED BY <1>a, <1>3, <2>2 DEF CreateJournal
<1>4. CASE EnsureActivity(s) \/ AbortRecord(s)
  <2>1. DEFINE i == journal[s].id
               x == IF activity[s][i] = "absent" THEN "running" ELSE activity[s][i]
  <2>2. i \in Ids
    BY <1>b, <1>4 DEF EnsureActivity, AbortRecord, Starting
  <2>5. activity[s][i] \in ActivityStatus
    BY <1>c, <2>2
  <2>6. x \in ActivityStatus
    BY <2>5 DEF ActivityStatus
  <2>3. activity' = [activity EXCEPT ![s][i] = x] \/ activity' = activity
    BY <1>c, <1>4, <2>2 DEF EnsureActivity, AbortRecord, RecordActivity
  <2>. HIDE DEF i, x
  <2>4. activity' \in [Roots -> [Ids -> ActivityStatus]]
    BY <1>c, <2>2, <2>3, <2>6, ActivityTypes
  <2>. QED BY <1>a, <1>4, <2>4 DEF EnsureActivity, AbortRecord, RecordActivity
<1>5. CASE GateSource(s)
  BY <1>a, <1>b, <1>5, AuthorityTypes DEF GateSource, SetMarker, Starting
<1>6. CASE MakeDestination(s)
  BY <1>a, <1>b, <1>6 DEF MakeDestination, Starting
<1>7. CASE LockCreated(s)
  BY <1>a, <1>b, <1>7, AuthorityTypes DEF LockCreated, SetMarker, Starting
<1>8. CASE LockReused(s) \/ CheckCopies(s) \/ AbortLock(s) \/ Crash(s)
  BY <1>a, <1>8 DEF LockReused, CheckCopies, AbortLock, Crash
<1>9. CASE AdmitDestination(s)
  BY <1>a, <1>b, <1>9 DEF AdmitDestination, Initialize, Starting
<1>10. ASSUME NEW v \in Data, CopyFile(s, v) PROVE DiskTypes'
  BY <1>a, <1>b, <1>10 DEF CopyFile, Starting
<1>11. CASE CopyDatabase(s)
  <2>1. journal[s].dst \in Roots
    BY <1>b, <1>11 DEF CopyDatabase, Starting
  <2>2. activity[s] \in [Ids -> ActivityStatus] /\ settings[s] \in SUBSET Data
    BY <1>a
  <2>3. /\ settings' \in [Roots -> SUBSET Data]
        /\ activity' \in [Roots -> [Ids -> ActivityStatus]]
        /\ dbs' \subseteq Roots
    <3>1. settings \in [Roots -> SUBSET Data] /\ dbs \subseteq Roots
      BY <1>a
    <3>. QED BY <1>c, <1>11, <2>1, <2>2, <3>1 DEF CopyDatabase
  <2>. QED BY <1>a, <1>11, <2>3 DEF CopyDatabase
<1>12. CASE WriteReceipt(s)
  BY <1>a, <1>b, <1>12 DEF WriteReceipt, Starting
<1>13. CASE JournalVerified(s) \/ JournalPublished(s) \/ JournalComplete(s) \/ JournalAborted(s)
  <2>1. PICK phase \in TransferPhase : SetPhase(s, phase)
    BY <1>13 DEF JournalVerified, JournalPublished, JournalComplete, JournalAborted, TransferPhase
  <2>2. journal' \in [Roots -> TransferJournal \cup {NoJournal}]
    BY <1>b, <1>13, <2>1, SetPhaseKeepsTheMove
       DEF Starting, JournalVerified, JournalPublished, JournalComplete, JournalAborted
  <2>. QED BY <1>a, <1>13, <2>2 DEF JournalVerified, JournalPublished, JournalComplete, JournalAborted
<1>14. CASE RetireSource(s)
  BY <1>a, <1>b, <1>14, AuthorityTypes DEF RetireSource, SetMarker, Starting
<1>15. CASE ActivateDestination(s)
  BY <1>a, <1>b, <1>15 DEF ActivateDestination, SetMarker, Starting
<1>16. CASE FinishMove(s) \/ AbortFail(s)
  <2>1. DEFINE i == journal[s].id
  <2>2. i \in Ids /\ journal[s].dst \in Roots
    BY <1>b, <1>16 DEF FinishMove, AbortFail, Starting
  <2>3. PICK r \in Roots, x \in ActivityStatus :
          activity' = [activity EXCEPT ![r][i] = x] \/ activity' = activity
    BY <1>16, <2>2 DEF FinishMove, AbortFail, FinishActivity, ActivityStatus
  <2>. HIDE DEF i
  <2>4. activity' \in [Roots -> [Ids -> ActivityStatus]]
    BY <1>c, <2>2, <2>3, ActivityTypes
  <2>. QED BY <1>a, <1>16, <2>4 DEF FinishMove, AbortFail, FinishActivity
<1>17. CASE UngateSource(s)
  BY <1>a, <1>17 DEF UngateSource
<1>. QED
  BY <1>1, <1>2, <1>3, <1>4, <1>5, <1>6, <1>7, <1>8, <1>9, <1>10, <1>11, <1>12, <1>13,
     <1>14, <1>15, <1>16, <1>17 DEF MoveStep, Command, Step, Create, Continue, Abort

\* What clients and edits do to types, and to everything but content.
UserStep ==
  \/ \E c \in Clients : ClientStep(c)
  \/ \E r \in Roots, v \in Edits : Edit(r, v)

\* A step of a client keeps the types.
LEMMA UserStepsKeepTypes ==
  ASSUME TypeOK, UserStep
  PROVE  TypeOK'
<1> USE DEF DiskTypes, CommandTypes, UserTypes
<1>a. DiskTypes /\ CommandTypes /\ UserTypes BY DEF TypeOK
<1>b. \A c \in Clients : client[c].pc # "idle" => client[c] \in Visit
  BY <1>a DEF Gone
<1>1. ASSUME NEW c \in Clients, NEW r \in Roots, Arrive(c, r) PROVE TypeOK'
  BY <1>a, <1>1 DEF Arrive, TypeOK, Visit
<1>2. ASSUME NEW c \in Clients, LockShared(c) PROVE TypeOK'
  <2>1. [client[c] EXCEPT !.pc = "leased"] \in Visit
    BY <1>b, <1>2 DEF LockShared, Visit
  <2>. QED BY <1>a, <1>2, <2>1 DEF LockShared, TypeOK
<1>3. ASSUME NEW c \in Clients, OpenTarget(c) PROVE TypeOK'
  <2>1. client[c] \in Visit /\ client[c].at \in Roots
    BY <1>b, <1>3 DEF OpenTarget, Visit
  <2>2. marker[client[c].at].state = "moved" => marker[client[c].at].dst \in Roots
    BY <1>a, <2>1 DEF Marker, NoMarker
  <2>3. /\ [client[c] EXCEPT !.pc = "open"] \in Visit
        /\ \A d \in Roots : [client[c] EXCEPT !.pc = "arriving", !.at = d] \in Visit
    BY <2>1 DEF Visit
  <2>4. \/ client' = [client EXCEPT ![c] = [@ EXCEPT !.pc = "open"]]
        \/ \E d \in Roots : client' = [client EXCEPT ![c] = [@ EXCEPT !.pc = "arriving", !.at = d]]
        \/ client' = [client EXCEPT ![c] = Gone]
    BY <1>3, <2>2 DEF OpenTarget
  <2>5. client' \in [Clients -> Visit \cup {Gone}]
    <3>1. PICK x \in Visit \cup {Gone} : client' = [client EXCEPT ![c] = x]
      BY <2>3, <2>4
    <3>2. client \in [Clients -> Visit \cup {Gone}]
      BY <1>a
    <3>. QED BY <3>1, <3>2
  <2>6. dbs' \subseteq Roots /\ UNCHANGED <<settings, activity>>
    BY <1>a, <1>3, <2>1 DEF OpenTarget, Initialize
  <2>. QED BY <1>a, <1>3, <2>5, <2>6 DEF OpenTarget, TypeOK
<1>4. ASSUME NEW c \in Clients, NEW v \in Saves, Write(c, v) \/ Delete(c, v) PROVE TypeOK'
  <2>1. /\ files' \in [Roots -> SUBSET Data] /\ settings' \in [Roots -> SUBSET Data]
        /\ acked' \in [Roots -> SUBSET Saves]
    <3>1. /\ files \in [Roots -> SUBSET Data] /\ settings \in [Roots -> SUBSET Data]
          /\ acked \in [Roots -> SUBSET Saves]
      BY <1>a
    <3>. QED BY <3>1, <1>4 DEF Write, Delete, Data
  <2>. QED BY <1>a, <1>4, <2>1 DEF Write, Delete, TypeOK
<1>6. ASSUME NEW c \in Clients, Close(c) PROVE TypeOK'
  BY <1>a, <1>6 DEF Close, TypeOK
<1>5. ASSUME NEW r \in Roots, NEW v \in Edits, Edit(r, v) PROVE TypeOK'
  BY <1>a, <1>5 DEF Edit, Data, TypeOK
<1>. QED
  BY <1>1, <1>2, <1>3, <1>4, <1>5, <1>6 DEF UserStep, ClientStep, Stay

(**************************** Steps and leases *****************************)

\* What holds of the command on s and its lease.
Underway(s) ==
  /\ pc[s] \notin Starting \cup {"idle"} => journal[s] # NoJournal
  /\ pc[s] \in Starting => target[s] \in Roots \ {s}
  /\ journal[s].dst # s
  /\ pc[s] = "archived" => journal[s].id \in archived[s]
  /\ s \in leased => pc[s] \in LockedSteps \cup AbortSteps \cup {"abort journaled"}
  /\ pc[s] \in LockedSteps => s \in leased

\* A command that returns leaves nothing under way ...
LEMMA ReturnKeepsUnderway ==
  ASSUME TypeOK, NEW s \in Roots, Underway(s), Return(s), journal'[s].dst = journal[s].dst
  PROVE  Underway(s)'
<1>1. pc'[s] = "idle" /\ s \notin leased'
  BY DEF Return, TypeOK, CommandTypes
<1>. QED BY <1>1 DEF Underway, Starting, LockedSteps, CopySteps, AbortSteps

\* ... and one that goes on keeps its journal and holds the lease its step
\* calls for.
LEMMA GotoKeepsUnderway ==
  ASSUME TypeOK, NEW s \in Roots, Underway(s), journal'[s].dst = journal[s].dst,
         journal'[s] # NoJournal,
         pc'[s] \notin Starting \cup {"idle", "archived"},
         s \in leased' =>
           pc'[s] \in LockedSteps \cup AbortSteps \cup {"abort journaled"},
         pc'[s] \in LockedSteps => s \in leased'
  PROVE  Underway(s)'
<1>1. pc'[s] # "archived"
  OBVIOUS
<1>2. journal'[s].dst # s
  BY DEF Underway
<1>. QED BY <1>1, <1>2 DEF Underway

\* A step that neither takes a lease nor changes the journal's identity.
LEMMA WalkKeepsUnderway ==
  ASSUME TypeOK, NEW s \in Roots, Underway(s), NEW next \in Steps, Goto(s, next),
         journal'[s] # NoJournal, journal'[s].dst = journal[s].dst,
         next \notin Starting \cup {"idle", "archived"},
         s \in leased =>
           next \in LockedSteps \cup AbortSteps \cup {"abort journaled"},
         next \in LockedSteps => s \in leased
  PROVE  Underway(s)'
<1>1. pc'[s] = next /\ leased' = leased
  BY DEF Goto, TypeOK, CommandTypes
<1>. QED BY <1>1, GotoKeepsUnderway

\* Taking the lease of the destination.
LEMMA LeaseKeepsUnderway ==
  ASSUME TypeOK, NEW s \in Roots, Underway(s), NEW next \in LockedSteps \cup AbortSteps,
         pc' = [pc EXCEPT ![s] = next], leased' = leased \cup {s},
         UNCHANGED journal, journal[s] # NoJournal
  PROVE  Underway(s)'
<1>1. pc'[s] = next /\ s \in leased'
  BY DEF TypeOK, CommandTypes
<1>2. next \notin Starting \cup {"idle", "archived"}
  BY DEF LockedSteps, AbortSteps, CopySteps, Starting
<1>. QED BY <1>1, <1>2, GotoKeepsUnderway

\* The steps before the destination's lease.
Unleased == {"begun", "recorded", "gated", "created", "reused", "abort"}

\* What the step a command is at says about its journal and its lease.
LEMMA UnderwayHere ==
  ASSUME NEW s \in Roots, Underway(s)
  PROVE  /\ pc[s] \in Unleased
              => journal[s] # NoJournal /\ s \notin leased
         /\ pc[s] \in LockedSteps => journal[s] # NoJournal /\ s \in leased
         /\ pc[s] \in AbortSteps \cup {"abort journaled"} => journal[s] # NoJournal
<1>1. Unleased
        \cap (LockedSteps \cup AbortSteps \cup {"abort journaled"} \cup Starting \cup {"idle"}) = {}
  BY DEF Unleased, Starting, LockedSteps, CopySteps, AbortSteps
<1>2. (LockedSteps \cup AbortSteps \cup {"abort journaled"}) \cap (Starting \cup {"idle"}) = {}
  BY DEF Starting, LockedSteps, CopySteps, AbortSteps
<1>. QED BY <1>1, <1>2 DEF Underway

\* The steps of a command that has a journal, but for the one that makes it.
Onward == Steps \ (Starting \cup {"idle", "archived"})

\* A step keeps what a command may rely on: its journal, its leases, its destination.
LEMMA StepsKeepUnderway ==
  ASSUME TypeOK, StepsHaveAJournal, LeasesAreHeldInSteps, NEW s \in Roots, Underway(s), MoveStep(s)
  PROVE  Underway(s)'
<1>a. /\ pc \in [Roots -> Steps] /\ target \in [Roots -> Roots \cup {NoRoot}]
      /\ leased \subseteq Roots
      /\ archived \in [Roots -> SUBSET Ids]
      /\ journal \in [Roots -> TransferJournal \cup {NoJournal}]
  BY DEF TypeOK, DiskTypes, CommandTypes
<1>b. "begun" \in Onward \ LockedSteps
  BY DEF Onward, Steps, Starting, LockedSteps, CopySteps
<1>w. ASSUME NEW next \in Onward,
             Goto(s, next) \/ Return(s),
             journal'[s] # NoJournal, journal'[s].dst = journal[s].dst,
             \/ pc[s] \in Unleased /\ next \notin LockedSteps
             \/ pc[s] \in LockedSteps /\ next \in LockedSteps
             \/ next \in AbortSteps \cup {"abort journaled"}
      PROVE  Underway(s)'
  <2>1. CASE Return(s)
    BY <1>w, <2>1, ReturnKeepsUnderway
  <2>2. CASE Goto(s, next)
    <3>1. (AbortSteps \cup {"abort journaled"}) \cap LockedSteps = {}
      BY DEF AbortSteps, LockedSteps, CopySteps
    <3>2. next \in LockedSteps => s \in leased
      BY <1>w, <3>1, UnderwayHere
    <3>3. s \in leased => next \in LockedSteps \cup AbortSteps \cup {"abort journaled"}
      BY <1>w, UnderwayHere
    <3>. QED BY <1>w, <2>2, <3>2, <3>3, WalkKeepsUnderway DEF Onward
  <2>. QED BY <1>w, <2>1, <2>2
<1>1. ASSUME NEW d \in Roots, StartMove(s, d) PROVE Underway(s)'
  <2>1. UNCHANGED <<journal, archived, leased>> /\ pc[s] = "idle"
    BY <1>1 DEF StartMove, OpenExclusive
  <2>2. s \notin leased
    BY <2>1 DEF Underway, LockedSteps, AbortSteps, CopySteps
  <2>3. CASE UNCHANGED command
    BY <2>1, <2>3 DEF Underway
  <2>4. CASE d # s /\ pc'[s] = "planned" /\ target'[s] = d
    BY <2>1, <2>2, <2>4 DEF Underway, Starting, LockedSteps, CopySteps
  <2>. QED BY <1>a, <1>1, <2>3, <2>4 DEF StartMove
<1>2. CASE ResumeMove(s)
  <2>1. UNCHANGED <<journal, archived>> /\ pc[s] = "idle"
    BY <1>2 DEF ResumeMove, OpenExclusive
  <2>2. s \notin leased
    BY <2>1 DEF Underway, LockedSteps, AbortSteps, CopySteps
  <2>3. CASE UNCHANGED command
    BY <2>1, <2>3 DEF Underway
  <2>4. CASE journal[s] # NoJournal /\ Goto(s, "begun")
    BY <1>b, <2>1, <2>2, <2>4, WalkKeepsUnderway DEF Onward
  <2>. QED BY <1>2, <2>3, <2>4 DEF ResumeMove, MayResume
<1>3. CASE AbortMove(s)
  <2>1. UNCHANGED <<journal, archived>> /\ pc[s] = "idle"
    BY <1>3 DEF AbortMove, OpenExclusive
  <2>2. s \notin leased
    BY <2>1 DEF Underway, LockedSteps, AbortSteps, CopySteps
  <2>3. CASE UNCHANGED command
    BY <2>1, <2>3 DEF Underway
  <2>4. ASSUME journal[s].phase \in {"copying", "verified", "aborted"},
               NEW next \in {"abort", "abort locked", "abort journaled"}, Goto(s, next)
        PROVE  Underway(s)'
    <3>1. journal[s] # NoJournal
      <4>1. NoJournal.phase = "none"
        BY DEF NoJournal
      <4>. QED BY <2>4, <4>1
    <3>2. next \in Onward \ LockedSteps
      BY <2>4 DEF Onward, Steps, Starting, LockedSteps, CopySteps
    <3>. QED BY <2>1, <2>2, <2>4, <3>1, <3>2, WalkKeepsUnderway DEF Onward
  <2>. QED BY <1>3, <2>3, <2>4 DEF AbortMove
<1>4. CASE ArchiveJournal(s)
  <2>1. CASE Return(s)
    BY <1>4, <2>1, ReturnKeepsUnderway DEF ArchiveJournal
  <2>2. CASE archived' = [archived EXCEPT ![s] = @ \cup {journal[s].id}] /\ Goto(s, "archived")
    <3>1. journal[s].id \in archived'[s] /\ pc'[s] = "archived"
      BY <1>a, <2>2 DEF Goto
    <3>2. UNCHANGED <<journal, target, leased>> /\ pc[s] = "planned" /\ journal[s] # NoJournal
      BY <1>4, <2>2 DEF ArchiveJournal, Goto
    <3>3. s \notin leased /\ target[s] \in Roots \ {s}
      BY <3>2 DEF Underway, LockedSteps, AbortSteps, CopySteps, Starting
    <3>. QED BY <3>1, <3>2, <3>3 DEF Underway, LockedSteps, CopySteps
  <2>. QED BY <1>4, <2>1, <2>2 DEF ArchiveJournal
<1>5. ASSUME NEW id \in Ids, CreateJournal(s, id) PROVE Underway(s)'
  <2>1. /\ journal'[s] = [phase |-> "copying", id |-> id, dst |-> target[s],
                         files |-> files[s], settings |-> settings[s]]
        /\ pc'[s] = "begun" /\ leased' = leased /\ pc[s] \in Starting
    BY <1>a, <1>5 DEF CreateJournal, Starting
  <2>2. journal'[s] # NoJournal
    <3>1. journal'[s].phase = "copying" /\ NoJournal.phase = "none"
      BY <2>1 DEF NoJournal
    <3>. QED BY <3>1
  <2>3. journal'[s].dst # s
    <3>1. journal'[s].dst = target[s]
      BY <2>1
    <3>2. target[s] # s
      BY <2>1 DEF Underway
    <3>. QED BY <3>1, <3>2
  <2>4. s \notin leased
    BY <2>1 DEF Underway, LockedSteps, AbortSteps, CopySteps, Starting
  <2>. QED BY <1>b, <2>1, <2>2, <2>3, <2>4 DEF Underway, Onward
<1>6. CASE EnsureActivity(s)
  <2>1. pc[s] = "begun" /\ UNCHANGED journal /\ (Goto(s, "recorded") \/ Return(s))
    BY <1>6 DEF EnsureActivity, RecordActivity
  <2>2. "recorded" \in Onward /\ "recorded" \notin LockedSteps
    BY DEF Onward, Steps, Starting, LockedSteps, CopySteps
  <2>3. journal'[s] # NoJournal /\ journal'[s].dst = journal[s].dst
    BY <2>1, UnderwayHere DEF Unleased
  <2>. QED BY <2>1, <2>2, <2>3, <1>w DEF Unleased
<1>7. CASE GateSource(s)
  <2>1. pc[s] = "recorded" /\ UNCHANGED journal /\ (Goto(s, "gated") \/ Return(s))
    BY <1>7 DEF GateSource
  <2>2. "gated" \in Onward /\ "gated" \notin LockedSteps
    BY DEF Onward, Steps, Starting, LockedSteps, CopySteps
  <2>3. journal'[s] # NoJournal /\ journal'[s].dst = journal[s].dst
    BY <2>1, UnderwayHere DEF Unleased
  <2>. QED BY <2>1, <2>2, <2>3, <1>w DEF Unleased
<1>8. CASE MakeDestination(s)
  <2>1. pc[s] = "gated" /\ UNCHANGED journal /\ (Goto(s, "created") \/ Goto(s, "reused") \/ Return(s))
    BY <1>8 DEF MakeDestination
  <2>2. /\ "created" \in Onward /\ "created" \notin LockedSteps
        /\ "reused" \in Onward /\ "reused" \notin LockedSteps
    BY DEF Onward, Steps, Starting, LockedSteps, CopySteps
  <2>3. journal'[s] # NoJournal /\ journal'[s].dst = journal[s].dst
    BY <2>1, UnderwayHere DEF Unleased
  <2>4. CASE Goto(s, "created") \/ Return(s)
    BY <2>1, <2>2, <2>3, <2>4, <1>w DEF Unleased
  <2>5. CASE Goto(s, "reused")
    BY <2>1, <2>2, <2>3, <2>5, <1>w DEF Unleased
  <2>. QED BY <2>1, <2>4, <2>5
<1>9. CASE LockCreated(s) \/ LockReused(s)
  <2>1. pc[s] \in {"created", "reused"} /\ UNCHANGED journal
    BY <1>9 DEF LockCreated, LockReused
  <2>2. Return(s) \/ (pc' = [pc EXCEPT ![s] = "locked"] /\ leased' = leased \cup {s})
    BY <1>9 DEF LockCreated, LockReused
  <2>3. "locked" \in LockedSteps
    BY DEF LockedSteps
  <2>. QED BY <2>1, <2>2, <2>3, ReturnKeepsUnderway, LeaseKeepsUnderway, UnderwayHere DEF Unleased
<1>c. LockedSteps \subseteq Onward
  BY DEF Onward, Steps, Starting, LockedSteps, CopySteps
<1>10. CASE AdmitDestination(s)
  <2>1. pc[s] = "locked" /\ UNCHANGED journal /\ (Goto(s, "copying") \/ Goto(s, "finishing") \/ Return(s))
    BY <1>10 DEF AdmitDestination
  <2>2. {"locked", "copying", "finishing"} \subseteq LockedSteps
    BY DEF LockedSteps, CopySteps
  <2>. QED BY <1>c, <2>1, <2>2, <1>w, UnderwayHere
<1>11. CASE \E v \in Data : CopyFile(s, v)
  <2>1. UNCHANGED journal /\ (UNCHANGED command \/ Return(s)) /\ UNCHANGED archived
    BY <1>11 DEF CopyFile
  <2>2. CASE UNCHANGED command
    BY <2>1, <2>2 DEF Underway
  <2>. QED BY <2>1, <2>2, ReturnKeepsUnderway
<1>12. CASE CopyDatabase(s) \/ CheckCopies(s) \/ WriteReceipt(s)
  <2>1. /\ pc[s] \in {"copying", "copied", "checked"} /\ UNCHANGED journal
        /\ Return(s) \/ \E next \in {"copied", "checked", "receipted"} : Goto(s, next)
    BY <1>12 DEF CopyDatabase, CheckCopies, WriteReceipt
  <2>2. {"copying", "copied", "checked", "receipted"} \subseteq LockedSteps
    BY DEF LockedSteps, CopySteps
  <2>3. journal[s] # NoJournal
    BY <2>1, <2>2, UnderwayHere
  <2>. QED BY <1>c, <2>1, <2>2, <2>3, <1>w
<1>13. CASE JournalVerified(s) \/ JournalPublished(s) \/ JournalComplete(s) \/ JournalAborted(s)
  <2>1. /\ \E phase \in TransferPhase : SetPhase(s, phase)
        /\ \/ Return(s)
           \/ pc[s] = "receipted" /\ Goto(s, "verified")
           \/ pc[s] = "moved" /\ Goto(s, "published")
           \/ pc[s] = "abort failed" /\ Goto(s, "abort journaled")
        /\ pc[s] \in {"receipted", "moved", "finished", "abort failed"}
    BY <1>13 DEF JournalVerified, JournalPublished, JournalComplete, JournalAborted, TransferPhase
  <2>2. {"receipted", "moved", "finished", "verified", "published"} \subseteq LockedSteps
    BY DEF LockedSteps, CopySteps
  <2>3. /\ "abort failed" \in AbortSteps
        /\ "abort journaled" \in Onward
    BY DEF Onward, AbortSteps, Steps, Starting
  <2>4. journal[s] # NoJournal
    BY <2>1, <2>2, <2>3, UnderwayHere
  <2>5. journal'[s] # NoJournal /\ journal'[s].dst = journal[s].dst
    BY <2>1, <2>4, SetPhaseKeepsTheMove
  <2>6. CASE Return(s)
    BY <2>5, <2>6, ReturnKeepsUnderway
  <2>7. CASE pc[s] = "receipted" /\ Goto(s, "verified")
    BY <1>c, <2>2, <2>5, <2>7, <1>w
  <2>8. CASE pc[s] = "moved" /\ Goto(s, "published")
    BY <1>c, <2>2, <2>5, <2>8, <1>w
  <2>9. CASE pc[s] = "abort failed" /\ Goto(s, "abort journaled")
    BY <2>3, <2>5, <2>9, <1>w
  <2>. QED BY <2>1, <2>6, <2>7, <2>8, <2>9
<1>14. CASE RetireSource(s) \/ ActivateDestination(s)
  <2>1. /\ pc[s] \in {"verified", "published"} /\ UNCHANGED journal
        /\ Return(s) \/ \E next \in {"moved", "finishing"} : Goto(s, next)
    BY <1>14 DEF RetireSource, ActivateDestination
  <2>2. {"verified", "published", "moved", "finishing"} \subseteq LockedSteps
    BY DEF LockedSteps, CopySteps
  <2>3. journal[s] # NoJournal
    BY <2>1, <2>2, UnderwayHere
  <2>. QED BY <1>c, <2>1, <2>2, <2>3, <1>w
<1>15. CASE FinishMove(s)
  <2>1. pc[s] = "finishing" /\ UNCHANGED journal /\ (Goto(s, "finished") \/ Return(s))
    BY <1>15 DEF FinishMove, FinishActivity
  <2>2. {"finishing", "finished"} \subseteq LockedSteps
    BY DEF LockedSteps
  <2>3. journal[s] # NoJournal
    BY <2>1, <2>2, UnderwayHere
  <2>. QED BY <1>c, <2>1, <2>2, <2>3, <1>w
<1>16. CASE AbortLock(s)
  <2>1. pc[s] = "abort" /\ UNCHANGED journal
    BY <1>16 DEF AbortLock
  <2>2. Return(s) \/ (pc' = [pc EXCEPT ![s] = "abort locked"] /\ leased' = leased \cup {s})
    BY <1>16 DEF AbortLock
  <2>3. "abort locked" \in AbortSteps
    BY DEF AbortSteps
  <2>. QED BY <2>1, <2>2, <2>3, ReturnKeepsUnderway, LeaseKeepsUnderway, UnderwayHere DEF Unleased
<1>17. CASE AbortRecord(s) \/ AbortFail(s)
  <2>1. /\ pc[s] \in {"abort locked", "abort recorded"} /\ UNCHANGED journal
        /\ Return(s) \/ \E next \in {"abort recorded", "abort failed"} : Goto(s, next)
    BY <1>17 DEF AbortRecord, AbortFail, RecordActivity, FinishActivity
  <2>2. /\ {"abort locked", "abort recorded", "abort failed"} \subseteq AbortSteps
        /\ AbortSteps \subseteq Onward
    BY DEF Onward, AbortSteps, Steps, Starting
  <2>3. journal[s] # NoJournal
    BY <2>1, <2>2, UnderwayHere
  <2>. QED BY <2>1, <2>2, <2>3, <1>w
<1>18. CASE UngateSource(s) \/ Crash(s)
  <2>1. Return(s) /\ UNCHANGED journal
    BY <1>18 DEF UngateSource, Crash
  <2>. QED BY <2>1, ReturnKeepsUnderway
<1>. QED
  BY <1>1, <1>2, <1>3, <1>4, <1>5, <1>6, <1>7, <1>8, <1>9, <1>10, <1>11, <1>12,
     <1>13, <1>14, <1>15, <1>16, <1>17, <1>18
     DEF MoveStep, Command, Step, Create, Continue, Abort

\* The conjuncts that one command's own state establishes.
Commands ==
  /\ StepsHaveAJournal /\ DestinationsDiffer /\ PredecessorsAreKept
  /\ LeasesAreHeldInSteps /\ StepsHoldLeases
  /\ \A s \in Roots : pc[s] \in Starting => target[s] \in Roots \ {s}

\* The first part of the invariant, said of each command on its own.
LEMMA CommandsAreUnderway == leased \subseteq Roots => (Commands <=> \A s \in Roots : Underway(s))
BY DEF Commands, Underway, StepsHaveAJournal, DestinationsDiffer, PredecessorsAreKept,
       LeasesAreHeldInSteps, StepsHoldLeases

\* The first part of the invariant is kept.
LEMMA CommandsAreKept ==
  ASSUME TypeOK, Commands, NEW s \in Roots, MoveStep(s), LocalStep(s), leased' \subseteq Roots
  PROVE  Commands'
<1>1. \A q \in Roots : Underway(q)
  BY CommandsAreUnderway DEF TypeOK, CommandTypes
<1>2. Underway(s)'
  BY <1>1, StepsKeepUnderway DEF Commands
<1>3. ASSUME NEW q \in Roots \ {s} PROVE Underway(q)'
  BY <1>1 DEF LocalStep, Underway
<1>. QED BY <1>2, <1>3, CommandsAreUnderway DEF Commands, Underway, StepsHaveAJournal,
       DestinationsDiffer, PredecessorsAreKept, LeasesAreHeldInSteps, StepsHoldLeases

\* A lease is taken only of a root that no command works on or holds.
Exclusion == LeasedRootsAreIdle /\ LeasesExclude

\* The second part is kept: one command at a time changes a destination.
LEMMA ExclusionIsKept ==
  ASSUME TypeOK, Commands, Exclusion, NEW s \in Roots, LocalStep(s), Commands', leased' \subseteq Roots
  PROVE  Exclusion'
<1>1. s \in leased' => /\ pc[s] \notin Starting
                       /\ journal'[s].dst = journal[s].dst /\ journal[s].dst # s
  BY DEF LocalStep, Commands, DestinationsDiffer, LeasesAreHeldInSteps, Starting, LockedSteps, CopySteps, AbortSteps
<1>2. \A q \in leased' \ {s} : q \in leased /\ q \in Roots /\ journal'[q].dst = journal[q].dst
  BY DEF LocalStep
<1>3. ASSUME s \in leased' PROVE
        /\ pc[journal[s].dst] = "idle"
        /\ \A q \in leased \ {s} : journal[q].dst # journal[s].dst
  BY <1>3 DEF LocalStep, HeldExclusively, Exclusion, LeasedRootsAreIdle, LeasesExclude
<1>4. \A q \in leased \ {s} : pc'[journal[q].dst] = "idle"
  <2>. SUFFICES ASSUME NEW q \in leased \ {s} PROVE pc'[journal[q].dst] = "idle"
    OBVIOUS
  <2>1. pc[journal[q].dst] = "idle"
    BY DEF Exclusion, LeasedRootsAreIdle
  <2>2. journal[q].dst = s => pc'[s] = "idle"
    BY <2>1 DEF LocalStep, HeldExclusively
  <2>3. journal[q].dst \in Roots
    BY JournalFields DEF TypeOK, CommandTypes, Commands, LeasesAreHeldInSteps, StepsHaveAJournal,
       Starting, LockedSteps, CopySteps, AbortSteps
  <2>. QED BY <2>1, <2>2, <2>3 DEF LocalStep
<1>5. s \in leased' => pc'[journal[s].dst] = "idle"
  <2>1. s \in leased' => journal[s].dst \in Roots
    BY JournalFields DEF TypeOK, CommandTypes, Commands, LeasesAreHeldInSteps, StepsHaveAJournal, LocalStep,
       Starting, LockedSteps, CopySteps, AbortSteps
  <2>. QED BY <1>1, <1>3, <2>1 DEF LocalStep
<1>6. LeasedRootsAreIdle'
  BY <1>1, <1>2, <1>4, <1>5 DEF LeasedRootsAreIdle
<1>7. LeasesExclude'
  BY <1>1, <1>2, <1>3 DEF LeasesExclude, Exclusion
<1>. QED BY <1>6, <1>7 DEF Exclusion

(******************************** Markers **********************************)

\* A command writes the marker of its own root, or of a destination nobody
\* else works on: other commands find their markers as they left them.
MarkersOfOthers(s) ==
  \A q \in Roots \ {s} :
    /\ pc[q] # "idle" => marker'[q] = marker[q]
    /\ q \in leased => marker'[journal[q].dst] = marker[journal[q].dst]

\* A step leaves the markers alone that another command relies on.
LEMMA StepsKeepMarkersOfOthers ==
  ASSUME TypeOK, Commands, Exclusion, NEW s \in Roots, MoveStep(s)
  PROVE  MarkersOfOthers(s)
<1>a. /\ marker \in [Roots -> Marker \cup {NoMarker}]
      /\ leased \subseteq Roots
  BY DEF TypeOK, DiskTypes, CommandTypes
<1>b. \A q \in leased : pc[q] # "idle" /\ pc[journal[q].dst] = "idle"
  BY DEF Commands, LeasesAreHeldInSteps, Exclusion, LeasedRootsAreIdle, LockedSteps, CopySteps, AbortSteps
<1>c. \A q \in leased \ {s} : s \in leased => journal[q].dst # journal[s].dst
  BY DEF Exclusion, LeasesExclude
<1>1. CASE GateSource(s) \/ RetireSource(s) \/ UngateSource(s)
  <2>1. pc[s] # "idle" /\ \A r \in Roots \ {s} : marker'[r] = marker[r]
    BY <1>a, <1>1 DEF GateSource, RetireSource, UngateSource, SetMarker
  <2>2. \A q \in leased : journal[q].dst # s /\ journal[q].dst \in Roots
    BY <1>a, <1>b, <2>1, JournalFields DEF Commands, StepsHaveAJournal, LeasesAreHeldInSteps,
       Starting, LockedSteps, CopySteps, AbortSteps
  <2>. QED BY <1>a, <2>1, <2>2 DEF MarkersOfOthers
<1>2. CASE LockCreated(s)
  <2>1. CASE UNCHANGED marker
    BY <2>1 DEF MarkersOfOthers
  <2>2. CASE CanLockExclusively(journal[s].dst) /\ \E m : SetMarker(journal[s].dst, m)
    BY <1>a, <2>2 DEF MarkersOfOthers, CanLockExclusively, HeldExclusively, SetMarker
  <2>. QED BY <1>2, <2>1, <2>2 DEF LockCreated
<1>3. CASE ActivateDestination(s)
  <2>1. s \in leased
    BY <1>3 DEF ActivateDestination, Commands, StepsHoldLeases, LockedSteps, CopySteps
  <2>2. CASE UNCHANGED marker
    BY <2>2 DEF MarkersOfOthers
  <2>3. CASE \E m : SetMarker(journal[s].dst, m)
    BY <1>a, <1>b, <1>c, <2>1, <2>3 DEF MarkersOfOthers, SetMarker
  <2>. QED BY <1>3, <2>2, <2>3 DEF ActivateDestination
<1>4. CASE UNCHANGED marker
  BY <1>4 DEF MarkersOfOthers
<1>5. UNCHANGED marker \/ GateSource(s) \/ RetireSource(s) \/ UngateSource(s) \/ LockCreated(s) \/ ActivateDestination(s)
  BY DEF MoveStep, Command, Step, Create, Continue, Abort, StartMove, ResumeMove, AbortMove,
     ArchiveJournal, CreateJournal, EnsureActivity, AbortRecord, RecordActivity,
     MakeDestination, LockReused, AdmitDestination, CopyFile, CopyDatabase,
     CheckCopies, WriteReceipt, JournalVerified, JournalPublished,
     FinishMove, FinishActivity, JournalComplete, AbortLock, AbortFail,
     JournalAborted, Crash
<1>. QED BY <1>1, <1>2, <1>3, <1>4, <1>5

\* A receipt is written for the journal's transfer, once the copy has a database.
LEMMA StepsWriteTheirReceipt ==
  ASSUME TypeOK, Commands, NEW s \in Roots, MoveStep(s)
  PROVE  \/ UNCHANGED receipt
         \/ /\ WriteReceipt(s) /\ journal[s] # NoJournal
            /\ \A r \in Roots : receipt'[r] = IF r = journal[s].dst THEN journal[s].id ELSE receipt[r]
<1>1. CASE WriteReceipt(s)
  <2>1. receipt \in [Roots -> Ids \cup {NoId}]
    BY DEF TypeOK, DiskTypes
  <2>2. journal[s] # NoJournal
    BY <1>1 DEF WriteReceipt, Commands, StepsHaveAJournal, Starting
  <2>. QED BY <1>1, <2>1, <2>2 DEF WriteReceipt
<1>2. UNCHANGED receipt \/ WriteReceipt(s)
  BY DEF MoveStep, Command, Step, Create, Continue, Abort, StartMove, ResumeMove, AbortMove,
     ArchiveJournal, CreateJournal, EnsureActivity, AbortRecord, RecordActivity, GateSource,
     MakeDestination, LockCreated, LockReused, AdmitDestination, CopyFile, CopyDatabase,
     CheckCopies, JournalVerified, RetireSource, JournalPublished, ActivateDestination,
     FinishMove, FinishActivity, JournalComplete, AbortLock, AbortFail,
     JournalAborted, UngateSource, Crash
<1>. QED BY <1>1, <1>2

\* What a command has established by the time it takes a step.
Gated(s) ==
  /\ pc[s] \in Starting => marker[s] = NoMarker
  /\ pc[s] \in {"gated", "created", "reused"} \cup LockedSteps => Belongs(marker[s], journal[s])
  /\ pc[s] \in CopySteps => PendingFor(marker[journal[s].dst], journal[s])
  /\ pc[s] \in CopiedSteps => journal[s].dst \in dbs
  /\ pc[s] \in {"moved", "published"} => marker[s] = AuthorityOf(journal[s], "moved")
  /\ pc[s] = "published" => journal[s].phase = "published"
  /\ pc[s] \in AbortSteps =>
       \/ s \in leased /\ PendingFor(marker[journal[s].dst], journal[s])
       \/ receipt[journal[s].dst] # journal[s].id

\* A step keeps the gates its own command relies on.
LEMMA StepsKeepGated ==
  ASSUME TypeOK, Commands, Exclusion, ReceiptsHaveADatabase, NEW s \in Roots, Gated(s), MoveStep(s)
  PROVE  Gated(s)'
<1> USE DEF Gated, Goto, Return, Starting, CopySteps, CopiedSteps, LockedSteps, AbortSteps
<1>a. /\ pc \in [Roots -> Steps] /\ leased \subseteq Roots
      /\ marker \in [Roots -> Marker \cup {NoMarker}]
  BY DEF TypeOK, DiskTypes, CommandTypes
<1>b. pc[s] \notin Starting \cup {"idle"} =>
        journal[s] # NoJournal /\ journal[s].id \in Ids /\ journal[s].dst \in Roots \ {s}
  BY JournalFields DEF Commands, StepsHaveAJournal, DestinationsDiffer
<1>1. ASSUME NEW d \in Roots, StartMove(s, d) PROVE Gated(s)'
  BY <1>a, <1>1 DEF StartMove, OpenExclusive
<1>2. CASE ResumeMove(s)
  BY <1>a, <1>2 DEF ResumeMove, OpenExclusive
<1>3. CASE AbortMove(s)
  <2>1. CASE pc'[s] = "abort locked"
    <3>1. journal[s].dst \notin dbs /\ journal[s] # NoJournal
      <4>1. journal[s].phase \in {"copying", "verified"} /\ journal[s].dst \notin dbs
        BY <1>a, <1>3, <2>1 DEF AbortMove, OpenExclusive
      <4>2. NoJournal.phase = "none"
        BY DEF NoJournal
      <4>. QED BY <4>1, <4>2
    <3>2. receipt[journal[s].dst] # journal[s].id
      BY <3>1, JournalFields DEF ReceiptsHaveADatabase
    <3>. QED BY <1>a, <1>3, <2>1, <3>2 DEF AbortMove
  <2>2. CASE pc'[s] \in {"idle", "abort", "abort journaled"}
    BY <2>2
  <2>3. pc'[s] \in {"idle", "abort", "abort locked", "abort journaled"}
    BY <1>a, <1>3 DEF AbortMove, OpenExclusive
  <2>. QED BY <2>1, <2>2, <2>3
<1>4. CASE ArchiveJournal(s)
  BY <1>a, <1>4 DEF ArchiveJournal
<1>5. ASSUME NEW id \in Ids, CreateJournal(s, id) PROVE Gated(s)'
  BY <1>a, <1>5 DEF CreateJournal
<1>6. CASE EnsureActivity(s) \/ AbortRecord(s)
  BY <1>a, <1>6 DEF EnsureActivity, AbortRecord, RecordActivity
<1>7. CASE GateSource(s)
  <2>1. Belongs(AuthorityOf(journal[s], "pending"), journal[s])
    BY DEF Belongs, AuthorityOf, NoMarker
  <2>2. CASE pc'[s] = "gated"
    <3>1. Belongs(marker'[s], journal[s]) /\ UNCHANGED journal
      BY <1>a, <1>7, <2>1, <2>2 DEF GateSource, SetMarker
    <3>. QED BY <2>2, <3>1
  <2>3. CASE pc'[s] = "idle"
    BY <2>3
  <2>. QED BY <1>a, <1>7, <2>2, <2>3 DEF GateSource
<1>8. CASE MakeDestination(s)
  BY <1>a, <1>8 DEF MakeDestination
<1>9. CASE LockCreated(s)
  BY <1>a, <1>b, <1>9 DEF LockCreated, SetMarker
<1>10. CASE LockReused(s)
  BY <1>a, <1>10 DEF LockReused
<1>11. CASE AdmitDestination(s)
  BY <1>a, <1>11 DEF AdmitDestination, MayCopy
<1>12. CASE \E v \in Data : CopyFile(s, v)
  BY <1>a, <1>12 DEF CopyFile
<1>19. CASE CopyDatabase(s)
  <2>1. pc'[s] = "copied" /\ pc[s] = "copying" /\ journal[s].dst \in dbs'
    BY <1>a, <1>19 DEF CopyDatabase
  <2>2. UNCHANGED <<marker, journal>>
    BY <1>19 DEF CopyDatabase
  <2>. QED BY <2>1, <2>2
<1>13. CASE CheckCopies(s) \/ WriteReceipt(s)
  BY <1>a, <1>13 DEF CheckCopies, WriteReceipt
<1>14. CASE RetireSource(s)
  BY <1>a, <1>b, <1>14 DEF RetireSource, SetMarker, Belongs, AuthorityOf, NoMarker
<1>15. CASE ActivateDestination(s)
  BY <1>a, <1>b, <1>15 DEF ActivateDestination, SetMarker
<1>16. CASE FinishMove(s) \/ AbortFail(s)
  BY <1>a, <1>16 DEF FinishMove, AbortFail, FinishActivity
<1>17. CASE JournalVerified(s) \/ JournalPublished(s) \/ JournalComplete(s) \/ JournalAborted(s)
  <2>1. PICK phase \in TransferPhase : SetPhase(s, phase) /\ (JournalPublished(s) => phase = "published")
    BY <1>17 DEF JournalVerified, JournalPublished, JournalComplete, JournalAborted, TransferPhase
  <2>2. pc[s] \notin Starting \cup {"idle"}
    BY <1>17 DEF JournalVerified, JournalPublished, JournalComplete, JournalAborted
  <2>3. journal'[s].id = journal[s].id /\ journal'[s].dst = journal[s].dst /\ journal'[s].phase = phase
    BY <1>b, <2>1, <2>2, SetPhaseKeepsTheMove
  <2>4. CASE JournalVerified(s)
    BY <1>a, <2>3, <2>4 DEF JournalVerified, Belongs, PendingFor
  <2>5. CASE JournalPublished(s)
    BY <1>a, <2>1, <2>3, <2>5 DEF JournalPublished, Belongs, PendingFor, AuthorityOf
  <2>6. CASE JournalComplete(s) \/ JournalAborted(s)
    BY <1>a, <2>6 DEF JournalComplete, JournalAborted
  <2>. QED BY <1>17, <2>4, <2>5, <2>6
<1>18. CASE AbortLock(s) \/ UngateSource(s) \/ Crash(s)
  BY <1>a, <1>18 DEF AbortLock, UngateSource, Crash
<1>. QED
  BY <1>1, <1>2, <1>3, <1>4, <1>5, <1>6, <1>7, <1>8, <1>9, <1>10, <1>11, <1>12, <1>13,
     <1>14, <1>15, <1>16, <1>17, <1>18, <1>19 DEF MoveStep, Command, Step, Create, Continue, Abort

\* The conjuncts about every command's markers.
Gates ==
  /\ StartsAreUnmarked /\ SourcesAreGated /\ CopiesAreGated /\ CopiesHaveADatabase
  /\ RetiredBeforePublished /\ AbortsAreUnpublished

\* The third part of the invariant, said of each command on its own.
LEMMA GatesAreGated ==
  (\A s \in Roots : pc[s] \in Starting => target[s] \in Roots \ {s})
    => (Gates <=> \A s \in Roots : Gated(s))
BY DEF Gates, Gated, StartsAreUnmarked, SourcesAreGated, CopiesAreGated, CopiesHaveADatabase,
       RetiredBeforePublished, AbortsAreUnpublished

\* The third part is kept.
LEMMA GatesAreKept ==
  ASSUME TypeOK, Commands, Exclusion, Gates, IdsAreUnique, ReceiptsHaveADatabase, NEW s \in Roots, MoveStep(s),
         LocalStep(s), Commands'
  PROVE  Gates'
<1>1. \A q \in Roots : Gated(q)
  BY GatesAreGated DEF Commands
<1>2. Gated(s)'
  BY <1>1, StepsKeepGated
<1>3. ASSUME NEW q \in Roots \ {s} PROVE Gated(q)'
  <2>1. /\ pc'[q] = pc[q] /\ journal'[q] = journal[q] /\ (q \in leased' <=> q \in leased)
        /\ dbs \subseteq dbs'
    BY DEF LocalStep
  <2>2. /\ pc[q] # "idle" => marker'[q] = marker[q]
        /\ q \in leased => marker'[journal[q].dst] = marker[journal[q].dst]
    BY StepsKeepMarkersOfOthers DEF MarkersOfOthers
  <2>3. pc[q] \in CopySteps => q \in leased
    BY DEF Commands, StepsHoldLeases, LockedSteps
  <2>4. pc[q] \in AbortSteps /\ receipt[journal[q].dst] # journal[q].id
          => receipt'[journal[q].dst] # journal[q].id
    <3>1. pc[q] \in AbortSteps => journal[q] # NoJournal /\ journal[q].dst \in Roots
      BY JournalFields DEF Commands, StepsHaveAJournal, Starting, AbortSteps
    <3>2. journal[q] # NoJournal => journal[q].id # journal[s].id
      BY DEF IdsAreUnique
    <3>. QED BY <3>1, <3>2, StepsWriteTheirReceipt
  <2>5. Gated(q)
    BY <1>1
  <2>. HIDE <1>1
  <2>. QED
    BY <2>1, <2>2, <2>3, <2>4, <2>5
       DEF Gated, Starting, CopySteps, CopiedSteps, LockedSteps, AbortSteps, Belongs, PendingFor, AuthorityOf
<1>4. \A q \in Roots : Gated(q)'
  BY <1>2, <1>3
<1>. QED BY <1>4, GatesAreGated DEF Commands, Gates, Gated, StartsAreUnmarked, SourcesAreGated, CopiesAreGated, CopiesHaveADatabase,
       RetiredBeforePublished, AbortsAreUnpublished

(*************************** Identities and receipts ***********************)

\* A step keeps the command's move, or journals a new one.
LEMMA StepsKeepTheMoveOrBegin ==
  ASSUME TypeOK, NEW s \in Roots, MoveStep(s), LocalStep(s)
  PROVE  \/ /\ journal'[s].id = journal[s].id /\ journal'[s].dst = journal[s].dst
            /\ journal'[s] = NoJournal <=> journal[s] = NoJournal
            /\ archived[s] \subseteq archived'[s]
         \/ \E id \in Ids : CreateJournal(s, id)
<1>1. UNCHANGED <<journal, archived>> \/ pc[s] \notin Starting
        \/ (ArchiveJournal(s) \/ \E id \in Ids : CreateJournal(s, id))
  BY DEF MoveStep, Command, Step, Create, Continue, Abort, StartMove, ResumeMove, AbortMove,
     EnsureActivity, AbortRecord, RecordActivity, GateSource,
     MakeDestination, LockCreated, LockReused, AdmitDestination, CopyFile, CopyDatabase,
     CheckCopies, WriteReceipt, JournalVerified, RetireSource, JournalPublished, ActivateDestination,
     FinishMove, FinishActivity, JournalComplete, AbortLock, AbortFail,
     JournalAborted, UngateSource, Crash, Starting
<1>2. pc[s] \notin Starting => UNCHANGED archived
  BY DEF MoveStep, Command, Step, Create, Continue, Abort, StartMove, ResumeMove, AbortMove,
     ArchiveJournal, CreateJournal, EnsureActivity, AbortRecord, RecordActivity, GateSource,
     MakeDestination, LockCreated, LockReused, AdmitDestination, CopyFile, CopyDatabase,
     CheckCopies, WriteReceipt, JournalVerified, RetireSource, JournalPublished, ActivateDestination,
     FinishMove, FinishActivity, JournalComplete, AbortLock, AbortFail,
     JournalAborted, UngateSource, Crash, Starting
<1>3. ArchiveJournal(s) => UNCHANGED journal /\ archived[s] \subseteq archived'[s]
  <2>1. archived \in [Roots -> SUBSET Ids]
    BY DEF TypeOK, DiskTypes
  <2>. QED BY <2>1 DEF ArchiveJournal
<1>. QED BY <1>1, <1>2, <1>3 DEF LocalStep

\* A new journal's identity was in no journal before it, and it names its destination.
LEMMA NewMovesAreFresh ==
  ASSUME TypeOK, Commands, NEW s \in Roots, NEW id \in Ids, CreateJournal(s, id)
  PROVE  /\ id \notin UsedIds
         /\ journal'[s].id = id /\ journal'[s].dst = target[s] /\ target[s] \in Roots \ {s}
         /\ journal'[s] # NoJournal
         /\ \A q \in Roots \ {s} : journal'[q] = journal[q]
         /\ journal[s].id \in archived[s] \cup {NoId}
         /\ UNCHANGED <<archived, marker, receipt, dbs>>
<1>1. journal \in [Roots -> TransferJournal \cup {NoJournal}]
  BY DEF TypeOK, DiskTypes
<1>2. \A f, g : [phase |-> "copying", id |-> id, dst |-> target[s], files |-> f, settings |-> g] # NoJournal
  BY DEF NoJournal
<1>3. pc[s] \in Starting
  BY DEF CreateJournal, Starting
<1>4. journal[s].id \in archived[s] \cup {NoId}
  BY JournalFields DEF CreateJournal, Commands, PredecessorsAreKept
<1>. QED BY <1>1, <1>2, <1>3, <1>4 DEF CreateJournal, Commands

\* Transfer identities stay unique, and receipts name known ones.
Identities == IdsAreUnique /\ ReceiptsAreKnown /\ ReceiptsHaveADatabase

\* The fourth part is kept: no identity is used twice.
LEMMA IdentitiesAreKept ==
  ASSUME TypeOK, Commands, Gates, Identities, NEW s \in Roots, MoveStep(s), LocalStep(s)
  PROVE  Identities'
<1>1. CASE \E id \in Ids : CreateJournal(s, id)
  <2>1. PICK id \in Ids : CreateJournal(s, id)
    BY <1>1
  <2>2. /\ id \notin UsedIds
        /\ journal'[s].id = id /\ journal'[s] # NoJournal
        /\ \A q \in Roots \ {s} : journal'[q] = journal[q]
        /\ journal[s].id \in archived[s] \cup {NoId}
        /\ UNCHANGED <<archived, receipt, dbs>>
    BY <2>1, NewMovesAreFresh
  <2>3. \A q \in Roots : journal[q].id # id
    BY <2>2 DEF UsedIds
  <2>4. IdsAreUnique'
    BY <2>2, <2>3 DEF IdsAreUnique, Identities
  <2>5. UsedIds \subseteq UsedIds'
    BY <2>2 DEF UsedIds
  <2>6. ReceiptsAreKnown'
    BY <2>2, <2>5 DEF ReceiptsAreKnown, Identities
  <2>. QED BY <2>2, <2>4, <2>6 DEF Identities, ReceiptsHaveADatabase
<1>2. CASE /\ journal'[s].id = journal[s].id /\ journal'[s].dst = journal[s].dst
           /\ journal'[s] = NoJournal <=> journal[s] = NoJournal
           /\ archived[s] \subseteq archived'[s]
  <2>1. \A q \in Roots : /\ journal'[q].id = journal[q].id
                         /\ journal'[q] = NoJournal <=> journal[q] = NoJournal
                         /\ archived[q] \subseteq archived'[q]
    BY <1>2 DEF LocalStep
  <2>2. IdsAreUnique'
    BY <2>1 DEF IdsAreUnique, Identities
  <2>3. UsedIds \subseteq UsedIds'
    BY <2>1 DEF UsedIds
  <2>4. journal[s] # NoJournal => journal[s].id \in UsedIds
    BY JournalFields DEF UsedIds
  <2>5. ReceiptsAreKnown'
    BY <2>3, <2>4, StepsWriteTheirReceipt DEF ReceiptsAreKnown, Identities
  <2>6. ReceiptsHaveADatabase'
    <3>1. WriteReceipt(s) => journal[s].dst \in dbs
      BY DEF WriteReceipt, Gates, CopiesHaveADatabase, CopiedSteps, CopySteps
    <3>. QED BY <3>1, StepsWriteTheirReceipt DEF ReceiptsHaveADatabase, Identities, LocalStep
  <2>. QED BY <2>2, <2>5, <2>6 DEF Identities
<1>. QED BY <1>1, <1>2, StepsKeepTheMoveOrBegin

\* A step replaces no marker of another transfer.
LEMMA StepsChangeTheirMarkers ==
  ASSUME TypeOK, Commands, Gates, NEW s \in Roots, MoveStep(s)
  PROVE  \A r \in Roots :
           \/ marker'[r] = marker[r] \/ marker[r] = NoMarker
           \/ journal[s] # NoJournal /\ marker[r].id = journal[s].id
<1>a. marker \in [Roots -> Marker \cup {NoMarker}]
  BY DEF TypeOK, DiskTypes
<1>b. pc[s] \notin Starting \cup {"idle"} => journal[s] # NoJournal
  BY DEF Commands, StepsHaveAJournal
<1>1. CASE GateSource(s) \/ LockCreated(s)
  BY <1>a, <1>1 DEF GateSource, LockCreated, SetMarker
<1>2. CASE RetireSource(s)
  <2>1. Belongs(marker[s], journal[s])
    BY <1>2 DEF RetireSource, Gates, SourcesAreGated, LockedSteps, CopySteps
  <2>. QED BY <1>a, <1>b, <1>2, <2>1 DEF RetireSource, SetMarker, Belongs, Starting
<1>3. CASE UngateSource(s)
  BY <1>a, <1>b, <1>3 DEF UngateSource, MayUngate, Starting
<1>4. CASE ActivateDestination(s)
  BY <1>a, <1>b, <1>4 DEF ActivateDestination, SetMarker, PendingFor, Belongs, Starting
<1>5. CASE UNCHANGED marker
  BY <1>5
<1>6. UNCHANGED marker \/ GateSource(s) \/ RetireSource(s) \/ UngateSource(s) \/ LockCreated(s) \/ ActivateDestination(s)
  BY DEF MoveStep, Command, Step, Create, Continue, Abort, StartMove, ResumeMove, AbortMove,
     ArchiveJournal, CreateJournal, EnsureActivity, AbortRecord, RecordActivity,
     MakeDestination, LockReused, AdmitDestination, CopyFile, CopyDatabase,
     CheckCopies, WriteReceipt, JournalVerified, JournalPublished,
     FinishMove, FinishActivity, JournalComplete, AbortLock, AbortFail,
     JournalAborted, Crash
<1>. QED BY <1>1, <1>2, <1>3, <1>4, <1>5, <1>6

(***************************** Guarded receipts ****************************)

\* A destination with its receipt is gated, or its source is retired to it.
Guarded(s) ==
  journal[s] # NoJournal /\ HasReceipt(journal[s].dst, journal[s].id) =>
    \/ PendingFor(marker[journal[s].dst], journal[s])
    \/ /\ marker[s] = AuthorityOf(journal[s], "moved")
       /\ journal[s].phase \in {"published", "complete"}

\* Steps of s leave what guards the receipt of another move.
LEMMA StepsKeepOthersGuarded ==
  ASSUME TypeOK, Commands, Gates, Identities, NEW s \in Roots, MoveStep(s), LocalStep(s),
         NEW q \in Roots \ {s}, Guarded(q)
  PROVE  Guarded(q)'
<1>1. journal'[q] = journal[q]
  BY DEF LocalStep
<1>2. SUFFICES ASSUME journal[q] # NoJournal, receipt'[journal[q].dst] = journal[q].id
               PROVE  Guarded(q)'
  BY <1>1 DEF Guarded, HasReceipt
<1>3. journal[q].id # journal[s].id /\ journal[q].dst \in Roots /\ journal[q].id \in Ids
  BY <1>2, JournalFields DEF Identities, IdsAreUnique
<1>4. HasReceipt(journal[q].dst, journal[q].id)
  BY <1>2, <1>3, StepsWriteTheirReceipt DEF HasReceipt
<1>5. \A r \in Roots : marker[r] # NoMarker /\ marker[r].id = journal[q].id => marker'[r] = marker[r]
  BY <1>3, StepsChangeTheirMarkers
<1>6. CASE PendingFor(marker[journal[q].dst], journal[q])
  BY <1>1, <1>3, <1>5, <1>6 DEF PendingFor, Belongs, Guarded
<1>7. CASE marker[q] = AuthorityOf(journal[q], "moved") /\ journal[q].phase \in {"published", "complete"}
  <2>1. marker[q] # NoMarker /\ marker[q].id = journal[q].id
    BY <1>7 DEF AuthorityOf, NoMarker
  <2>. QED BY <1>1, <1>5, <1>7, <2>1 DEF Guarded, AuthorityOf
<1>. QED BY <1>2, <1>4, <1>6, <1>7 DEF Guarded

\* A step that keeps the move, the marker of its destination and its receipt,
\* and finds the destination pending.
LEMMA PendingGuards ==
  ASSUME NEW s \in Roots, journal'[s].id = journal[s].id, journal'[s].dst = journal[s].dst,
         PendingFor(marker'[journal[s].dst], journal[s])
  PROVE  Guarded(s)'
BY DEF Guarded, PendingFor, Belongs

\* The fifth part is kept: a receipt is guarded by a gate or a retired source.
LEMMA StepsKeepGuarded ==
  ASSUME TypeOK, Commands, Gates, Identities, NEW s \in Roots, Guarded(s), MoveStep(s), LocalStep(s)
  PROVE  Guarded(s)'
<1>a. /\ marker \in [Roots -> Marker \cup {NoMarker}] /\ receipt \in [Roots -> Ids \cup {NoId}]
      /\ pc \in [Roots -> Steps]
  BY DEF TypeOK, DiskTypes, CommandTypes
<1>b. pc[s] \notin Starting \cup {"idle"} =>
        /\ journal[s] # NoJournal /\ journal[s].id \in Ids /\ journal[s].dst \in Roots \ {s}
        /\ journal'[s].id = journal[s].id /\ journal'[s].dst = journal[s].dst
  BY JournalFields DEF Commands, StepsHaveAJournal, DestinationsDiffer, LocalStep
<1>1. CASE UNCHANGED <<marker, receipt, journal>>
  BY <1>1 DEF Guarded, HasReceipt
<1>2. ASSUME NEW id \in Ids, CreateJournal(s, id) PROVE Guarded(s)'
  <2>1. receipt'[target[s]] # id
    <3>1. receipt[target[s]] \in UsedIds \cup {NoId}
      BY <1>2, NewMovesAreFresh DEF Identities, ReceiptsAreKnown
    <3>. QED BY <1>2, <3>1, NewMovesAreFresh
  <2>. QED BY <1>2, <2>1, NewMovesAreFresh DEF Guarded, HasReceipt
<1>3. CASE GateSource(s)
  <2>1. CASE UNCHANGED marker
    BY <1>1, <1>3, <2>1 DEF GateSource
  <2>2. CASE marker[s] = NoMarker /\ SetMarker(s, AuthorityOf(journal[s], "pending"))
    <3>1. UNCHANGED <<journal, receipt>> /\ journal[s].dst \in Roots \ {s}
      BY <1>3, <1>b DEF GateSource, Starting
    <3>2. marker[s] # AuthorityOf(journal[s], "moved")
      BY <2>2 DEF AuthorityOf, NoMarker
    <3>3. marker'[journal[s].dst] = marker[journal[s].dst]
      BY <1>a, <2>2, <3>1 DEF SetMarker
    <3>. QED BY <3>1, <3>2, <3>3 DEF Guarded, HasReceipt
  <2>. QED BY <1>3, <2>1, <2>2 DEF GateSource
<1>4. CASE LockCreated(s)
  <2>1. CASE UNCHANGED marker
    BY <1>1, <1>4, <2>1 DEF LockCreated
  <2>2. CASE SetMarker(journal[s].dst, AuthorityOf(journal[s], "pending"))
    <3>1. PendingFor(AuthorityOf(journal[s], "pending"), journal[s])
      BY DEF PendingFor, Belongs, AuthorityOf, NoMarker
    <3>2. journal[s].dst \in Roots /\ journal'[s].id = journal[s].id /\ journal'[s].dst = journal[s].dst
      BY <1>4, <1>b DEF LockCreated, Starting
    <3>. QED BY <1>a, <2>2, <3>1, <3>2, PendingGuards DEF SetMarker
  <2>. QED BY <1>4, <2>1, <2>2 DEF LockCreated
<1>5. CASE WriteReceipt(s) \/ JournalVerified(s) \/ JournalPublished(s)
  <2>1. pc[s] \in {"checked", "receipted", "moved"} /\ UNCHANGED marker
    BY <1>5 DEF WriteReceipt, JournalVerified, JournalPublished
  <2>2. PendingFor(marker[journal[s].dst], journal[s])
    BY <2>1 DEF Gates, CopiesAreGated, CopySteps
  <2>. QED BY <1>b, <2>1, <2>2, PendingGuards DEF Starting
<1>6. CASE RetireSource(s)
  <2>1. pc[s] = "verified"
    BY <1>6 DEF RetireSource
  <2>2. PendingFor(marker[journal[s].dst], journal[s]) /\ journal[s].dst \in Roots \ {s}
    BY <1>b, <2>1 DEF Gates, CopiesAreGated, CopySteps, Starting
  <2>3. marker'[journal[s].dst] = marker[journal[s].dst]
    BY <1>a, <1>6, <2>2 DEF RetireSource, SetMarker
  <2>. QED BY <1>b, <2>1, <2>2, <2>3, PendingGuards DEF Starting
<1>7. CASE ActivateDestination(s)
  <2>1. CASE UNCHANGED marker
    BY <1>1, <1>7, <2>1 DEF ActivateDestination
  <2>2. CASE SetMarker(journal[s].dst, NoMarker)
    <3>1. /\ marker[s] = AuthorityOf(journal[s], "moved") /\ journal[s].phase = "published"
          /\ journal[s].dst \in Roots \ {s} /\ UNCHANGED journal
      BY <1>b, <1>7 DEF ActivateDestination, Gates, RetiredBeforePublished, Starting
    <3>2. marker'[s] = marker[s]
      BY <1>a, <2>2, <3>1 DEF SetMarker
    <3>. QED BY <3>1, <3>2 DEF Guarded, AuthorityOf
  <2>. QED BY <1>7, <2>1, <2>2 DEF ActivateDestination
<1>8. CASE JournalComplete(s)
  <2>1. journal[s] # NoJournal /\ SetPhase(s, "complete") /\ UNCHANGED <<marker, receipt>>
    BY <1>b, <1>8 DEF JournalComplete, Starting
  <2>2. /\ journal'[s].id = journal[s].id /\ journal'[s].dst = journal[s].dst
        /\ journal'[s].phase = "complete"
    BY <2>1, SetPhaseKeepsTheMove DEF TransferPhase
  <2>. QED BY <2>1, <2>2 DEF Guarded, HasReceipt, PendingFor, Belongs, AuthorityOf
<1>9. CASE JournalAborted(s)
  <2>1. /\ pc[s] = "abort failed" /\ UNCHANGED <<marker, receipt>>
        /\ journal'[s].id = journal[s].id /\ journal'[s].dst = journal[s].dst
    BY <1>b, <1>9 DEF JournalAborted, Starting
  <2>2. \/ PendingFor(marker[journal[s].dst], journal[s])
        \/ receipt[journal[s].dst] # journal[s].id
    BY <2>1 DEF Gates, AbortsAreUnpublished, AbortSteps
  <2>. QED BY <2>1, <2>2, PendingGuards DEF Guarded, HasReceipt
<1>10. CASE UngateSource(s)
  <2>1. CASE MayUngate(s) /\ marker' = [marker EXCEPT ![s] = NoMarker]
    <3>1. UNCHANGED <<journal, receipt>> /\ journal[s].dst \in Roots \ {s}
      BY <1>10, <1>b DEF UngateSource, Starting
    <3>2. marker[s] # AuthorityOf(journal[s], "moved")
      BY <2>1 DEF MayUngate, AuthorityOf
    <3>3. marker'[journal[s].dst] = marker[journal[s].dst]
      BY <1>a, <2>1, <3>1
    <3>. QED BY <3>1, <3>2, <3>3 DEF Guarded, HasReceipt
  <2>2. CASE UNCHANGED marker
    BY <1>1, <1>10, <2>2 DEF UngateSource
  <2>. QED BY <1>10, <2>1, <2>2 DEF UngateSource
<1>11. \/ UNCHANGED <<marker, receipt, journal>> \/ \E id \in Ids : CreateJournal(s, id)
       \/ GateSource(s) \/ LockCreated(s) \/ WriteReceipt(s) \/ JournalVerified(s) \/ JournalPublished(s)
       \/ RetireSource(s) \/ ActivateDestination(s) \/ JournalComplete(s) \/ JournalAborted(s)
       \/ UngateSource(s)
  BY DEF MoveStep, Command, Step, Create, Continue, Abort, StartMove, ResumeMove, AbortMove,
     ArchiveJournal, EnsureActivity, AbortRecord, RecordActivity,
     MakeDestination, LockReused, AdmitDestination, CopyFile, CopyDatabase,
     CheckCopies, FinishMove, FinishActivity, AbortLock, AbortFail, Crash
<1>. QED BY <1>1, <1>2, <1>3, <1>4, <1>5, <1>6, <1>7, <1>8, <1>9, <1>10, <1>11

(******************************** Theorems *********************************)

\* A step of a command keeps all five parts.
LEMMA MoveStepsKeepTheInvariant ==
  ASSUME MoveInvariant, NEW s \in Roots, MoveStep(s)
  PROVE  MoveInvariant'
<1>1. TypeOK /\ Commands /\ Exclusion /\ Gates /\ Identities /\ \A q \in Roots : Guarded(q)
  BY DEF MoveInvariant, Commands, Exclusion, Gates, Identities, Guarded, ReceiptsAreGuarded,
         StartsAreUnmarked
<1>2. TypeOK'
  BY <1>1, DiskTypesAreKept, CommandTypesAreKept, UserTypesAreKept DEF Commands, Gates, TypeOK
<1>3. LocalStep(s)
  BY <1>1, StepsAreLocal DEF Commands
<1>4. leased' \subseteq Roots
  BY <1>2 DEF TypeOK, CommandTypes
<1>5. Commands'
  BY <1>1, <1>3, <1>4, CommandsAreKept
<1>6. Exclusion'
  BY <1>1, <1>3, <1>4, <1>5, ExclusionIsKept
<1>7. Gates'
  BY <1>1, <1>3, <1>5, GatesAreKept DEF Identities
<1>8. Identities'
  BY <1>1, <1>3, IdentitiesAreKept
<1>9. \A q \in Roots : Guarded(q)'
  BY <1>1, <1>3, StepsKeepGuarded, StepsKeepOthersGuarded
<1>10. ReceiptsAreGuarded'
  BY <1>9 DEF ReceiptsAreGuarded, Guarded
<1>. QED BY <1>2, <1>5, <1>6, <1>7, <1>8, <1>10
       DEF MoveInvariant, Commands, Exclusion, Gates, Identities

\* The invariant is about what only commands write; databases only appear.
LEMMA QuietStepsKeepTheInvariant ==
  ASSUME MoveInvariant, TypeOK', dbs \subseteq dbs',
         UNCHANGED <<marker, receipt, journal, archived, pc, target, leased>>
  PROVE  MoveInvariant'
<1>1. CopiesHaveADatabase' /\ ReceiptsHaveADatabase'
  BY DEF MoveInvariant, CopiesHaveADatabase, ReceiptsHaveADatabase
<1>2. StepsHaveAJournal' /\ StartsAreUnmarked' /\ DestinationsDiffer' /\ PredecessorsAreKept'
  BY DEF MoveInvariant, StepsHaveAJournal, StartsAreUnmarked, DestinationsDiffer, PredecessorsAreKept
<1>3. IdsAreUnique' /\ ReceiptsAreKnown'
  BY DEF MoveInvariant, IdsAreUnique, ReceiptsAreKnown, UsedIds
<1>4. LeasesAreHeldInSteps' /\ StepsHoldLeases' /\ LeasedRootsAreIdle' /\ LeasesExclude'
  BY DEF MoveInvariant, LeasesAreHeldInSteps, StepsHoldLeases, LeasedRootsAreIdle, LeasesExclude
<1>5. SourcesAreGated' /\ CopiesAreGated' /\ AbortsAreUnpublished'
  BY DEF MoveInvariant, SourcesAreGated, CopiesAreGated, AbortsAreUnpublished, Belongs, PendingFor
<1>6. RetiredBeforePublished' /\ ReceiptsAreGuarded'
  BY DEF MoveInvariant, RetiredBeforePublished, ReceiptsAreGuarded, AuthorityOf, HasReceipt,
         Belongs, PendingFor
<1>. QED BY <1>1, <1>2, <1>3, <1>4, <1>5, <1>6 DEF MoveInvariant

\* A step of a client keeps all five parts.
LEMMA UserStepsKeepTheInvariant ==
  ASSUME MoveInvariant, UserStep
  PROVE  MoveInvariant'
<1>1. TypeOK'
  BY UserStepsKeepTypes DEF MoveInvariant
<1>2. UNCHANGED <<marker, receipt, journal, archived, pc, target, leased>> /\ dbs \subseteq dbs'
  BY DEF UserStep, ClientStep, Stay, Arrive, LockShared, OpenTarget, Initialize, Write, Delete, Close, Edit
<1>. QED BY <1>1, <1>2, QuietStepsKeepTheInvariant

\* All five parts hold at the start.
LEMMA TheInvariantStarts == Init => MoveInvariant
<1>. SUFFICES ASSUME Init PROVE MoveInvariant
  OBVIOUS
<1>1. TypeOK
  BY TypesStart
<1>. QED BY <1>1
  DEF Init, MoveInvariant, StepsHaveAJournal, StartsAreUnmarked, DestinationsDiffer,
      IdsAreUnique, PredecessorsAreKept, ReceiptsAreKnown, UsedIds, LeasesAreHeldInSteps,
      StepsHoldLeases, LeasedRootsAreIdle, LeasesExclude, SourcesAreGated, CopiesAreGated,
      CopiesHaveADatabase, RetiredBeforePublished, AbortsAreUnpublished,
      ReceiptsHaveADatabase, ReceiptsAreGuarded, NoJournal, Starting, CopySteps, CopiedSteps,
      LockedSteps, AbortSteps

\* The inductive invariant of moves (start_move, continue_move,
\* abort_library_move): types, leases, gates, identities and receipts hold in
\* every reachable state, whatever crashes and however many moves there are.
THEOREM MoveInvariantHolds == Spec => []MoveInvariant
<1>1. MoveInvariant /\ [Next]_vars => MoveInvariant'
  <2>1. ASSUME MoveInvariant, Next PROVE MoveInvariant'
    BY <2>1, MoveStepsKeepTheInvariant, UserStepsKeepTheInvariant DEF Next, MoveStep, UserStep
  <2>2. ASSUME MoveInvariant, UNCHANGED vars PROVE MoveInvariant'
    <3>1. TypeOK'
      BY <2>2 DEF vars, MoveInvariant, TypeOK, DiskTypes, CommandTypes, UserTypes
    <3>. QED BY <2>2, <3>1, QuietStepsKeepTheInvariant DEF vars
  <2>. QED BY <2>1, <2>2
<1>. QED BY <1>1, TheInvariantStarts, PTL DEF Spec

\* Every variable keeps its type.
THEOREM TypeCorrect == Spec => []TypeOK
<1>1. MoveInvariant => TypeOK
  BY DEF MoveInvariant
<1>. QED BY <1>1, MoveInvariantHolds, PTL

\* The two roots of a transfer are never both writable: the order in which
\* continue_move retires the source and activates the destination, with
\* abort_library_move's refusals, and the leases.
THEOREM OneRootIsWritable == Spec => []OneWritableRoot
<1>1. MoveInvariant => OneWritableRoot
  <2>. SUFFICES ASSUME MoveInvariant, NEW s \in Roots, journal[s].id # NoId,
                       HasReceipt(journal[s].dst, journal[s].id), Writable(journal[s].dst)
                PROVE  /\ marker[s] = AuthorityOf(journal[s], "moved")
                       /\ journal[s].phase \in {"published", "complete"}
    BY DEF OneWritableRoot
  <2>1. journal[s] # NoJournal
    BY DEF NoJournal
  <2>. QED BY <2>1 DEF MoveInvariant, ReceiptsAreGuarded, PendingFor, Belongs, Writable
<1>. QED BY <1>1, MoveInvariantHolds, PTL

==============================================================================
