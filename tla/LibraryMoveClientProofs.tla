------------------------ MODULE LibraryMoveClientProofs ------------------------
(***************************************************************************)
(* Further theorems about LibraryMove: a library that a client has open is *)
(* never gated or retired under it; an aborted move is over; moves         *)
(* implement LibraryHome; what was saved under a root is there for whoever *)
(* opens it; opens of one root agree; and recovery replays nothing over a  *)
(* library that can be opened.                                             *)
(***************************************************************************)
EXTENDS LibraryMoveProofs

USE NoRootAssumption, NoIdAssumption
USE DEF roots, journals, databases, command, users, disk

(****************************** Open libraries *****************************)

\* The directory of a root precedes whatever is in it or is done to it.
Present ==
  /\ dbs \subseteq dirs
  /\ \A s \in Roots : pc[s] \in {"created", "reused"} \cup LockedSteps => journal[s].dst \in dirs
  /\ \A c \in Clients : client[c].pc # "idle" => client[c].at \in dirs

\* A shared lease and an exclusive one never meet.
SharedExcludes == \A r \in Roots : ~(HeldShared(r) /\ HeldExclusively(r))

OpenInvariant == Present /\ SharedExcludes /\ OpenRootsAreUngated

\* Only a command that holds a root alone, or takes it while no client has it,
\* puts a marker on it.
LEMMA MarkersAreSetAlone ==
  ASSUME TypeOK, NEW s \in Roots, MoveStep(s), NEW r \in Roots
  PROVE  marker'[r] \in {marker[r], NoMarker} \/ HeldExclusively(r) \/ ~HeldShared(r)
<1>a. marker \in [Roots -> Marker \cup {NoMarker}]
  BY DEF TypeOK, DiskTypes
<1>1. CASE GateSource(s) \/ RetireSource(s)
  BY <1>a, <1>1 DEF GateSource, RetireSource, SetMarker, HeldExclusively
<1>2. CASE UngateSource(s) \/ ActivateDestination(s)
  BY <1>a, <1>2 DEF UngateSource, ActivateDestination, SetMarker
<1>3. CASE LockCreated(s)
  BY <1>a, <1>3 DEF LockCreated, SetMarker, CanLockExclusively
<1>4. CASE UNCHANGED marker
  BY <1>4
<1>5. \/ UNCHANGED marker \/ GateSource(s) \/ RetireSource(s) \/ UngateSource(s)
      \/ LockCreated(s) \/ ActivateDestination(s)
  BY DEF MoveStep, Command, Step, Create, Continue, Abort, StartMove, ResumeMove, AbortMove,
     ArchiveJournal, CreateJournal, EnsureActivity, AbortRecord, RecordActivity,
     MakeDestination, LockReused, AdmitDestination, CopyFile, CopyDatabase,
     CheckCopies, WriteReceipt, JournalVerified, JournalPublished,
     FinishMove, FinishActivity, JournalComplete, AbortLock, AbortFail,
     JournalAborted, Crash
<1>. QED BY <1>1, <1>2, <1>3, <1>4, <1>5

\* A command takes only roots that nobody shares.
LEMMA LeasesAreTakenUnshared ==
  ASSUME TypeOK, Commands, NEW s \in Roots, MoveStep(s), LocalStep(s), NEW r \in Roots,
         HeldExclusively(r)'
  PROVE  HeldExclusively(r) \/ ~HeldShared(r)
<1>1. CASE pc[s] = "idle"
  <2>1. UNCHANGED journal /\ (UNCHANGED command \/ (CanLockExclusively(s) /\ UNCHANGED leased))
    BY <1>1 DEF MoveStep, Command, Step, Create, Continue, Abort, StartMove, ResumeMove, AbortMove,
       OpenExclusive, Goto, ArchiveJournal, CreateJournal, EnsureActivity, AbortRecord, RecordActivity,
       GateSource, LockCreated, RetireSource, ActivateDestination, UngateSource,
       MakeDestination, LockReused, AdmitDestination, CopyFile, CopyDatabase,
       CheckCopies, WriteReceipt, JournalVerified, JournalPublished,
       FinishMove, FinishActivity, JournalComplete, AbortLock, AbortFail,
       JournalAborted, Crash
  <2>. QED BY <2>1 DEF HeldExclusively, CanLockExclusively, LocalStep
<1>2. CASE pc[s] # "idle"
  <2>1. leased' \subseteq leased \/ (leased' = leased \cup {s} /\ CanLockExclusively(journal[s].dst))
    BY <1>2 DEF MoveStep, Command, Step, Create, Continue, Abort, StartMove, ResumeMove, AbortMove,
       OpenExclusive, Goto, Return, ArchiveJournal, CreateJournal, EnsureActivity, AbortRecord,
       RecordActivity,
       GateSource, LockCreated, RetireSource, ActivateDestination, UngateSource,
       MakeDestination, LockReused, AdmitDestination, CopyFile, CopyDatabase,
       CheckCopies, WriteReceipt, JournalVerified, JournalPublished,
       FinishMove, FinishActivity, JournalComplete, AbortLock, AbortFail,
       JournalAborted, Crash
  <2>2. s \in leased' => journal'[s].dst = journal[s].dst
    BY DEF LocalStep, Commands, LeasesAreHeldInSteps, Starting, LockedSteps, CopySteps, AbortSteps
  <2>3. leased \subseteq Roots /\ \A q \in Roots \ {s} : journal'[q] = journal[q] /\ pc'[q] = pc[q]
    BY DEF LocalStep, TypeOK, CommandTypes
  <2>. QED BY <1>2, <2>1, <2>2, <2>3 DEF HeldExclusively, CanLockExclusively
<1>. QED BY <1>1, <1>2

\* No command removes a directory or moves a client.
LEMMA MoveStepsLeaveClients ==
  ASSUME NEW s \in Roots, MoveStep(s)
  PROVE  dirs \subseteq dirs' /\ UNCHANGED client
BY DEF MoveStep, Command, Step, Create, Continue, Abort, StartMove, ResumeMove, AbortMove,
     ArchiveJournal, CreateJournal, EnsureActivity, AbortRecord, RecordActivity,
     GateSource, LockCreated, RetireSource, ActivateDestination, UngateSource,
     MakeDestination, LockReused, AdmitDestination, CopyFile, CopyDatabase,
     CheckCopies, WriteReceipt, JournalVerified, JournalPublished,
     FinishMove, FinishActivity, JournalComplete, AbortLock, AbortFail,
     JournalAborted, Crash

\* A step of a command takes away no root that a command or a client is at.
LEMMA MoveStepsKeepPresent ==
  ASSUME TypeOK, Commands, Present, NEW s \in Roots, MoveStep(s), LocalStep(s)
  PROVE  Present'
<1> DEFINE Placed == {"created", "reused"} \cup LockedSteps
           Fresh == \E step \in {"planned", "archived", "begun", "recorded", "gated", "abort",
                               "abort locked", "abort recorded", "abort failed", "abort journaled"} :
                      pc' = [pc EXCEPT ![s] = step]
<1>a. pc \in [Roots -> Steps]
  BY DEF TypeOK, CommandTypes
<1>1. dirs \subseteq dirs' /\ UNCHANGED client
  BY MoveStepsLeaveClients
<1>2. dbs' \subseteq dirs
  <2>1. CASE (\E d \in Roots : StartMove(s, d)) \/ ResumeMove(s) \/ AbortMove(s)
    <3>1. OpenExclusive(s)
      BY <2>1 DEF StartMove, ResumeMove, AbortMove
    <3>. QED BY <3>1 DEF OpenExclusive, Initialize, Present
  <2>2. CASE AdmitDestination(s) \/ CopyDatabase(s)
    BY <2>2 DEF AdmitDestination, CopyDatabase, Initialize, Present, LockedSteps, CopySteps
  <2>3. CASE UNCHANGED dbs
    BY <2>3 DEF Present
  <2>4. \/ UNCHANGED dbs \/ (\E d \in Roots : StartMove(s, d)) \/ ResumeMove(s) \/ AbortMove(s)
        \/ AdmitDestination(s) \/ CopyDatabase(s)
    BY DEF MoveStep, Command, Step, Create, Continue, Abort,
       ArchiveJournal, CreateJournal, EnsureActivity, AbortRecord, RecordActivity,
       GateSource, LockCreated, RetireSource, ActivateDestination, UngateSource,
       MakeDestination, LockReused, CopyFile,
       CheckCopies, WriteReceipt, JournalVerified, JournalPublished,
       FinishMove, FinishActivity, JournalComplete, AbortLock, AbortFail,
       JournalAborted, Crash
  <2>. QED BY <2>1, <2>2, <2>3, <2>4
<1>3. pc'[s] \in Placed => pc[s] \in Placed \/ (pc[s] = "gated" /\ journal[s].dst \in dirs')
  <2>1. \/ UNCHANGED pc \/ pc' = [pc EXCEPT ![s] = "idle"] \/ Fresh
        \/ pc[s] \in Placed
        \/ MakeDestination(s)
    BY DEF MoveStep, Command, Step, Create, Continue, Abort, StartMove, ResumeMove, AbortMove,
     ArchiveJournal, CreateJournal, EnsureActivity, AbortRecord, RecordActivity, Goto, Return,
     GateSource, LockCreated, RetireSource, ActivateDestination, UngateSource,
     LockReused, AdmitDestination, CopyFile, CopyDatabase,
     CheckCopies, WriteReceipt, JournalVerified, JournalPublished,
     FinishMove, FinishActivity, JournalComplete, AbortLock, AbortFail,
     JournalAborted, Crash, LockedSteps, CopySteps
  <2>2. Fresh => pc'[s] \notin Placed
    BY <1>a DEF LockedSteps, CopySteps
  <2>3. MakeDestination(s) => pc[s] = "gated" /\ journal[s].dst \in dirs'
    BY DEF MakeDestination
  <2>4. UNCHANGED pc => (pc'[s] \in Placed => pc[s] \in Placed)
    OBVIOUS
  <2>5. pc' = [pc EXCEPT ![s] = "idle"] => pc'[s] \notin Placed
    BY <1>a DEF LockedSteps, CopySteps
  <2>. HIDE DEF Placed, Fresh
  <2>. QED BY <2>1, <2>2, <2>3, <2>4, <2>5
<1>4. \A q \in Roots : pc'[q] \in Placed => journal'[q].dst \in dirs'
  BY <1>1, <1>3 DEF LocalStep, Present, Starting, LockedSteps, CopySteps
<1>. QED BY <1>1, <1>2, <1>4 DEF Present

\* A step of a command keeps the invariant of open libraries.
LEMMA MoveStepsKeepLibrariesOpen ==
  ASSUME TypeOK, Commands, OpenInvariant, NEW s \in Roots, MoveStep(s), LocalStep(s)
  PROVE  OpenInvariant'
<1>1. Present'
  BY MoveStepsKeepPresent DEF OpenInvariant
<1>2. UNCHANGED client /\ dirs \subseteq dirs'
  BY MoveStepsLeaveClients
<1>3. SharedExcludes'
  BY <1>2, LeasesAreTakenUnshared DEF OpenInvariant, SharedExcludes, HeldShared
<1>4. ASSUME NEW c \in Clients, client[c].pc = "open" PROVE Writable(client[c].at)'
  <2>1. client[c].at \in Roots /\ HeldShared(client[c].at) /\ Writable(client[c].at)
    BY <1>4 DEF TypeOK, UserTypes, Visit, Gone, HeldShared, OpenInvariant, OpenRootsAreUngated
  <2>2. ~HeldExclusively(client[c].at)
    BY <2>1 DEF OpenInvariant, SharedExcludes
  <2>. QED BY <1>2, <2>1, <2>2, MarkersAreSetAlone DEF Writable
<1>. QED BY <1>1, <1>2, <1>3, <1>4 DEF OpenInvariant, OpenRootsAreUngated

\* Clients enter only through a shared lease, and only an ungated root.
LEMMA UserStepsKeepLibrariesOpen ==
  ASSUME MoveInvariant, OpenInvariant, UserStep
  PROVE  OpenInvariant'
<1>a. /\ client \in [Clients -> Visit \cup {Gone}]
      /\ marker \in [Roots -> Marker \cup {NoMarker}]
  BY DEF MoveInvariant, TypeOK, DiskTypes, UserTypes
<1>1. CASE UNCHANGED <<dirs, marker, dbs, journal, command, client>>
  BY <1>1 DEF OpenInvariant, Present, SharedExcludes, HeldShared, HeldExclusively,
              OpenRootsAreUngated, Writable
<1>2. ASSUME NEW c \in Clients, Close(c) PROVE OpenInvariant'
  BY <1>a, <1>2 DEF Close, Gone, OpenInvariant, Present, SharedExcludes, HeldShared,
                    HeldExclusively, OpenRootsAreUngated, Writable
<1>3. ASSUME NEW c \in Clients, NEW r \in Roots, Arrive(c, r) PROVE OpenInvariant'
  BY <1>a, <1>3 DEF Arrive, OpenInvariant, Present, SharedExcludes, HeldShared,
                    HeldExclusively, OpenRootsAreUngated, Writable
<1>4. ASSUME NEW c \in Clients, LockShared(c) PROVE OpenInvariant'
  BY <1>a, <1>4 DEF LockShared, Gone, Visit, OpenInvariant, Present, SharedExcludes, HeldShared,
                    HeldExclusively, OpenRootsAreUngated, Writable
<1>5. ASSUME NEW c \in Clients, OpenTarget(c) PROVE OpenInvariant'
  <2>1. client[c].pc = "leased" /\ client[c].at \in dirs
    BY <1>5 DEF OpenTarget, OpenInvariant, Present
  <2>2. CASE marker[client[c].at] = NoMarker
    BY <1>a, <1>5, <2>1, <2>2
       DEF OpenTarget, Initialize, Visit, Gone, OpenInvariant, Present, SharedExcludes, HeldShared,
           HeldExclusively, OpenRootsAreUngated, Writable
  <2>3. CASE marker[client[c].at] # NoMarker
    <3>1. /\ UNCHANGED <<dirs, marker, dbs, journal, command>>
          /\ \A b \in Clients \ {c} : client'[b] = client[b]
          /\ \/ client'[c] = Gone
             \/ client'[c].pc = "arriving" /\ client'[c].at \in dirs
      <4>1. HasReceipt(marker[client[c].at].dst, marker[client[c].at].id)
              => marker[client[c].at].dst \in dirs
        BY <1>a, <2>1, <2>3
           DEF HasReceipt, MoveInvariant, ReceiptsHaveADatabase, OpenInvariant, Present, Marker,
               Visit, Gone
      <4>2. client[c] \in Visit
        BY <1>a, <2>1 DEF Gone
      <4>3. UNCHANGED <<dirs, marker, dbs, journal, command>>
        BY <1>5, <2>3 DEF OpenTarget
      <4>4. CASE client' = [client EXCEPT ![c] = Gone]
        BY <1>a, <4>3, <4>4
      <4>5. CASE /\ marker[client[c].at].dst \in dirs
                 /\ client' = [client EXCEPT ![c].pc = "arriving", ![c].at = marker[client[c].at].dst]
        BY <1>a, <4>2, <4>3, <4>5 DEF Visit
      <4>. QED BY <1>5, <2>3, <4>1, <4>4, <4>5 DEF OpenTarget
    <3>2. Present'
      BY <3>1 DEF Gone, OpenInvariant, Present
    <3>3. client'[c].pc \notin {"leased", "open"}
      BY <3>1 DEF Gone
    <3>4. SharedExcludes'
      BY <3>1, <3>3 DEF OpenInvariant, SharedExcludes, HeldShared, HeldExclusively
    <3>. QED BY <3>1, <3>2, <3>3, <3>4 DEF OpenInvariant, OpenRootsAreUngated, Writable
  <2>. QED BY <2>2, <2>3
<1>6. \/ UNCHANGED <<dirs, marker, dbs, journal, command, client>>
      \/ \E c \in Clients : Close(c) \/ LockShared(c) \/ OpenTarget(c) \/ \E r \in Roots : Arrive(c, r)
  BY DEF UserStep, ClientStep, Stay, Write, Delete, Edit
<1>. QED BY <1>1, <1>2, <1>3, <1>4, <1>5, <1>6

\* The invariant of open libraries holds in every reachable state.
LEMMA OpenInvariantHolds == Spec => []OpenInvariant
<1>1. Init => OpenInvariant
  BY DEF Init, OpenInvariant, Present, SharedExcludes, HeldShared, OpenRootsAreUngated, Gone,
         LockedSteps, CopySteps
<1>2. MoveInvariant /\ OpenInvariant /\ [Next]_vars => OpenInvariant'
  <2>1. ASSUME MoveInvariant, OpenInvariant, NEW s \in Roots, MoveStep(s) PROVE OpenInvariant'
    <3>1. TypeOK /\ Commands
      BY <2>1 DEF MoveInvariant, Commands, StartsAreUnmarked
    <3>2. LocalStep(s)
      BY <2>1, <3>1, StepsAreLocal DEF Commands
    <3>. QED BY <2>1, <3>1, <3>2, MoveStepsKeepLibrariesOpen
  <2>2. ASSUME OpenInvariant, UNCHANGED vars PROVE OpenInvariant'
    BY <2>2 DEF vars, OpenInvariant, Present, SharedExcludes, HeldShared, HeldExclusively,
                OpenRootsAreUngated, Writable
  <2>. QED BY <2>1, <2>2, UserStepsKeepLibrariesOpen DEF Next, MoveStep, UserStep
<1>. QED BY <1>1, <1>2, MoveInvariantHolds, PTL DEF Spec

\* No command moves, gates or retires a root while a client has it open: the
\* lease that with_access keeps for the life of the handle, against
\* open_exclusive's.
THEOREM OpenLibrariesStayOpen == Spec => []OpenRootsAreUngated
<1>1. OpenInvariant => OpenRootsAreUngated
  BY DEF OpenInvariant
<1>. QED BY <1>1, OpenInvariantHolds, PTL

(******************************* Aborted moves *****************************)

\* A move that is being aborted, or was, is not resumed, and its source is not
\* retired.
Aborting(s) == pc[s] \in AbortSteps \cup {"abort"}

AbortedIsOver(s) ==
  /\ journal[s].phase = "aborted" => pc[s] \in Starting \cup {"idle", "abort journaled"}
  /\ journal[s].phase = "aborted" \/ Aborting(s) => marker[s].state # "moved"

AbortInvariant == \A s \in Roots : AbortedIsOver(s)

\* A root without a marker is not a retired one.
LEMMA UnmarkedIsNotMoved == NoMarker.state # "moved"
BY DEF NoMarker

\* Only the command on a root retires it, and only at the end of its copy.
LEMMA OnlyRetiringRetires ==
  ASSUME TypeOK, NEW s \in Roots, MoveStep(s), NEW r \in Roots
  PROVE  marker'[r].state = "moved" =>
           marker[r].state = "moved" \/ (s = r /\ pc[s] = "verified" /\ pc'[s] = "moved")
<1>a. marker \in [Roots -> Marker \cup {NoMarker}] /\ pc \in [Roots -> Steps]
  BY DEF TypeOK, DiskTypes, CommandTypes
<1>1. CASE GateSource(s) \/ LockCreated(s)
  BY <1>a, <1>1 DEF GateSource, LockCreated, SetMarker, AuthorityOf
<1>2. CASE RetireSource(s)
  BY <1>a, <1>2 DEF RetireSource, SetMarker, Goto
<1>3. CASE UngateSource(s) \/ ActivateDestination(s)
  <2>1. marker'[r] \in {marker[r], NoMarker}
    BY <1>a, <1>3 DEF UngateSource, ActivateDestination, SetMarker
  <2>. QED BY <2>1 DEF NoMarker
<1>4. CASE UNCHANGED marker
  BY <1>4
<1>5. \/ UNCHANGED marker \/ GateSource(s) \/ RetireSource(s) \/ UngateSource(s)
      \/ LockCreated(s) \/ ActivateDestination(s)
  BY DEF MoveStep, Command, Step, Create, Continue, Abort, StartMove, ResumeMove, AbortMove,
     ArchiveJournal, CreateJournal, EnsureActivity, AbortRecord, RecordActivity,
     MakeDestination, LockReused, AdmitDestination, CopyFile, CopyDatabase,
     CheckCopies, WriteReceipt, JournalVerified, JournalPublished,
     FinishMove, FinishActivity, JournalComplete, AbortLock, AbortFail,
     JournalAborted, Crash
<1>. QED BY <1>1, <1>2, <1>3, <1>4, <1>5

\* A journal's phase changes only where it is written.
LEMMA PhasesAreWritten ==
  ASSUME TypeOK, Commands, NEW s \in Roots, MoveStep(s)
  PROVE  \/ journal'[s].phase = journal[s].phase
         \/ \E id \in Ids : CreateJournal(s, id)
         \/ JournalVerified(s) \/ JournalPublished(s) \/ JournalComplete(s) \/ JournalAborted(s)
BY DEF MoveStep, Command, Step, Create, Continue, Abort, StartMove, ResumeMove, AbortMove,
   ArchiveJournal, EnsureActivity, AbortRecord, RecordActivity,
   GateSource, LockCreated, RetireSource, ActivateDestination, UngateSource,
   MakeDestination, LockReused, AdmitDestination, CopyFile, CopyDatabase,
   CheckCopies, WriteReceipt, FinishMove, FinishActivity, AbortLock, AbortFail, Crash

\* Writing a phase: what it is, and between which steps.
LEMMA PhaseWrites ==
  ASSUME TypeOK, Commands, NEW s \in Roots
  PROVE  /\ JournalVerified(s) =>
              pc[s] = "receipted" /\ pc'[s] = "verified" /\ journal'[s].phase = "verified"
         /\ JournalPublished(s) =>
              pc[s] = "moved" /\ pc'[s] = "published" /\ journal'[s].phase = "published"
         /\ JournalComplete(s) =>
              pc[s] = "finished" /\ pc'[s] = "idle" /\ journal'[s].phase = "complete"
         /\ JournalAborted(s) =>
              pc[s] = "abort failed" /\ pc'[s] = "abort journaled" /\ journal'[s].phase = "aborted"
<1>a. pc \in [Roots -> Steps]
  BY DEF TypeOK, CommandTypes
<1>b. pc[s] \notin Starting \cup {"idle"} => journal[s] # NoJournal
  BY DEF Commands, StepsHaveAJournal
<1>c. \A phase \in TransferPhase :
        journal[s] # NoJournal /\ SetPhase(s, phase) => journal'[s].phase = phase
  BY SetPhaseKeepsTheMove
<1>. QED BY <1>a, <1>b, <1>c
     DEF JournalVerified, JournalPublished, JournalComplete, JournalAborted, Goto, Return,
         Starting, TransferPhase

\* Steps of the others leave a journal, and never retire its source.
LEMMA OthersKeepAborted ==
  ASSUME TypeOK, NEW s \in Roots, MoveStep(s), LocalStep(s),
         NEW q \in Roots \ {s}, AbortedIsOver(q)
  PROVE  AbortedIsOver(q)'
BY OnlyRetiringRetires DEF LocalStep, AbortedIsOver, Aborting

\* A step of a command leaves the source of an aborted move unretired.
LEMMA StepsKeepAborted ==
  ASSUME TypeOK, Commands, Gates, NEW s \in Roots, MoveStep(s), AbortedIsOver(s)
  PROVE  AbortedIsOver(s)'
<1>a. pc \in [Roots -> Steps]
  BY DEF TypeOK, CommandTypes
<1>b. marker \in [Roots -> Marker \cup {NoMarker}]
  BY DEF TypeOK, DiskTypes
<1>1. CASE \E id \in Ids : CreateJournal(s, id)
  <2>1. journal'[s].phase = "copying" /\ pc'[s] = "begun"
    <3>1. journal \in [Roots -> TransferJournal \cup {NoJournal}]
      BY DEF TypeOK, DiskTypes
    <3>2. PICK id \in Ids : CreateJournal(s, id)
      BY <1>1
    <3>3. journal'[s] = [phase |-> "copying", id |-> id, dst |-> target[s],
                         files |-> files[s], settings |-> settings[s]]
      BY <3>1, <3>2 DEF CreateJournal
    <3>4. pc'[s] = "begun"
      BY <1>a, <3>2 DEF CreateJournal
    <3>. QED BY <3>3, <3>4
  <2>. QED BY <2>1 DEF AbortedIsOver, Aborting, AbortSteps
<1> USE DEF AbortedIsOver, Aborting, AbortSteps
<1>2. CASE JournalVerified(s) \/ JournalPublished(s) \/ JournalComplete(s)
  BY <1>2, PhaseWrites
<1>3. CASE JournalAborted(s)
  <2>1. pc[s] = "abort failed" /\ pc'[s] = "abort journaled" /\ UNCHANGED marker
    BY <1>3, PhaseWrites DEF JournalAborted
  <2>. QED BY <2>1 DEF Starting
<1>4. CASE /\ journal'[s].phase = journal[s].phase
           /\ ~\E id \in Ids : CreateJournal(s, id)
           /\ ~(JournalVerified(s) \/ JournalPublished(s) \/ JournalComplete(s) \/ JournalAborted(s))
  <2>1. journal[s].phase = "aborted" => pc'[s] \in Starting \cup {"idle", "abort journaled"}
    <3>. SUFFICES ASSUME journal[s].phase = "aborted"
                  PROVE  pc'[s] \in Starting \cup {"idle", "abort journaled"}
      OBVIOUS
    <3>1. CASE pc[s] = "idle"
      BY <1>a, <1>4, <3>1 DEF MoveStep, Command, Step, Create, Continue, Abort, StartMove,
         ResumeMove, MayResume, AbortMove, OpenExclusive, Goto, ArchiveJournal, EnsureActivity,
         AbortRecord, RecordActivity, GateSource, LockCreated, RetireSource,
         ActivateDestination, UngateSource, MakeDestination, LockReused, AdmitDestination,
         CopyFile, CopyDatabase, CheckCopies, WriteReceipt, FinishMove, FinishActivity,
         AbortLock, AbortFail, Crash, Starting
    <3>2. CASE pc[s] \in Starting \cup {"abort journaled"}
      BY <1>a, <1>4, <3>2 DEF MoveStep, Command, Step, Create, Continue, Abort, StartMove,
         ResumeMove, AbortMove, OpenExclusive, Goto, Return, ArchiveJournal, EnsureActivity,
         AbortRecord, RecordActivity, GateSource, LockCreated, RetireSource,
         ActivateDestination, UngateSource, MakeDestination, LockReused, AdmitDestination,
         CopyFile, CopyDatabase, CheckCopies, WriteReceipt, FinishMove, FinishActivity,
         AbortLock, AbortFail, Crash, Starting
    <3>. QED BY <3>1, <3>2
  <2>2. Aborting(s)' => Aborting(s) \/ AbortMove(s)
    BY <1>a, <1>4 DEF MoveStep, Command, Step, Create, Continue, Abort, StartMove,
       ResumeMove, OpenExclusive, Goto, Return, ArchiveJournal, EnsureActivity,
       AbortRecord, RecordActivity, GateSource, LockCreated, RetireSource,
       ActivateDestination, UngateSource, MakeDestination, LockReused, AdmitDestination,
       CopyFile, CopyDatabase, CheckCopies, WriteReceipt, FinishMove, FinishActivity,
       AbortLock, AbortFail, Crash
  <2>3. AbortMove(s) /\ Aborting(s)' => marker[s].state # "moved" /\ pc[s] = "idle"
    <3>. SUFFICES ASSUME AbortMove(s), Aborting(s)'
                  PROVE  marker[s].state # "moved" /\ pc[s] = "idle"
      OBVIOUS
    <3>1. pc[s] = "idle"
      BY DEF AbortMove, OpenExclusive
    <3>2. ~AbortRefused(s)
      <4>1. \/ ~AbortRefused(s) \/ pc' = pc
            \/ pc' = [pc EXCEPT ![s] = "abort journaled"]
        BY Zenon DEF AbortMove, Goto
      <4>. QED BY <1>a, <3>1, <4>1
    <3>3. marker[s] = NoMarker => marker[s].state # "moved"
      BY UnmarkedIsNotMoved
    <3>. QED BY <3>1, <3>2, <3>3 DEF AbortRefused
  <2>4. journal[s].phase = "aborted" \/ Aborting(s)' => marker[s].state # "moved" /\ pc[s] # "verified"
    BY <2>2, <2>3 DEF Starting
  <2>5. journal[s].phase = "aborted" \/ Aborting(s)' => marker'[s].state # "moved"
    BY <2>4, OnlyRetiringRetires
  <2>. QED BY <1>4, <2>1, <2>5
<1>. QED BY <1>1, <1>2, <1>3, <1>4, PhasesAreWritten

\* An aborted move is over: no resume, no crash and no later abort of it
\* publishes it or retires its source (resume_library_move's refusal, the order
\* of abort_library_move).
THEOREM AbortsAreFinal == Spec => AbortIsFinal
<1>1. Init => AbortInvariant
  BY DEF Init, AbortInvariant, AbortedIsOver, Aborting, AbortSteps, NoJournal
<1>2. ASSUME MoveInvariant, AbortInvariant, [Next]_vars PROVE AbortInvariant'
  <2>1. ASSUME NEW s \in Roots, MoveStep(s) PROVE AbortInvariant'
    <3>1. TypeOK /\ Commands /\ Gates
      BY <1>2 DEF MoveInvariant, Commands, Gates, StartsAreUnmarked
    <3>2. LocalStep(s)
      BY <2>1, <3>1, StepsAreLocal DEF Commands
    <3>. QED BY <1>2, <2>1, <3>1, <3>2, OthersKeepAborted, StepsKeepAborted DEF AbortInvariant
  <2>2. CASE UserStep \/ UNCHANGED vars
    <3>1. UNCHANGED <<journal, marker, pc>>
      BY <2>2 DEF UserStep, vars, ClientStep, Stay, Arrive, LockShared, OpenTarget, Initialize,
         Write, Delete, Close, Edit
    <3>. QED BY <1>2, <3>1 DEF AbortInvariant, AbortedIsOver, Aborting
  <2>. QED BY <1>2, <2>1, <2>2 DEF Next, MoveStep, UserStep
<1>3. ASSUME MoveInvariant, AbortInvariant, AbortInvariant', [Next]_vars, NEW s \in Roots,
             journal[s].phase = "aborted", journal'[s].id = journal[s].id
      PROVE  journal'[s].phase = "aborted" /\ marker'[s] # AuthorityOf(journal[s], "moved")
  <2>1. journal'[s].phase = "aborted"
    <3>1. CASE \E q \in Roots : MoveStep(q)
      <4>1. PICK q \in Roots : MoveStep(q)
        BY <3>1
      <4>2. TypeOK /\ Commands
        BY <1>3 DEF MoveInvariant, Commands, StartsAreUnmarked
      <4>3. CASE q # s
        BY <1>3, <4>1, <4>2, <4>3, StepsAreLocal DEF Commands, LocalStep
      <4>4. CASE q = s
        <5>1. ~\E id \in Ids : CreateJournal(s, id)
          <6>. SUFFICES ASSUME NEW id \in Ids, CreateJournal(s, id) PROVE FALSE
            OBVIOUS
          <6>1. journal'[s].id = id /\ id \notin UsedIds
            <7>1. journal \in [Roots -> TransferJournal \cup {NoJournal}]
              BY <4>2 DEF TypeOK, DiskTypes
            <7>. QED BY <7>1 DEF CreateJournal
          <6>. QED BY <1>3, <6>1 DEF UsedIds
        <5>2. ~(JournalVerified(s) \/ JournalPublished(s) \/ JournalComplete(s))
          BY <1>3, <4>2, PhaseWrites DEF AbortInvariant, AbortedIsOver, Starting
        <5>. QED BY <1>3, <4>1, <4>2, <4>4, <5>1, <5>2, PhasesAreWritten, PhaseWrites
      <4>. QED BY <4>3, <4>4
    <3>2. CASE UserStep \/ UNCHANGED vars
      <4>1. UNCHANGED journal
        BY <3>2 DEF UserStep, vars, ClientStep, Stay, Arrive, LockShared, OpenTarget, Initialize,
           Write, Delete, Close, Edit
      <4>. QED BY <1>3, <4>1
    <3>. QED BY <1>3, <3>1, <3>2 DEF Next, MoveStep, UserStep
  <2>2. marker'[s].state # "moved"
    BY <1>3, <2>1 DEF AbortInvariant, AbortedIsOver
  <2>. QED BY <2>1, <2>2 DEF AuthorityOf
<1>4. MoveInvariant /\ AbortInvariant /\ AbortInvariant' /\ [Next]_vars
        => [\A s \in Roots : journal[s].phase = "aborted" /\ journal'[s].id = journal[s].id
              => journal'[s].phase = "aborted"
                 /\ marker'[s] # AuthorityOf(journal[s], "moved")]_vars
  BY <1>3
<1>. QED BY <1>1, <1>2, <1>4, MoveInvariantHolds, PTL DEF Spec, AbortIsFinal

(***************************** Copies of a library *************************)

\* The root is the destination of a move and not yet opened.
Hidden(r) == marker[r].state = "pending" /\ marker[r].dst = r

\* A marker names the move it was set for: the id is taken, and as long as the
\* move is some root's, the marker is on its source or on its destination.
MarkersBelong ==
  \A r \in Roots : marker[r] # NoMarker =>
    /\ marker[r].id \in UsedIds
    /\ \A s \in Roots : journal[s] # NoJournal /\ journal[s].id = marker[r].id =>
         marker[r].dst = journal[s].dst /\ r \in {s, journal[s].dst}
    /\ marker[r].state = "moved" => marker[r].dst # r

\* What is gated, or led to, exists.
MarkedRootsExist ==
  \A r \in Roots :
    /\ Hidden(r) => r \in dirs
    /\ marker[r].state = "moved" => marker[r].dst \in dirs

\* A directory that a command has just made is nobody else's.
CreatedIsFresh ==
  \A s \in Roots : pc[s] = "created" =>
    /\ ~Hidden(journal[s].dst)
    /\ \A q \in Roots : marker[q].state = "moved" => marker[q].dst # journal[s].dst
    /\ \A q \in Roots \ {s} : pc[q] = "created" => journal[q].dst # journal[s].dst

\* Two roots hold the same saves.
Agree(s, d) ==
  files[s] \cap Saves = files[d] \cap Saves /\ settings[s] \cap Saves = settings[d] \cap Saves

CheckedSteps == {"checked", "receipted", "verified"}

CheckedCopiesAgree ==
  \A s \in Roots : pc[s] \in CheckedSteps => Agree(s, journal[s].dst)

\* The root was retired to a copy that is still hidden.
Heir(s, d) == marker[s].state = "moved" /\ marker[s].dst = d /\ Hidden(d) /\ marker[d].id = marker[s].id

HeirsAgree == \A s, d \in Roots : Heir(s, d) => Agree(s, d)

CopiesInvariant ==
  MarkersBelong /\ MarkedRootsExist /\ CreatedIsFresh /\ CheckedCopiesAgree /\ HeirsAgree

\* How a step changes a marker.
SourceGated(s) ==
  /\ pc[s] = "recorded" /\ pc'[s] = "gated" /\ marker[s] = NoMarker
  /\ marker' = [marker EXCEPT ![s] = AuthorityOf(journal[s], "pending")]
DestinationGated(s) ==
  /\ pc[s] = "created" /\ pc'[s] = "locked" /\ marker[journal[s].dst] = NoMarker
  /\ marker' = [marker EXCEPT ![journal[s].dst] = AuthorityOf(journal[s], "pending")]
SourceRetired(s) ==
  /\ pc[s] = "verified" /\ pc'[s] = "moved"
  /\ marker' = [marker EXCEPT ![s] = AuthorityOf(journal[s], "moved")]
DestinationOpened(s) ==
  /\ pc[s] = "published" /\ pc'[s] = "finishing" /\ PendingFor(marker[journal[s].dst], journal[s])
  /\ marker' = [marker EXCEPT ![journal[s].dst] = NoMarker]
SourceUngated(s) ==
  /\ pc[s] = "abort journaled" /\ pc'[s] = "idle" /\ MayUngate(s)
  /\ marker' = [marker EXCEPT ![s] = NoMarker]

MarkerStep(s) ==
  /\ UNCHANGED <<dirs, journal, archived, files, settings, dbs>>
  /\ \/ SourceGated(s) \/ DestinationGated(s) \/ SourceRetired(s)
     \/ DestinationOpened(s) \/ SourceUngated(s)

\* Markers are changed by the gates, the retirement and the abort only.
LEMMA MarkerSteps ==
  ASSUME TypeOK, NEW s \in Roots, MoveStep(s)
  PROVE  UNCHANGED marker \/ MarkerStep(s)
<1>a. /\ marker \in [Roots -> Marker \cup {NoMarker}]
      /\ pc \in [Roots -> Steps]
  BY DEF TypeOK, DiskTypes, CommandTypes
<1> USE DEF MarkerStep
<1>1. CASE GateSource(s)
  BY <1>a, <1>1 DEF GateSource, SetMarker, Goto, SourceGated
<1>2. CASE LockCreated(s)
  BY <1>a, <1>2 DEF LockCreated, SetMarker, DestinationGated
<1>3. CASE RetireSource(s)
  BY <1>a, <1>3 DEF RetireSource, SetMarker, Goto, SourceRetired
<1>4. CASE ActivateDestination(s)
  BY <1>a, <1>4 DEF ActivateDestination, SetMarker, Goto, DestinationOpened
<1>5. CASE UngateSource(s)
  BY <1>a, <1>5 DEF UngateSource, Return, SourceUngated
<1>6. \/ UNCHANGED marker \/ GateSource(s) \/ RetireSource(s) \/ UngateSource(s)
      \/ LockCreated(s) \/ ActivateDestination(s)
  BY DEF MoveStep, Command, Step, Create, Continue, Abort, StartMove, ResumeMove, AbortMove,
     ArchiveJournal, CreateJournal, EnsureActivity, AbortRecord, RecordActivity,
     MakeDestination, LockReused, AdmitDestination, CopyFile, CopyDatabase,
     CheckCopies, WriteReceipt, JournalVerified, JournalPublished,
     FinishMove, FinishActivity, JournalComplete, AbortLock, AbortFail,
     JournalAborted, Crash
<1>. QED BY <1>1, <1>2, <1>3, <1>4, <1>5, <1>6

\* What a copy writes, at the destination only.
CopyStep(s) ==
  LET d == journal[s].dst
  IN /\ pc[s] = "copying"
     /\ UNCHANGED <<dirs, marker, journal, archived, acked>>
     /\ \A r \in Roots \ {d} : files'[r] = files[r] /\ settings'[r] = settings[r]
     /\ files[d] \subseteq files'[d] /\ files'[d] \subseteq files[d] \cup files[s]
     /\ settings'[d] = settings[d] \/ (settings'[d] = settings[s] /\ d \notin dbs /\ d \in dbs')

\* Files and settings are changed by copying only.
LEMMA CopyingSteps ==
  ASSUME TypeOK, Commands, NEW s \in Roots, MoveStep(s)
  PROVE  UNCHANGED <<files, settings>> \/ CopyStep(s)
<1>a. /\ files \in [Roots -> SUBSET Data] /\ settings \in [Roots -> SUBSET Data]
  BY DEF TypeOK, DiskTypes
<1>b. pc[s] = "copying" => journal[s].dst \in Roots
  BY JournalFields DEF Commands, StepsHaveAJournal, Starting
<1>1. CASE \E v \in Data : CopyFile(s, v)
  <2>1. PICK v \in Data : CopyFile(s, v)
    BY <1>1
  <2>2. CASE UNCHANGED files
    BY <2>1, <2>2 DEF CopyFile
  <2>3. CASE v \in files[s] /\ files' = [files EXCEPT ![journal[s].dst] = @ \cup {v}]
    BY <1>a, <1>b, <2>1, <2>3 DEF CopyFile, CopyStep
  <2>. QED BY <2>1, <2>2, <2>3 DEF CopyFile
<1>2. CASE CopyDatabase(s)
  <2>1. CASE UNCHANGED settings
    BY <1>2, <2>1 DEF CopyDatabase
  <2>2. CASE /\ journal[s].dst \notin dbs
             /\ dbs' = dbs \cup {journal[s].dst}
             /\ settings' = [settings EXCEPT ![journal[s].dst] = settings[s]]
    BY <1>a, <1>b, <1>2, <2>2 DEF CopyDatabase, CopyStep
  <2>. QED BY <1>2, <2>1, <2>2 DEF CopyDatabase
<1>3. UNCHANGED <<files, settings>> \/ (\E v \in Data : CopyFile(s, v)) \/ CopyDatabase(s)
  BY DEF MoveStep, Command, Step, Create, Continue, Abort, StartMove, ResumeMove, AbortMove,
     OpenExclusive, Initialize,
     ArchiveJournal, CreateJournal, EnsureActivity, AbortRecord, RecordActivity, GateSource,
     MakeDestination, LockCreated, LockReused, AdmitDestination,
     CheckCopies, WriteReceipt, JournalVerified, RetireSource, JournalPublished, ActivateDestination,
     FinishMove, FinishActivity, JournalComplete, AbortLock, AbortFail,
     JournalAborted, UngateSource, Crash
<1>. QED BY <1>1, <1>2, <1>3

\* The parts that MoveInvariant was proved by.
LEMMA InvariantParts ==
  ASSUME MoveInvariant
  PROVE  TypeOK /\ Commands /\ Exclusion /\ Gates /\ Identities
BY DEF MoveInvariant, Commands, Exclusion, Gates, Identities, StartsAreUnmarked

\* A command leaves the others' steps and journals alone.
LEMMA MoveStepsAreLocal ==
  ASSUME MoveInvariant, NEW s \in Roots, MoveStep(s)
  PROVE  LocalStep(s)
BY InvariantParts, StepsAreLocal DEF Commands

\* The move that a step works on.
LEMMA MarkerStepMoves ==
  ASSUME MoveInvariant, NEW s \in Roots, MarkerStep(s)
  PROVE  /\ journal[s] # NoJournal /\ journal[s].dst \in Roots \ {s}
         /\ journal[s].id \in Ids /\ journal[s].id \in UsedIds
         /\ marker \in [Roots -> Marker \cup {NoMarker}]
         /\ SourceRetired(s) \/ DestinationOpened(s) =>
              Belongs(marker[s], journal[s]) /\ PendingFor(marker[journal[s].dst], journal[s])
<1>1. TypeOK /\ Commands /\ Gates
  BY InvariantParts
<1>2. pc[s] \notin Starting \cup {"idle"}
  BY DEF MarkerStep, SourceGated, DestinationGated, SourceRetired, DestinationOpened, SourceUngated,
     Starting
<1>3. journal[s] # NoJournal /\ journal[s].dst # s
  BY <1>1, <1>2 DEF Commands, StepsHaveAJournal, DestinationsDiffer
<1>4. SourceRetired(s) \/ DestinationOpened(s) =>
         Belongs(marker[s], journal[s]) /\ PendingFor(marker[journal[s].dst], journal[s])
  BY <1>1 DEF SourceRetired, DestinationOpened, Gates, SourcesAreGated, CopiesAreGated,
     CopySteps, LockedSteps
<1>. QED BY <1>1, <1>3, <1>4, JournalFields DEF UsedIds, TypeOK, DiskTypes

\* The fields of a marker.
LEMMA MarkerFields ==
  /\ NoMarker.state = "none" /\ NoMarker.id = NoId
  /\ \A j, state : /\ AuthorityOf(j, state).state = state /\ AuthorityOf(j, state).id = j.id
                   /\ AuthorityOf(j, state).dst = j.dst
BY DEF NoMarker, AuthorityOf

\* What a step makes of each marker.
LEMMA MarkerStepWrites ==
  ASSUME MoveInvariant, NEW s \in Roots, MarkerStep(s), NEW r \in Roots
  PROVE  /\ SourceGated(s) =>
              marker'[r] = IF r = s THEN AuthorityOf(journal[s], "pending") ELSE marker[r]
         /\ DestinationGated(s) =>
              marker'[r] = IF r = journal[s].dst THEN AuthorityOf(journal[s], "pending") ELSE marker[r]
         /\ SourceRetired(s) =>
              marker'[r] = IF r = s THEN AuthorityOf(journal[s], "moved") ELSE marker[r]
         /\ DestinationOpened(s) =>
              marker'[r] = IF r = journal[s].dst THEN NoMarker ELSE marker[r]
         /\ SourceUngated(s) => marker'[r] = IF r = s THEN NoMarker ELSE marker[r]
BY MarkerStepMoves DEF SourceGated, DestinationGated, SourceRetired, DestinationOpened, SourceUngated

\* Identities that are taken stay so.
LEMMA IdsStayUsed ==
  ASSUME MoveInvariant, NEW s \in Roots, MoveStep(s)
  PROVE  UsedIds \subseteq UsedIds'
<1>1. TypeOK /\ Commands /\ LocalStep(s)
  BY InvariantParts, MoveStepsAreLocal
<1>2. CASE \E id \in Ids : CreateJournal(s, id)
  <2>1. PICK id \in Ids : CreateJournal(s, id)
    BY <1>2
  <2>. QED BY <1>1, <2>1, NewMovesAreFresh DEF UsedIds
<1>3. CASE journal'[s].id = journal[s].id /\ archived[s] \subseteq archived'[s]
  BY <1>1, <1>3 DEF LocalStep, UsedIds
<1>. QED BY <1>1, <1>2, <1>3, StepsKeepTheMoveOrBegin

\* Markers keep naming their moves.
LEMMA MarkersKeepBelonging ==
  ASSUME MoveInvariant, MarkersBelong, NEW s \in Roots, MoveStep(s)
  PROVE  MarkersBelong'
<1>1. TypeOK /\ Commands /\ Identities /\ LocalStep(s)
  BY InvariantParts, MoveStepsAreLocal
<1>2. CASE UNCHANGED marker /\ \E id \in Ids : CreateJournal(s, id)
  <2>1. PICK id \in Ids : CreateJournal(s, id)
    BY <1>2
  <2>2. /\ id \notin UsedIds /\ journal'[s].id = id
        /\ \A q \in Roots \ {s} : journal'[q] = journal[q]
    BY <1>1, <2>1, NewMovesAreFresh
  <2>. QED BY <1>2, <2>2, IdsStayUsed DEF MarkersBelong
<1>3. CASE UNCHANGED marker /\ ~\E id \in Ids : CreateJournal(s, id)
  <2>1. \A q \in Roots : /\ journal'[q].id = journal[q].id /\ journal'[q].dst = journal[q].dst
                         /\ journal'[q] = NoJournal <=> journal[q] = NoJournal
    BY <1>1, <1>3, StepsKeepTheMoveOrBegin DEF LocalStep
  <2>. QED BY <1>3, <2>1, IdsStayUsed DEF MarkersBelong
<1>4. CASE MarkerStep(s)
  <2>1. UNCHANGED journal /\ UNCHANGED UsedIds
    BY <1>4 DEF MarkerStep, UsedIds
  <2>2. ASSUME NEW r \in Roots, marker'[r] # NoMarker, marker'[r] # marker[r]
        PROVE  /\ r \in {s, journal[s].dst} /\ marker'[r].id = journal[s].id
               /\ marker'[r].dst = journal[s].dst /\ (marker'[r].state = "moved" => r = s)
    BY <1>4, <2>2, MarkerStepMoves, MarkerStepWrites, MarkerFields DEF MarkerStep
  <2>3. \A q \in Roots : journal[q] # NoJournal /\ journal[q].id = journal[s].id => q = s
    BY <1>1, <1>4, MarkerStepMoves DEF Identities, IdsAreUnique
  <2>. QED BY <1>4, <2>1, <2>2, <2>3, MarkerStepMoves DEF MarkersBelong
<1>. QED BY <1>1, <1>2, <1>3, <1>4, MarkerSteps

\* What is gated, or led to, keeps existing.
LEMMA MarkedRootsKeepExisting ==
  ASSUME MoveInvariant, Present, MarkedRootsExist, NEW s \in Roots, MoveStep(s)
  PROVE  MarkedRootsExist'
<1>1. TypeOK /\ dirs \subseteq dirs'
  BY InvariantParts, MoveStepsLeaveClients
<1>2. CASE UNCHANGED marker
  BY <1>1, <1>2 DEF MarkedRootsExist, Hidden
<1>3. CASE MarkerStep(s)
  <2>1. SourceRetired(s) \/ DestinationGated(s) => journal[s].dst \in dirs
    BY DEF SourceRetired, DestinationGated, Present, LockedSteps, CopySteps
  <2>2. ASSUME NEW r \in Roots
        PROVE  /\ Hidden(r)' => Hidden(r) \/ r \in dirs
               /\ marker'[r].state = "moved" => marker'[r].dst \in dirs
    BY <1>3, <2>1, MarkerStepMoves, MarkerStepWrites, MarkerFields
       DEF MarkedRootsExist, Hidden, MarkerStep
  <2>. QED BY <1>1, <2>2 DEF MarkedRootsExist
<1>. QED BY <1>1, <1>2, <1>3, MarkerSteps

\* A step of one command changes no other's.
LEMMA OthersGoOn ==
  ASSUME MoveInvariant, NEW s \in Roots, MoveStep(s), NEW q \in Roots \ {s}
  PROVE  pc'[q] = pc[q] /\ journal'[q] = journal[q]
BY MoveStepsAreLocal DEF LocalStep

\* A command that is at a step that only "gated" leads to.
LEMMA Creating ==
  ASSUME MoveInvariant, NEW s \in Roots, MoveStep(s), pc'[s] = "created"
  PROVE  pc[s] = "gated" /\ journal[s].dst \notin dirs /\ UNCHANGED <<marker, journal>>
<1>a. pc \in [Roots -> Steps]
  BY InvariantParts DEF TypeOK, CommandTypes
<1>1. MakeDestination(s)
  BY <1>a DEF MoveStep, Command, Step, Create, Continue, Abort, StartMove, ResumeMove, AbortMove,
     OpenExclusive, Goto, Return, ArchiveJournal, CreateJournal, EnsureActivity, AbortRecord,
     RecordActivity,
     GateSource, LockCreated, LockReused, AdmitDestination, CopyFile, CopyDatabase,
     CheckCopies, WriteReceipt, JournalVerified, RetireSource, JournalPublished, ActivateDestination,
     FinishMove, FinishActivity, JournalComplete, AbortLock, AbortFail,
     JournalAborted, UngateSource, Crash
<1>. QED BY <1>a, <1>1 DEF MakeDestination, Goto, Return

\* A directory that was just made stays its maker's.
LEMMA CreatedStaysFresh ==
  ASSUME MoveInvariant, Present, MarkedRootsExist, CreatedIsFresh, NEW s \in Roots, MoveStep(s)
  PROVE  CreatedIsFresh'
<1>a. TypeOK /\ Commands /\ Gates
  BY InvariantParts
<1>1. ASSUME pc'[s] = "created" PROVE
        /\ ~Hidden(journal[s].dst)'
        /\ \A q \in Roots : marker'[q].state = "moved" => marker'[q].dst # journal[s].dst
        /\ \A q \in Roots \ {s} : pc'[q] = "created" => journal'[q].dst # journal[s].dst
        /\ journal'[s].dst = journal[s].dst
  <2>1. journal[s].dst \notin dirs /\ UNCHANGED <<marker, journal>> /\ journal[s] # NoJournal
    BY <1>1, <1>a, Creating DEF Commands, StepsHaveAJournal, Starting
  <2>2. journal[s].dst \in Roots
    BY <1>a, <2>1, JournalFields
  <2>. QED BY <2>1, <2>2, OthersGoOn DEF MarkedRootsExist, Hidden, Present
<1>2. ASSUME NEW q \in Roots \ {s}, pc'[q] = "created" PROVE
        /\ ~Hidden(journal[q].dst)'
        /\ \A x \in Roots : marker'[x].state = "moved" => marker'[x].dst # journal[q].dst
        /\ \A x \in Roots \ {q} : pc'[x] = "created" => journal'[x].dst # journal[q].dst
        /\ journal'[q].dst = journal[q].dst
  <2>1. pc[q] = "created" /\ journal'[q] = journal[q]
    BY <1>2, OthersGoOn
  <2>2. journal[q].dst \in Roots /\ journal[q].dst \in dirs
    BY <1>a, <2>1, JournalFields DEF Commands, StepsHaveAJournal, Starting, Present
  <2>3. ~Hidden(journal[q].dst)'
    <3>1. CASE MarkerStep(s)
      <4>1. DestinationGated(s) => journal[s].dst # journal[q].dst
        BY <2>1 DEF DestinationGated, CreatedIsFresh
      <4>. QED BY <2>1, <2>2, <3>1, <4>1, MarkerStepMoves, MarkerStepWrites, MarkerFields
             DEF CreatedIsFresh, Hidden, MarkerStep
    <3>. QED BY <1>a, <2>1, <3>1, MarkerSteps DEF CreatedIsFresh, Hidden
  <2>4. ASSUME NEW x \in Roots, marker'[x].state = "moved" PROVE marker'[x].dst # journal[q].dst
    <3>1. CASE MarkerStep(s)
      <4>1. SourceRetired(s) => journal[s].dst # journal[q].dst
        BY <2>1, <3>1, MarkerStepMoves DEF CreatedIsFresh, Hidden, PendingFor, Belongs
      <4>. QED BY <2>1, <2>4, <3>1, <4>1, MarkerStepWrites, MarkerFields DEF CreatedIsFresh, MarkerStep
    <3>. QED BY <1>a, <2>1, <2>4, <3>1, MarkerSteps DEF CreatedIsFresh
  <2>5. ASSUME NEW x \in Roots \ {q}, pc'[x] = "created" PROVE journal'[x].dst # journal[q].dst
    <3>1. CASE x = s
      BY <2>2, <2>5, <3>1, Creating
    <3>2. CASE x # s
      BY <2>1, <2>5, <3>2, OthersGoOn DEF CreatedIsFresh
    <3>. QED BY <3>1, <3>2
  <2>. QED BY <2>1, <2>3, <2>4, <2>5
<1>. QED BY <1>1, <1>2 DEF CreatedIsFresh

\* A copy that was retired to and is hidden is the one its move works on.
LEMMA HeirsAreOfTheirMove ==
  ASSUME MoveInvariant, MarkersBelong, NEW s \in Roots, journal[s] # NoJournal,
         PendingFor(marker[journal[s].dst], journal[s]), NEW q \in Roots, Heir(q, journal[s].dst)
  PROVE  q = s
<1>1. marker[q] # NoMarker /\ marker[q].id = journal[s].id /\ q # journal[s].dst
  BY MarkerFields DEF Heir, PendingFor, Belongs
<1>. QED BY <1>1 DEF MarkersBelong

\* A copying command and where it copies to.
LEMMA CopyStepMoves ==
  ASSUME MoveInvariant, NEW s \in Roots, CopyStep(s)
  PROVE  /\ journal[s] # NoJournal /\ journal[s].dst \in Roots \ {s}
         /\ s \in leased /\ pc[journal[s].dst] = "idle"
         /\ PendingFor(marker[journal[s].dst], journal[s]) /\ Hidden(journal[s].dst)
<1>1. TypeOK /\ Commands /\ Exclusion /\ Gates
  BY InvariantParts
<1>2. journal[s] # NoJournal /\ journal[s].dst # s /\ s \in leased
  BY <1>1 DEF CopyStep, Commands, StepsHaveAJournal, DestinationsDiffer, StepsHoldLeases,
     Starting, LockedSteps, CopySteps
<1>3. PendingFor(marker[journal[s].dst], journal[s])
  BY <1>1 DEF CopyStep, Gates, CopiesAreGated, CopySteps
<1>. QED BY <1>1, <1>2, <1>3, JournalFields
     DEF Exclusion, LeasedRootsAreIdle, PendingFor, Belongs, Hidden

\* A command comes to have checked copies by checking them.
LEMMA Checking ==
  ASSUME MoveInvariant, NEW s \in Roots, MoveStep(s), pc'[s] \in CheckedSteps, pc[s] \notin CheckedSteps
  PROVE  Agree(s, journal[s].dst) /\ UNCHANGED <<files, settings, journal>>
<1>a. pc \in [Roots -> Steps]
  BY InvariantParts DEF TypeOK, CommandTypes
<1>1. CheckCopies(s)
  BY <1>a DEF MoveStep, Command, Step, Create, Continue, Abort, StartMove, ResumeMove, AbortMove,
     OpenExclusive, Goto, Return, ArchiveJournal, CreateJournal, EnsureActivity, AbortRecord,
     RecordActivity,
     GateSource, MakeDestination, LockCreated, LockReused, AdmitDestination, CopyFile, CopyDatabase,
     WriteReceipt, JournalVerified, RetireSource, JournalPublished, ActivateDestination,
     FinishMove, FinishActivity, JournalComplete, AbortLock, AbortFail,
     JournalAborted, UngateSource, Crash, CheckedSteps
<1>. QED BY <1>a, <1>1
     DEF CheckCopies, Goto, Return, CheckedSteps, DestinationAsPlanned, SourceAsPlanned, Agree

\* Checked copies stay true to their source.
LEMMA CheckedCopiesStayTrue ==
  ASSUME MoveInvariant, CheckedCopiesAgree, NEW s \in Roots, MoveStep(s)
  PROVE  CheckedCopiesAgree'
<1>a. TypeOK /\ Commands /\ Exclusion
  BY InvariantParts
<1>1. ASSUME NEW q \in Roots, pc[q] \in CheckedSteps, CopyStep(s)
      PROVE  q # s /\ journal[s].dst \notin {q, journal[q].dst}
  <2>1. q # s /\ q \in leased
    BY <1>a, <1>1 DEF CopyStep, CheckedSteps, Commands, StepsHoldLeases, LockedSteps, CopySteps
  <2>. QED BY <1>a, <1>1, <2>1, CopyStepMoves DEF Exclusion, LeasesExclude, CheckedSteps
<1>2. ASSUME NEW q \in Roots, pc[q] \in CheckedSteps PROVE Agree(q, journal[q].dst)'
  <2>1. journal'[q].dst = journal[q].dst /\ journal[q].dst \in Roots
    BY <1>a, <1>2, OthersGoOn, MoveStepsAreLocal, JournalFields
       DEF LocalStep, CheckedSteps, Starting, Commands, StepsHaveAJournal
  <2>2. Agree(q, journal[q].dst)
    BY <1>2 DEF CheckedCopiesAgree
  <2>3. UNCHANGED <<files, settings>> \/ CopyStep(s)
    BY <1>a, CopyingSteps
  <2>. QED BY <1>1, <1>2, <2>1, <2>2, <2>3 DEF Agree, CopyStep
<1>3. ASSUME NEW q \in Roots, pc'[q] \in CheckedSteps, pc[q] \notin CheckedSteps
      PROVE  Agree(q, journal[q].dst)'
  <2>1. q = s
    BY <1>3, OthersGoOn
  <2>. QED BY <1>3, <2>1, Checking DEF Agree
<1>. QED BY <1>2, <1>3 DEF CheckedCopiesAgree

\* The copy a root was retired to stays true to it until it is opened.
LEMMA HeirsStayTrue ==
  ASSUME MoveInvariant, MarkersBelong, CreatedIsFresh, CheckedCopiesAgree, HeirsAgree,
         NEW s \in Roots, MoveStep(s)
  PROVE  HeirsAgree'
<1>a. TypeOK /\ Commands /\ Gates
  BY InvariantParts
<1>. SUFFICES ASSUME NEW q \in Roots, NEW d \in Roots, Heir(q, d)' PROVE Agree(q, d)'
  BY DEF HeirsAgree
<1>1. CASE MarkerStep(s)
  <2>1. UNCHANGED <<files, settings, journal>>
    BY <1>1 DEF MarkerStep
  <2>2. CASE Heir(q, d)
    BY <2>1, <2>2 DEF HeirsAgree, Agree
  <2>3. CASE ~Heir(q, d)
    <3>1. ~SourceGated(s) /\ ~SourceUngated(s) /\ ~DestinationOpened(s)
      BY <1>1, <2>3, MarkerStepMoves, MarkerStepWrites, MarkerFields DEF Heir, Hidden
    <3>2. ~DestinationGated(s)
      <4>. SUFFICES ASSUME DestinationGated(s) PROVE FALSE
        OBVIOUS
      <4>1. q # journal[s].dst /\ marker'[q] = marker[q]
        BY <1>1, MarkerStepMoves, MarkerStepWrites, MarkerFields DEF Heir, Hidden
      <4>2. d = journal[s].dst
        BY <1>1, <2>3, <4>1, MarkerStepMoves, MarkerStepWrites, MarkerFields DEF Heir, Hidden
      <4>. QED BY <4>1, <4>2 DEF DestinationGated, CreatedIsFresh, Heir
    <3>3. SourceRetired(s)
      BY <1>1, <3>1, <3>2 DEF MarkerStep
    <3>4. q = s /\ d = journal[s].dst
      BY <1>1, <2>3, <3>3, MarkerStepMoves, MarkerStepWrites, MarkerFields DEF Heir, Hidden
    <3>5. Agree(s, journal[s].dst)
      BY <3>3 DEF SourceRetired, CheckedCopiesAgree, CheckedSteps
    <3>. QED BY <2>1, <3>4, <3>5 DEF Agree
  <2>. QED BY <2>2, <2>3
<1>2. CASE UNCHANGED marker
  <2>1. Heir(q, d) /\ Agree(q, d)
    BY <1>2 DEF Heir, Hidden, HeirsAgree
  <2>2. CASE UNCHANGED <<files, settings>>
    BY <2>1, <2>2 DEF Agree
  <2>3. CASE CopyStep(s)
    <3>1. q # journal[s].dst
      BY <2>1, <2>3, CopyStepMoves DEF Heir, Hidden
    <3>2. d = journal[s].dst => q = s
      BY <2>1, <2>3, CopyStepMoves, HeirsAreOfTheirMove
    <3>. QED BY <2>1, <2>3, <3>1, <3>2 DEF CopyStep, Agree
  <2>. QED BY <1>a, <2>2, <2>3, CopyingSteps
<1>. QED BY <1>a, <1>1, <1>2, MarkerSteps

\* Clients and edits leave the saves of a marked root alone.
LEMMA UserStepsLeaveMarkedRoots ==
  ASSUME TypeOK, OpenRootsAreUngated, UserStep
  PROVE  /\ UNCHANGED <<marker, journal, pc, archived, leased>> /\ dirs \subseteq dirs'
         /\ \A r \in Roots : marker[r] # NoMarker =>
              /\ files'[r] \cap Saves = files[r] \cap Saves
              /\ settings'[r] \cap Saves = settings[r] \cap Saves
<1>a. files \in [Roots -> SUBSET Data] /\ settings \in [Roots -> SUBSET Data]
      /\ client \in [Clients -> Visit \cup {Gone}]
  BY DEF TypeOK, DiskTypes, UserTypes
<1>1. UNCHANGED <<marker, journal, pc, archived, leased>> /\ dirs \subseteq dirs'
  BY DEF UserStep, ClientStep, Stay, Arrive, LockShared, OpenTarget, Write, Delete, Close, Edit
<1>2. ASSUME NEW c \in Clients, NEW v \in Saves, Write(c, v) \/ Delete(c, v),
             NEW r \in Roots, marker[r] # NoMarker
      PROVE  files'[r] = files[r] /\ settings'[r] = settings[r]
  <2>1. r # client[c].at
    BY <1>2 DEF Write, Delete, OpenRootsAreUngated, Writable
  <2>. QED BY <1>a, <1>2, <2>1 DEF Write, Delete
<1>3. ASSUME NEW x \in Roots, NEW v \in Edits, Edit(x, v), NEW r \in Roots
      PROVE  files'[r] \cap Saves = files[r] \cap Saves /\ settings'[r] = settings[r]
  BY <1>a, <1>3, EditsAreForeign DEF Edit
<1>4. UNCHANGED <<files, settings>> \/ (\E c \in Clients, v \in Saves : Write(c, v) \/ Delete(c, v))
        \/ (\E x \in Roots, v \in Edits : Edit(x, v))
  BY DEF UserStep, ClientStep, Stay, Arrive, LockShared, OpenTarget, Initialize, Close
<1>. QED BY <1>1, <1>2, <1>3, <1>4

\* Users keep marks, copies and heirs: they work on unmarked roots only.
LEMMA UserStepsKeepCopies ==
  ASSUME MoveInvariant, OpenRootsAreUngated, CopiesInvariant, UserStep
  PROVE  CopiesInvariant'
<1>a. TypeOK /\ Commands /\ Gates
  BY InvariantParts
<1>1. /\ UNCHANGED <<marker, journal, pc, archived>> /\ dirs \subseteq dirs'
      /\ \A r \in Roots : marker[r] # NoMarker =>
           /\ files'[r] \cap Saves = files[r] \cap Saves
           /\ settings'[r] \cap Saves = settings[r] \cap Saves
  BY <1>a, UserStepsLeaveMarkedRoots
<1>2. MarkersBelong' /\ MarkedRootsExist' /\ CreatedIsFresh'
  BY <1>1 DEF CopiesInvariant, MarkersBelong, UsedIds, MarkedRootsExist, Hidden, CreatedIsFresh
<1>3. \A q \in Roots : pc[q] \in CheckedSteps =>
         /\ journal[q].dst \in Roots /\ marker[q] # NoMarker /\ marker[journal[q].dst] # NoMarker
  BY <1>a, JournalFields
     DEF CheckedSteps, Commands, StepsHaveAJournal, Starting, Gates, SourcesAreGated, CopiesAreGated,
         LockedSteps, CopySteps, PendingFor, Belongs
<1>4. CheckedCopiesAgree'
  BY <1>1, <1>3 DEF CopiesInvariant, CheckedCopiesAgree, Agree
<1>5. \A q, d \in Roots : Heir(q, d) => marker[q] # NoMarker /\ marker[d] # NoMarker
  BY MarkerFields DEF Heir, Hidden
<1>6. HeirsAgree'
  <2>. SUFFICES ASSUME NEW q \in Roots, NEW d \in Roots, Heir(q, d)' PROVE Agree(q, d)'
    BY DEF HeirsAgree
  <2>1. Heir(q, d) /\ Agree(q, d)
    BY <1>1 DEF Heir, Hidden, CopiesInvariant, HeirsAgree
  <2>. QED BY <1>1, <1>5, <2>1 DEF Agree
<1>. QED BY <1>2, <1>4, <1>6 DEF CopiesInvariant

\* Marks, copies and heirs are kept by every step.
LEMMA CopiesAreKept ==
  MoveInvariant /\ OpenInvariant /\ CopiesInvariant /\ [Next]_vars => CopiesInvariant'
<1>. SUFFICES ASSUME MoveInvariant, OpenInvariant, CopiesInvariant, [Next]_vars PROVE CopiesInvariant'
  OBVIOUS
<1>1. ASSUME NEW s \in Roots, MoveStep(s) PROVE CopiesInvariant'
  BY <1>1, MarkersKeepBelonging, MarkedRootsKeepExisting, CreatedStaysFresh, CheckedCopiesStayTrue,
     HeirsStayTrue
     DEF CopiesInvariant, OpenInvariant
<1>2. CASE UserStep
  BY <1>2, UserStepsKeepCopies DEF OpenInvariant
<1>3. CASE UNCHANGED vars
  <2>1. UNCHANGED <<marker, journal, pc, archived, files, settings, dirs>>
    BY <1>3 DEF vars
  <2>. QED BY <2>1
       DEF CopiesInvariant, MarkersBelong, UsedIds, MarkedRootsExist, Hidden, CreatedIsFresh,
           CheckedCopiesAgree, HeirsAgree, Heir, Agree
<1>. QED BY <1>1, <1>2, <1>3 DEF Next, MoveStep, UserStep

\* No root is marked at the start.
LEMMA CopiesStart == Init => CopiesInvariant
BY MarkerFields DEF Init, CopiesInvariant, MarkersBelong, MarkedRootsExist, Hidden, CreatedIsFresh,
   CheckedCopiesAgree, CheckedSteps, HeirsAgree, Heir

\* The invariant of copies holds in every reachable state.
LEMMA CopiesInvariantHolds == Spec => []CopiesInvariant
BY CopiesStart, CopiesAreKept, MoveInvariantHolds, OpenInvariantHolds, PTL DEF Spec

(******************************* One home **********************************)

\* Where an open of r is led next.
Forward(r) == IF marker[r].state = "moved" THEN marker[r].dst ELSE r

\* At the start no library has moved.
LEMMA HomeStarts == Init => Home!Init
BY MarkerFields DEF Init, Home!Init, HiddenRoots, Holdings

\* A step that changes no marker and no save that can be seen moves nothing.
LEMMA HomeStutters ==
  ASSUME UNCHANGED marker,
         \A r \in Roots : Hidden(r) \/ Holdings(r)' \cap Saves = Holdings(r) \cap Saves
  PROVE  UNCHANGED Home!vars
<1>1. UNCHANGED HiddenRoots
  BY DEF HiddenRoots
<1>2. \A r \in Roots : r \in HiddenRoots <=> Hidden(r)
  BY DEF HiddenRoots, Hidden
<1>. QED BY <1>1, <1>2 DEF Home!vars

\* Copies keep to the hidden destination: nobody sees them.
LEMMA CopyingIsHidden ==
  ASSUME MoveInvariant, NEW s \in Roots, MoveStep(s), UNCHANGED marker
  PROVE  UNCHANGED Home!vars
<1>1. UNCHANGED <<files, settings>> \/ CopyStep(s)
  BY InvariantParts, CopyingSteps
<1>. QED BY <1>1, CopyStepMoves, HomeStutters DEF CopyStep, Holdings

\* What the gates and the retirement of a move are to a library's home.
LEMMA MarkerStepsMoveHome ==
  ASSUME MoveInvariant, CopiesInvariant, NEW s \in Roots, MarkerStep(s)
  PROVE  Home!Next \/ UNCHANGED Home!vars
<1> USE DEF Forward
<1>a. /\ journal[s].dst \in Roots \ {s}
      /\ UNCHANGED <<files, settings, journal>>
      /\ marker \in [Roots -> Marker \cup {NoMarker}]
  BY MarkerStepMoves DEF MarkerStep
<1>b. \A r \in Roots : Holdings(r)' = Holdings(r)
  BY <1>a DEF Holdings
<1>1. CASE SourceGated(s)
  <2>1. HiddenRoots' = HiddenRoots
    BY <1>a, <1>1, MarkerStepWrites, MarkerFields DEF HiddenRoots, SourceGated
  <2>2. \A r \in Roots : Forward(r)' = Forward(r)
    BY <1>a, <1>1, MarkerStepWrites, MarkerFields DEF SourceGated
  <2>. QED BY <1>b, <2>1, <2>2 DEF Home!vars
<1>2. CASE SourceUngated(s)
  <2>1. ~Hidden(s)
    BY <1>a, <1>2, MarkerStepMoves, MarkerFields
       DEF SourceUngated, MayUngate, Hidden, CopiesInvariant, MarkersBelong
  <2>2. HiddenRoots' = HiddenRoots
    BY <1>a, <1>2, <2>1, MarkerStepWrites, MarkerFields DEF HiddenRoots, Hidden
  <2>3. \A r \in Roots : Forward(r)' = Forward(r)
    BY <1>a, <1>2, MarkerStepWrites, MarkerFields DEF SourceUngated, MayUngate
  <2>. QED BY <1>b, <2>2, <2>3 DEF Home!vars
<1>3. CASE DestinationGated(s)
  <2>0. PICK d \in Roots : d = journal[s].dst
    BY <1>a
  <2>1. d \notin HiddenRoots /\ HiddenRoots' = HiddenRoots \cup {d}
    BY <2>0, <1>a, <1>3, MarkerStepWrites, MarkerFields DEF HiddenRoots, DestinationGated
  <2>2. \A r \in Roots : Forward(r)' = Forward(r)
    BY <2>0, <1>a, <1>3, MarkerStepWrites, MarkerFields DEF DestinationGated
  <2>3. \A q \in Roots : Forward(q) = d <=> q = d
    BY <2>0, <1>a, <1>3, MarkerFields DEF DestinationGated, CopiesInvariant, CreatedIsFresh
  <2>4. Home!Hide(d)
    BY <2>0, <1>a, <1>b, <2>1, <2>2, <2>3 DEF Home!Hide
  <2>. QED BY <2>0, <1>a, <2>4 DEF Home!Next
<1>4. CASE SourceRetired(s)
  <2>0. PICK d \in Roots : d = journal[s].dst
    BY <1>a
  <2>1. PendingFor(marker[d], journal[s]) /\ Belongs(marker[s], journal[s])
    BY <2>0, <1>4, MarkerStepMoves
  <2>2. d \in HiddenRoots /\ s \notin HiddenRoots /\ HiddenRoots' = HiddenRoots
    BY <2>0, <1>a, <1>4, <2>1, MarkerStepWrites, MarkerFields DEF HiddenRoots, PendingFor, Belongs
  <2>3. CASE marker[s].state = "moved"
    <3>1. \A r \in Roots : Forward(r)' = Forward(r)
      BY <2>0, <1>a, <1>4, <2>1, <2>3, MarkerStepWrites, MarkerFields DEF Belongs
    <3>. QED BY <2>0, <1>b, <2>2, <3>1 DEF Home!vars
  <2>4. CASE marker[s].state # "moved"
    <3>1. \A r \in Roots : Forward(r)' = IF r = s THEN d ELSE Forward(r)
      BY <2>0, <1>a, <1>4, MarkerStepWrites, MarkerFields
    <3>2. Home!Retire(s, d)
      BY <2>0, <1>a, <1>b, <2>2, <2>4, <3>1 DEF Home!Retire
    <3>. QED BY <2>0, <1>a, <3>2 DEF Home!Next
  <2>. QED BY <2>3, <2>4
<1>5. CASE DestinationOpened(s)
  <2>0. PICK d \in Roots : d = journal[s].dst
    BY <1>a
  <2>1. PendingFor(marker[d], journal[s]) /\ marker[s] = AuthorityOf(journal[s], "moved")
    BY <2>0, <1>5, MarkerStepMoves, InvariantParts DEF DestinationOpened, Gates, RetiredBeforePublished
  <2>2. d \in HiddenRoots /\ s \notin HiddenRoots /\ HiddenRoots' = HiddenRoots \ {d}
    BY <2>0, <1>a, <1>5, <2>1, MarkerStepWrites, MarkerFields DEF HiddenRoots, PendingFor, Belongs
  <2>3. \A r \in Roots : Forward(r)' = Forward(r)
    BY <2>0, <1>a, <1>5, <2>1, MarkerStepWrites, MarkerFields DEF PendingFor
  <2>4. Holdings(d) \cap Saves = Holdings(s) \cap Saves
    <3>1. Heir(s, d)
      BY <2>0, <1>a, <2>1, MarkerFields DEF Heir, Hidden, PendingFor, Belongs
    <3>. QED BY <2>0, <1>a, <3>1 DEF CopiesInvariant, HeirsAgree, Agree, Holdings
  <2>5. Forward(s) = d
    BY <2>0, <2>1, MarkerFields
  <2>6. Home!Reveal(d)
    <3>. DEFINE content == [q \in Roots |-> IF q \in HiddenRoots THEN {} ELSE Holdings(q) \cap Saves]
                forward == [q \in Roots |-> IF marker[q].state = "moved" THEN marker[q].dst ELSE q]
    <3>1. \A q \in Roots : (IF q \in HiddenRoots' THEN {} ELSE Holdings(q)' \cap Saves)
            = IF q = d THEN (IF s \in HiddenRoots THEN {} ELSE Holdings(s) \cap Saves)
              ELSE (IF q \in HiddenRoots THEN {} ELSE Holdings(q) \cap Saves)
      BY <1>b, <2>2, <2>4
    <3>2. content' = [content EXCEPT ![d] = content[s]]
      BY <3>1
    <3>3. forward[s] = d
      BY <2>5
    <3>4. s \in Roots \ {d}
      BY <1>a, <2>0
    <3>5. UNCHANGED forward
      BY <2>3
    <3>. QED BY <2>2, <3>2, <3>3, <3>4, <3>5, Zenon DEF Home!Reveal
  <2>. QED BY <2>0, <1>a, <2>6 DEF Home!Next
<1>. QED BY <1>1, <1>2, <1>3, <1>4, <1>5 DEF MarkerStep

\* What clients do to a library's home.
LEMMA UserStepsChangeHome ==
  ASSUME MoveInvariant, OpenInvariant, UserStep
  PROVE  Home!Next \/ UNCHANGED Home!vars
<1>a. /\ files \in [Roots -> SUBSET Data] /\ settings \in [Roots -> SUBSET Data]
      /\ client \in [Clients -> Visit \cup {Gone}]
  BY InvariantParts DEF TypeOK, DiskTypes, UserTypes
<1>b. UNCHANGED marker /\ UNCHANGED HiddenRoots
  BY DEF UserStep, ClientStep, Stay, Arrive, LockShared, OpenTarget, Write, Delete, Close, Edit,
     HiddenRoots
<1>c. ASSUME NEW c \in Clients, client[c].pc = "open"
      PROVE  client[c].at \in Roots \ HiddenRoots /\ marker[client[c].at].state # "moved"
  BY <1>a, <1>c, MarkerFields DEF OpenInvariant, OpenRootsAreUngated, Writable, HiddenRoots, Visit, Gone
<1>1. ASSUME NEW c \in Clients, NEW v \in Saves, Write(c, v) PROVE Home!Next
  <2>0. PICK r \in Roots : r = client[c].at
    BY <1>c, <1>1 DEF Write
  <2>1. \A q \in Roots : Holdings(q)' = IF q = r THEN Holdings(r) \cup {v} ELSE Holdings(q)
    BY <2>0, <1>a, <1>1, <1>c DEF Write, Holdings
  <2>2. v \notin Holdings(r) /\ client[c].pc = "open"
    BY <2>0, <1>1, <1>c DEF Write
  <2>3. Home!Write(r)
    <3>. DEFINE content == [q \in Roots |-> IF q \in HiddenRoots THEN {} ELSE Holdings(q) \cap Saves]
                forward == [q \in Roots |-> IF marker[q].state = "moved" THEN marker[q].dst ELSE q]
    <3>1. v \in Saves \ content[r]
      BY <2>2
    <3>2. \A q \in Roots : (IF q \in HiddenRoots' THEN {} ELSE Holdings(q)' \cap Saves)
            = IF q = r THEN (IF r \in HiddenRoots THEN {} ELSE Holdings(r) \cap Saves) \cup {v}
              ELSE (IF q \in HiddenRoots THEN {} ELSE Holdings(q) \cap Saves)
      BY <2>0, <1>b, <1>c, <2>1, <2>2
    <3>3. /\ forward[r] = r
          /\ r \notin HiddenRoots
          /\ content' = [content EXCEPT ![r] = content[r] \cup {v}]
          /\ forward' = forward
          /\ HiddenRoots' = HiddenRoots
      BY <2>0, <1>b, <1>c, <2>2, <3>2
    <3>. QED BY <3>1, <3>3, Zenon DEF Home!Write, Home!Change
  <2>. QED BY <2>0, <1>c, <2>2, <2>3 DEF Home!Next
<1>2. ASSUME NEW c \in Clients, NEW v \in Saves, Delete(c, v) PROVE Home!Next
  <2>0. PICK r \in Roots : r = client[c].at
    BY <1>c, <1>2 DEF Delete
  <2>1. \A q \in Roots : Holdings(q)' = IF q = r THEN Holdings(r) \ {v} ELSE Holdings(q)
    BY <2>0, <1>a, <1>2, <1>c DEF Delete, Holdings
  <2>2. v \in Holdings(r) /\ client[c].pc = "open"
    BY <2>0, <1>2, <1>c DEF Delete
  <2>3. Home!Delete(r)
    BY <2>0, <1>b, <1>c, <2>1, <2>2 DEF Home!Delete, Home!Change
  <2>. QED BY <2>0, <1>c, <2>2, <2>3 DEF Home!Next
<1>3. ASSUME NEW x \in Roots, NEW v \in Edits, Edit(x, v) PROVE UNCHANGED Home!vars
  <2>1. \A r \in Roots : Holdings(r)' \cap Saves = Holdings(r) \cap Saves
    BY <1>a, <1>3, EditsAreForeign DEF Edit, Holdings
  <2>. QED BY <1>b, <2>1, HomeStutters
<1>4. CASE UNCHANGED <<files, settings>>
  BY <1>b, <1>4, HomeStutters DEF Holdings
<1>5. UNCHANGED <<files, settings>> \/ (\E c \in Clients, v \in Saves : Write(c, v) \/ Delete(c, v))
        \/ (\E x \in Roots, v \in Edits : Edit(x, v))
  BY DEF UserStep, ClientStep, Stay, Arrive, LockShared, OpenTarget, Initialize, Close
<1>. QED BY <1>1, <1>2, <1>3, <1>4, <1>5

\* Moves, crashes and clients implement LibraryHome: a library can be changed at
\* one root only, and a move forwards its old root for good to one that appears
\* with exactly its saves (the marker order of continue_move, and open_target).
THEOREM MovesKeepOneHome == Spec => LibrariesHaveOneHome
<1>1. MoveInvariant /\ OpenInvariant /\ CopiesInvariant /\ [Next]_vars => [Home!Next]_Home!vars
  <2>. SUFFICES ASSUME MoveInvariant, OpenInvariant, CopiesInvariant, [Next]_vars
                PROVE  Home!Next \/ UNCHANGED Home!vars
    OBVIOUS
  <2>1. ASSUME NEW s \in Roots, MoveStep(s) PROVE Home!Next \/ UNCHANGED Home!vars
    BY <2>1, InvariantParts, MarkerSteps, CopyingIsHidden, MarkerStepsMoveHome
  <2>2. CASE UNCHANGED vars
    BY <2>2, HomeStutters DEF vars, Holdings
  <2>. QED BY <2>1, <2>2, UserStepsChangeHome DEF Next, MoveStep, UserStep
<1>. QED BY <1>1, HomeStarts, MoveInvariantHolds, OpenInvariantHolds, CopiesInvariantHolds, PTL
      DEF Spec, LibrariesHaveOneHome, Home!Spec

\* r is in every set of roots that q is in and that no open leaves.
Closed(S) == \A x \in S : Forward(x) \in S
Reaches(q, r) == \A S \in SUBSET Roots : q \in S /\ Closed(S) => r \in S

\* An open that was led away from the root it asked for came the way the
\* markers show.
ClientsFollowMarkers ==
  \A c \in Clients : client[c].pc # "idle" => Reaches(client[c].asked, client[c].at)

\* What is in the library at a root counts: it can be opened there, now or
\* when a move is over.
Current(r) ==
  marker[r].state # "moved" /\ (Hidden(r) => \E s \in Roots : Heir(s, r))

SavesHaveOneHome ==
  \A v \in Saves, q, r \in Roots :
    Current(q) /\ Current(r) /\ v \in Holdings(q) /\ v \in Holdings(r) => q = r

AckedAreHeld ==
  \A q \in Roots : \A v \in acked[q] : \E r \in Roots :
    marker[r].state # "moved" /\ Reaches(q, r) /\ v \in Holdings(r)

HeldAreAcked ==
  \A r \in Roots : Current(r) =>
    \A v \in Holdings(r) \cap Saves : \E q \in Roots : v \in acked[q]

SettingsHaveADatabase ==
  /\ \A r \in Roots : settings[r] # {} => r \in dbs
  /\ \A c \in Clients : client[c].pc = "open" => client[c].at \in dbs

SavesInvariant ==
  /\ ClientsFollowMarkers /\ SavesHaveOneHome /\ AckedAreHeld /\ HeldAreAcked
  /\ SettingsHaveADatabase

\* A step changes no root that leads on.
ForwardGrows == \A r \in Roots : Forward(r)' = Forward(r) \/ Forward(r) = r

\* A retired root leads to the same root for good.
LEMMA RetiredRootsStayRetired ==
  ASSUME MoveInvariant, CopiesInvariant, NEW s \in Roots, MoveStep(s),
         NEW r \in Roots, marker[r].state = "moved"
  PROVE  /\ marker'[r].state = "moved"
         /\ marker'[r].dst = marker[r].dst /\ marker'[r].id = marker[r].id
<1>1. CASE UNCHANGED marker
  BY <1>1
<1>2. CASE MarkerStep(s)
  <2>1. CASE SourceGated(s) \/ SourceUngated(s)
    <3>1. r # s
      BY <2>1, MarkerFields DEF SourceGated, SourceUngated, MayUngate
    <3>. QED BY <1>2, <2>1, <3>1, MarkerStepWrites
  <2>2. CASE DestinationGated(s) \/ DestinationOpened(s)
    <3>1. r # journal[s].dst
      BY <2>2, MarkerFields DEF DestinationGated, DestinationOpened, PendingFor
    <3>. QED BY <1>2, <2>2, <3>1, MarkerStepWrites
  <2>3. CASE SourceRetired(s)
    <3>1. Belongs(marker[s], journal[s])
      BY <1>2, <2>3, MarkerStepMoves
    <3>. QED BY <1>2, <2>3, <3>1, MarkerStepWrites, MarkerFields DEF Belongs
  <2>. QED BY <1>2, <2>1, <2>2, <2>3 DEF MarkerStep
<1>. QED BY <1>1, <1>2, InvariantParts, MarkerSteps

\* Retiring a source is all that changes where an open is led.
LEMMA ForwardKeepsGrowing ==
  ASSUME MoveInvariant, CopiesInvariant, NEW s \in Roots, MoveStep(s)
  PROVE  ForwardGrows
BY RetiredRootsStayRetired DEF ForwardGrows, Forward

\* An open that can be led somewhere still can be.
LEMMA ReachesGrow ==
  ASSUME ForwardGrows, NEW q, NEW r, Reaches(q, r)
  PROVE  Reaches(q, r)'
<1>. SUFFICES ASSUME NEW S \in SUBSET Roots, q \in S, Closed(S)' PROVE r \in S
  BY DEF Reaches
<1>1. Closed(S)
  BY DEF Closed, ForwardGrows
<1>. QED BY <1>1 DEF Reaches

\* An open is led one step further.
LEMMA ReachesForward ==
  ASSUME NEW q, NEW r, Reaches(q, r)
  PROVE  Reaches(q, Forward(r))
BY DEF Reaches, Closed

\* Where an open comes to rest depends only on where it started.
LEMMA ReachesOneEnd ==
  ASSUME TypeOK, NEW q \in Roots, NEW a \in Roots, NEW b \in Roots,
         Forward(a) = a, Forward(b) = b, Reaches(q, a), Reaches(q, b)
  PROVE  a = b
<1>1. \A x \in Roots : Forward(x) \in Roots
  BY DEF Forward, TypeOK, DiskTypes, Marker, NoMarker
<1>. DEFINE S == {x \in Roots : Reaches(x, a)}
<1>2. ASSUME NEW x \in S PROVE Forward(x) \in S
  <2>1. CASE x = a
    BY <2>1
  <2>2. CASE x # a
    <3>. SUFFICES ASSUME NEW T \in SUBSET Roots, Forward(x) \in T, Closed(T) PROVE a \in T
      BY <1>1 DEF Reaches
    <3>1. Closed(T \cup {x})
      BY DEF Closed
    <3>2. a \in T \cup {x}
      BY <3>1 DEF Reaches
    <3>. QED BY <2>2, <3>2
  <2>. QED BY <2>1, <2>2
<1>3. q \in S /\ Closed(S)
  BY <1>2 DEF Closed
<1>4. b \in S
  BY <1>3 DEF Reaches
<1>5. Closed({b})
  BY DEF Closed
<1>. QED BY <1>4, <1>5 DEF Reaches

\* Clients keep to the way the markers show.
LEMMA ClientsKeepFollowing ==
  ASSUME MoveInvariant, OpenInvariant, CopiesInvariant, ClientsFollowMarkers, [Next]_vars
  PROVE  ClientsFollowMarkers'
<1>a. client \in [Clients -> Visit \cup {Gone}]
  BY InvariantParts DEF TypeOK, UserTypes
<1>b. \A c \in Clients : client[c].pc # "idle" => client[c] \in Visit
  BY <1>a DEF Gone
<1>1. ASSUME NEW s \in Roots, MoveStep(s) PROVE ClientsFollowMarkers'
  BY <1>1, MoveStepsLeaveClients, ForwardKeepsGrowing, ReachesGrow DEF ClientsFollowMarkers
<1>2. ASSUME UserStep \/ UNCHANGED vars PROVE ForwardGrows
  <2>1. UNCHANGED marker
    BY <1>2
       DEF UserStep, vars, ClientStep, Stay, Arrive, LockShared, OpenTarget, Write, Delete, Close, Edit
  <2>. QED BY <2>1 DEF ForwardGrows, Forward
<1>3. CASE UNCHANGED client /\ (UserStep \/ UNCHANGED vars)
  BY <1>2, <1>3, ReachesGrow DEF ClientsFollowMarkers
<1>4. ASSUME NEW c \in Clients, ForwardGrows,
             \/ Close(c) \/ LockShared(c) \/ OpenTarget(c)
             \/ \E r \in Roots : Arrive(c, r)
      PROVE  ClientsFollowMarkers'
  <2>1. \A e \in Clients \ {c} : client'[e] = client[e]
    BY <1>a, <1>4 DEF Close, LockShared, OpenTarget, Arrive
  <2>2. \/ client'[c].pc = "idle"
        \/ client'[c].asked = client[c].asked /\ client'[c].at = client[c].at /\ client[c].pc # "idle"
        \/ /\ client'[c].asked = client[c].asked /\ client'[c].at = Forward(client[c].at)
           /\ client[c].pc # "idle"
        \/ client'[c].at = client'[c].asked
    <3>1. CASE Close(c)
      BY <1>a, <3>1 DEF Close, Gone
    <3>2. CASE LockShared(c)
      BY <1>a, <3>2 DEF LockShared, Gone
    <3>3. CASE \E r \in Roots : Arrive(c, r)
      BY <1>a, <3>3 DEF Arrive
    <3>4. CASE OpenTarget(c)
      <4>1. client[c] \in Visit /\ client[c].pc = "leased"
        BY <1>b, <3>4 DEF OpenTarget
      <4>2. CASE client' = [client EXCEPT ![c].pc = "open"]
        BY <1>a, <4>1, <4>2
      <4>3. CASE client' = [client EXCEPT ![c] = Gone]
        BY <1>a, <4>3 DEF Gone
      <4>4. CASE /\ marker[client[c].at].state = "moved"
                 /\ client' = [client EXCEPT ![c].pc = "arriving", ![c].at = marker[client[c].at].dst]
        BY <1>a, <4>1, <4>4 DEF Forward
      <4>. QED BY <3>4, <4>2, <4>3, <4>4 DEF OpenTarget
    <3>. QED BY <1>4, <3>1, <3>2, <3>3, <3>4
  <2>3. \A q : Reaches(q, q)
    BY DEF Reaches
  <2>. QED BY <1>4, <2>1, <2>2, <2>3, ReachesGrow, ReachesForward DEF ClientsFollowMarkers
<1>5. UserStep => UNCHANGED client \/ \E c \in Clients :
        Close(c) \/ LockShared(c) \/ OpenTarget(c) \/ \E r \in Roots : Arrive(c, r)
  BY DEF UserStep, ClientStep, Stay, Write, Delete, Edit
<1>. QED BY <1>1, <1>2, <1>3, <1>4, <1>5 DEF Next, MoveStep, UserStep, vars

(***************************** Saves in a move *****************************)

Kept(r) == Holdings(r) \cap Saves

\* A step leaves every library where it is, with its saves ...
Stays == \A r \in Roots : Current(r)' => Current(r) /\ Kept(r)' = Kept(r)

\* ... or d takes the place of s, with the saves of s.
TakesOver(s, d) ==
  /\ Current(s) /\ ~Current(s)' /\ Kept(d)' = Kept(s)
  /\ \A r \in Roots \ {d} : Current(r)' => Current(r) /\ Kept(r)' = Kept(r)

\* Copying adds to no library but a hidden one, which ends as its source.
LEMMA CopyingStays ==
  ASSUME MoveInvariant, CopiesInvariant, CopiesInvariant', NEW s \in Roots, MoveStep(s),
         UNCHANGED marker
  PROVE  Stays
<1>1. \A r \in Roots : Current(r)' = Current(r)
  BY DEF Current, Heir, Hidden
<1>2. CASE UNCHANGED <<files, settings>>
  BY <1>1, <1>2 DEF Stays, Kept, Holdings
<1>3. CASE CopyStep(s)
  <2>0. PICK d \in Roots : d = journal[s].dst
    BY <1>3, CopyStepMoves
  <2>1. \A r \in Roots \ {d} : Kept(r)' = Kept(r)
    BY <2>0, <1>3 DEF CopyStep, Kept, Holdings
  <2>2. ASSUME Current(d) PROVE Kept(d)' = Kept(d)
    <3>1. Heir(s, d) /\ d \in Roots \ {s}
      BY <2>0, <1>3, <2>2, CopyStepMoves, HeirsAreOfTheirMove DEF Current, CopiesInvariant
    <3>2. Heir(s, d)'
      BY <1>3, <3>1 DEF Heir, Hidden, CopyStep
    <3>3. Agree(s, d) /\ Agree(s, d)'
      BY <3>1, <3>2 DEF CopiesInvariant, HeirsAgree
    <3>. QED BY <2>1, <3>1, <3>2, <3>3 DEF Agree, Kept, Holdings
  <2>. QED BY <2>0, <1>1, <2>1, <2>2 DEF Stays
<1>. QED BY <1>2, <1>3, InvariantParts, CopyingSteps

\* Gates, and the retirement of a source, move a library at most to its copy.
LEMMA MarkersStayOrTakeOver ==
  ASSUME MoveInvariant, CopiesInvariant, NEW s \in Roots, MarkerStep(s)
  PROVE  Stays \/ \E d \in Roots : d = journal[s].dst /\ SourceRetired(s) /\ TakesOver(s, d)
<1>d. PICK d \in Roots : d = journal[s].dst
  BY MarkerStepMoves
<1>a. /\ journal[s] # NoJournal /\ d \in Roots \ {s} /\ d = journal[s].dst
      /\ UNCHANGED <<files, settings, journal>>
  BY <1>d, MarkerStepMoves DEF MarkerStep
<1>b. \A r \in Roots : Kept(r)' = Kept(r)
  BY <1>a DEF Kept, Holdings
<1>1. CASE SourceGated(s) \/ SourceUngated(s)
  <2>1. ~Hidden(s) /\ ~Hidden(s)' /\ marker[s].state # "moved" /\ marker'[s].state # "moved"
    <3>1. CASE SourceGated(s)
      <4>1. marker[s] = NoMarker /\ marker'[s] = AuthorityOf(journal[s], "pending")
        BY <3>1, MarkerStepWrites DEF SourceGated
      <4>. QED BY <1>a, <4>1, MarkerFields DEF Hidden
    <3>2. CASE SourceUngated(s)
      <4>1. marker'[s] = NoMarker /\ marker[s].state = "pending" /\ marker[s].id = journal[s].id
        BY <3>2, MarkerStepWrites DEF SourceUngated, MayUngate
      <4>2. marker[s].dst = d
        BY <1>a, <4>1, MarkerFields DEF CopiesInvariant, MarkersBelong
      <4>. QED BY <1>a, <4>1, <4>2, MarkerFields DEF Hidden
    <3>. QED BY <1>1, <3>1, <3>2
  <2>2. \A r \in Roots \ {s} : marker'[r] = marker[r]
    BY <1>a, <1>1, MarkerStepWrites
  <2>3. \A r \in Roots : Hidden(r)' = Hidden(r)
    BY <2>1, <2>2 DEF Hidden
  <2>4. \A x, r \in Roots : Heir(x, r)' => Heir(x, r)
    BY <2>1, <2>2, <2>3 DEF Heir, Hidden
  <2>. QED BY <1>b, <2>1, <2>2, <2>3, <2>4 DEF Stays, Current
<1>2. CASE DestinationGated(s)
  <2>1. Hidden(d)' /\ marker[d].state # "moved"
    <3>1. marker[d] = NoMarker
      BY <1>a, <1>2 DEF DestinationGated
    <3>2. marker'[d] = AuthorityOf(journal[s], "pending")
      BY <1>a, <1>2, MarkerStepWrites
    <3>. QED BY <1>a, <3>1, <3>2, MarkerFields DEF Hidden
  <2>2. \A r \in Roots \ {d} : marker'[r] = marker[r]
    BY <1>a, <1>2, MarkerStepWrites
  <2>3. \A x \in Roots : ~Heir(x, d)'
    <3>. SUFFICES ASSUME NEW x \in Roots, Heir(x, d)' PROVE FALSE
      OBVIOUS
    <3>1. marker'[x].state = "moved" /\ marker'[x].dst = d
      BY <1>a DEF Heir
    <3>2. x # d
      BY <2>1, <3>1 DEF Hidden
    <3>. QED BY <1>a, <1>2, <2>2, <3>1, <3>2 DEF DestinationGated, CopiesInvariant, CreatedIsFresh
  <2>4. ~Current(d)'
    BY <1>a, <2>1, <2>3 DEF Current, Heir, Hidden
  <2>5. \A x \in Roots, r \in Roots \ {d} : Heir(x, r)' => Heir(x, r)
    BY <2>1, <2>2 DEF Heir, Hidden
  <2>. QED BY <1>b, <2>2, <2>4, <2>5 DEF Stays, Current, Hidden
<1>3. CASE DestinationOpened(s)
  <2>1. /\ marker[s] = AuthorityOf(journal[s], "moved")
        /\ PendingFor(marker[d], journal[s])
    BY <1>a, <1>3, MarkerStepMoves, InvariantParts DEF DestinationOpened, Gates, RetiredBeforePublished
  <2>2. Heir(s, d)
    BY <1>a, <2>1, MarkerFields DEF Heir, Hidden, PendingFor, Belongs
  <2>3. Current(d)
    BY <2>2 DEF Current, Heir, Hidden
  <2>4. marker'[d].state = "none"
    BY <1>a, <1>3, MarkerStepWrites, MarkerFields
  <2>5. \A r \in Roots \ {d} : marker'[r] = marker[r]
    BY <1>a, <1>3, MarkerStepWrites
  <2>6. \A x \in Roots, r \in Roots \ {d} : Heir(x, r)' => Heir(x, r)
    BY <2>4, <2>5 DEF Heir, Hidden
  <2>. QED BY <1>b, <2>3, <2>5, <2>6 DEF Stays, Current, Hidden
<1>4. CASE SourceRetired(s)
  <2>1. /\ PendingFor(marker[d], journal[s]) /\ Belongs(marker[s], journal[s])
        /\ marker'[s] = AuthorityOf(journal[s], "moved")
    BY <1>a, <1>4, MarkerStepMoves, MarkerStepWrites
  <2>2. \A r \in Roots \ {s} : marker'[r] = marker[r]
    BY <1>a, <1>4, MarkerStepWrites
  <2>3. ~Hidden(s) /\ \A r \in Roots : Hidden(r)' = Hidden(r)
    BY <1>a, <2>1, <2>2, MarkerFields DEF Hidden, Belongs
  <2>4. \A x, r \in Roots : r # d \/ x # s => (Heir(x, r)' => Heir(x, r))
    BY <1>a, <2>1, <2>2, <2>3, MarkerFields DEF Heir, Hidden
  <2>5. CASE marker[s].state = "moved"
    <3>1. Heir(s, d)
      BY <1>a, <2>1, <2>5, MarkerFields DEF Heir, Hidden, PendingFor, Belongs
    <3>2. \A x, r \in Roots : Heir(x, r)' => Heir(x, r)
      BY <2>4, <3>1
    <3>. QED BY <1>b, <2>1, <2>2, <2>3, <2>5, <3>2, MarkerFields DEF Stays, Current
  <2>6. CASE marker[s].state # "moved"
    <3>1. Current(s) /\ ~Current(s)'
      BY <2>1, <2>3, <2>6, MarkerFields DEF Current
    <3>2. Kept(d)' = Kept(s)
      BY <1>a, <1>b, <1>4
         DEF SourceRetired, CopiesInvariant, CheckedCopiesAgree, CheckedSteps, Agree, Kept, Holdings
    <3>3. \A r \in Roots \ {d} : Current(r)' => Current(r)
      BY <2>1, <2>2, <2>3, <2>4, <3>1 DEF Current
    <3>. QED BY <1>a, <1>b, <1>4, <3>1, <3>2, <3>3 DEF TakesOver
  <2>. QED BY <2>5, <2>6
<1>. QED BY <1>1, <1>2, <1>3, <1>4 DEF MarkerStep

\* Each step of a command leaves the libraries where they are, or retires one
\* to its copy.
LEMMA StepsStayOrTakeOver ==
  ASSUME MoveInvariant, CopiesInvariant, CopiesInvariant', NEW s \in Roots, MoveStep(s)
  PROVE  \/ Stays
         \/ \E d \in Roots : d = journal[s].dst /\ SourceRetired(s) /\ MarkerStep(s) /\ TakesOver(s, d)
BY InvariantParts, MarkerSteps, CopyingStays, MarkersStayOrTakeOver

\* A step of a command destroys nothing: a copied database is the first at
\* its root.
LEMMA HoldingsGrow ==
  ASSUME MoveInvariant, SettingsHaveADatabase, NEW s \in Roots, MoveStep(s), NEW r \in Roots
  PROVE  Holdings(r) \subseteq Holdings(r)'
<1>1. CASE UNCHANGED <<files, settings>>
  BY <1>1 DEF Holdings
<1>2. CASE CopyStep(s)
  BY <1>2 DEF CopyStep, Holdings, SettingsHaveADatabase
<1>. QED BY <1>1, <1>2, InvariantParts, CopyingSteps

\* Settings come with a database, and databases are never removed.
LEMMA MoveStepsKeepDatabases ==
  ASSUME MoveInvariant, SettingsHaveADatabase, NEW s \in Roots, MoveStep(s)
  PROVE  SettingsHaveADatabase'
<1>1. dbs \subseteq dbs' /\ UNCHANGED client
  BY MoveStepsAreLocal, MoveStepsLeaveClients DEF LocalStep
<1>2. ASSUME NEW r \in Roots, settings'[r] # {} PROVE r \in dbs'
  <2>1. CASE UNCHANGED settings
    BY <1>1, <1>2, <2>1 DEF SettingsHaveADatabase
  <2>2. CASE CopyStep(s)
    BY <1>1, <1>2, <2>2 DEF CopyStep, SettingsHaveADatabase
  <2>. QED BY <2>1, <2>2, InvariantParts, CopyingSteps
<1>. QED BY <1>1, <1>2 DEF SettingsHaveADatabase

\* A step of a command keeps every save in its one library.
LEMMA MoveStepsKeepOneHome ==
  ASSUME SavesHaveOneHome, NEW s \in Roots,
         Stays \/ \E d \in Roots : TakesOver(s, d)
  PROVE  SavesHaveOneHome'
<1>. SUFFICES ASSUME NEW v \in Saves, NEW q \in Roots, NEW r \in Roots,
                     Current(q)', Current(r)', v \in Kept(q)', v \in Kept(r)'
              PROVE  q = r
  BY DEF SavesHaveOneHome, Kept
<1>1. \A x, y \in Roots : Current(x) /\ Current(y) /\ v \in Kept(x) /\ v \in Kept(y) => x = y
  BY DEF SavesHaveOneHome, Kept
<1>2. CASE Stays
  BY <1>1, <1>2 DEF Stays
<1>3. CASE \E d \in Roots : TakesOver(s, d)
  <2>1. PICK d \in Roots : TakesOver(s, d)
    BY <1>3
  <2>. QED BY <1>1, <2>1 DEF TakesOver
<1>. QED BY <1>2, <1>3

\* A command brings no unacknowledged save into a library.
LEMMA MoveStepsKeepHeldAcked ==
  ASSUME HeldAreAcked, NEW s \in Roots, UNCHANGED acked,
         Stays \/ \E d \in Roots : TakesOver(s, d)
  PROVE  HeldAreAcked'
<1>. SUFFICES ASSUME NEW r \in Roots, Current(r)', NEW v \in Kept(r)'
              PROVE  \E q \in Roots : v \in acked[q]
  BY DEF HeldAreAcked, Kept
<1>1. \E x \in Roots : Current(x) /\ v \in Kept(x)
  BY DEF Stays, TakesOver
<1>. QED BY <1>1 DEF HeldAreAcked, Kept

\* No command writes or deletes a save for a client.
LEMMA MoveStepsLeaveAcked ==
  ASSUME NEW s \in Roots, MoveStep(s)
  PROVE  UNCHANGED acked
BY DEF MoveStep, Command, Step, Create, Continue, Abort, StartMove, ResumeMove, AbortMove,
   ArchiveJournal, CreateJournal, EnsureActivity, AbortRecord, RecordActivity, GateSource,
   MakeDestination, LockCreated, LockReused, AdmitDestination, CopyFile, CopyDatabase,
   CheckCopies, WriteReceipt, JournalVerified, RetireSource, JournalPublished,
   ActivateDestination, FinishMove, FinishActivity, JournalComplete, AbortLock, AbortFail,
   JournalAborted, UngateSource, Crash

\* An acknowledged save stays where its root leads.
LEMMA MoveStepsKeepAckedHeld ==
  ASSUME MoveInvariant, CopiesInvariant, SettingsHaveADatabase, AckedAreHeld,
         NEW s \in Roots, MoveStep(s)
  PROVE  AckedAreHeld'
<1>a. UNCHANGED acked /\ acked \in [Roots -> SUBSET Saves]
  BY MoveStepsLeaveAcked, InvariantParts DEF TypeOK, UserTypes
<1>b. ForwardGrows
  BY ForwardKeepsGrowing
<1>. SUFFICES ASSUME NEW q \in Roots, NEW v \in acked[q]
              PROVE  \E r \in Roots : marker'[r].state # "moved" /\ Reaches(q, r)' /\ v \in Holdings(r)'
  BY <1>a DEF AckedAreHeld
<1>1. PICK r \in Roots : marker[r].state # "moved" /\ Reaches(q, r) /\ v \in Holdings(r)
  BY DEF AckedAreHeld
<1>2. Reaches(q, r)' /\ v \in Holdings(r)'
  BY <1>b, <1>1, ReachesGrow, HoldingsGrow
<1>3. CASE marker'[r].state # "moved"
  BY <1>2, <1>3
<1>4. CASE marker'[r].state = "moved"
  <2>1. s = r /\ pc[s] = "verified" /\ pc'[s] = "moved"
    BY <1>1, <1>4, InvariantParts, OnlyRetiringRetires
  <2>2. MarkerStep(s)
    BY <1>1, <1>4, InvariantParts, MarkerSteps
  <2>3. SourceRetired(s)
    BY <2>1, <2>2 DEF MarkerStep, SourceGated, DestinationGated, DestinationOpened, SourceUngated
  <2>4. PICK d \in Roots \ {s} : d = journal[s].dst
    BY <2>2, MarkerStepMoves
  <2>5. Reaches(q, d)'
    <3>1. Forward(r)' = d
      BY <2>1, <2>2, <2>3, <2>4, MarkerStepWrites, MarkerFields DEF Forward
    <3>2. Reaches(q, Forward(r))'
      BY <1>2 DEF Reaches, Closed
    <3>. QED BY <3>1, <3>2
  <2>6. marker'[d].state # "moved"
    BY <2>2, <2>3, <2>4, MarkerStepMoves, MarkerStepWrites DEF PendingFor
  <2>7. v \in Holdings(d)
    BY <1>a, <1>1, <2>1, <2>3, <2>4
       DEF SourceRetired, CopiesInvariant, CheckedCopiesAgree, CheckedSteps, Agree, Holdings
  <2>. QED BY <2>5, <2>6, <2>7, HoldingsGrow
<1>. QED BY <1>3, <1>4

\* Steps of a command keep the saves.
LEMMA MoveStepsKeepSaves ==
  ASSUME MoveInvariant, CopiesInvariant, CopiesInvariant', SavesHaveOneHome, AckedAreHeld,
         HeldAreAcked, SettingsHaveADatabase, NEW s \in Roots, MoveStep(s)
  PROVE  SavesHaveOneHome' /\ AckedAreHeld' /\ HeldAreAcked' /\ SettingsHaveADatabase'
<1>1. Stays \/ \E d \in Roots : TakesOver(s, d)
  BY StepsStayOrTakeOver
<1>2. UNCHANGED acked
  BY MoveStepsLeaveAcked
<1>. QED BY <1>1, <1>2, MoveStepsKeepOneHome, MoveStepsKeepHeldAcked, MoveStepsKeepAckedHeld,
       MoveStepsKeepDatabases

(**************************** Saves and clients ****************************)

\* An unmarked root is a library of its own.
LEMMA UnmarkedIsCurrent ==
  ASSUME NEW r, marker[r] = NoMarker
  PROVE  Current(r) /\ Forward(r) = r
BY MarkerFields DEF Current, Hidden, Forward

\* What a client has open is a library of its own, reached from what it asked
\* for.
LEMMA OpenIsCurrent ==
  ASSUME MoveInvariant, OpenInvariant, ClientsFollowMarkers, NEW c \in Clients, client[c].pc = "open"
  PROVE  /\ client[c].at \in Roots /\ client[c].asked \in Roots
         /\ marker[client[c].at] = NoMarker /\ Reaches(client[c].asked, client[c].at)
<1>1. client[c] \in Visit
  BY InvariantParts DEF TypeOK, UserTypes, Gone
<1>. QED BY <1>1 DEF Visit, OpenInvariant, OpenRootsAreUngated, Writable, ClientsFollowMarkers

\* Markers, and with them the ways of opens, do not depend on users.
LEMMA UserStepsLeaveMarkers ==
  ASSUME UserStep
  PROVE  /\ UNCHANGED marker /\ dbs \subseteq dbs'
         /\ \A r \in Roots : Current(r)' = Current(r)
         /\ \A q, r \in Roots : Reaches(q, r)' = Reaches(q, r)
<1>1. UNCHANGED marker /\ dbs \subseteq dbs'
  BY DEF UserStep, ClientStep, Stay, Arrive, LockShared, OpenTarget, Initialize, Write, Delete,
     Close, Edit
<1>2. \A r \in Roots : Current(r)' = Current(r)
  BY <1>1 DEF Current, Heir, Hidden
<1>3. \A q, r \in Roots : Reaches(q, r)' = Reaches(q, r)
  BY <1>1 DEF Reaches, Closed, Forward
<1>. QED BY <1>1, <1>2, <1>3

\* What a client writes it writes to one library, and acknowledges.
LEMMA WritesKeepSaves ==
  ASSUME MoveInvariant, OpenInvariant, SavesInvariant, UserStep,
         NEW c \in Clients, NEW v \in Saves, Write(c, v)
  PROVE  SavesHaveOneHome' /\ AckedAreHeld' /\ HeldAreAcked' /\ SettingsHaveADatabase'
<1>a. /\ files \in [Roots -> SUBSET Data] /\ settings \in [Roots -> SUBSET Data]
      /\ acked \in [Roots -> SUBSET Saves]
  BY InvariantParts DEF TypeOK, DiskTypes, UserTypes
<1>b. SavesHaveOneHome /\ AckedAreHeld /\ HeldAreAcked /\ SettingsHaveADatabase /\ ClientsFollowMarkers
  BY DEF SavesInvariant
<1>0. PICK at \in Roots, asked \in Roots : at = client[c].at /\ asked = client[c].asked
  BY <1>b, OpenIsCurrent DEF Write
<1>1. marker[at] = NoMarker /\ Reaches(asked, at) /\ client[c].pc = "open"
  BY <1>0, <1>b, OpenIsCurrent DEF Write
<1>2. \A r \in Roots : Holdings(r)' = IF r = at THEN Holdings(at) \cup {v} ELSE Holdings(r)
  BY <1>0, <1>a DEF Write, Holdings
<1>3. \A r \in Roots : v \notin Holdings(r)
  BY DEF Write
<1>4. \A q \in Roots : acked'[q] = IF q = asked THEN acked[asked] \cup {v} ELSE acked[q]
  BY <1>0, <1>a DEF Write
<1>5. SavesHaveOneHome'
  BY <1>b, <1>2, <1>3, UserStepsLeaveMarkers DEF SavesHaveOneHome
<1>6. AckedAreHeld'
  <2>. SUFFICES ASSUME NEW q \in Roots, NEW u \in acked'[q]
                PROVE  \E r \in Roots : marker[r].state # "moved" /\ Reaches(q, r) /\ u \in Holdings(r)'
    BY UserStepsLeaveMarkers DEF AckedAreHeld
  <2>1. CASE u = v /\ q = asked
    BY <1>1, <1>2, <2>1, MarkerFields
  <2>2. CASE u \in acked[q]
    BY <1>b, <1>2, <2>2 DEF AckedAreHeld
  <2>. QED BY <1>4, <2>1, <2>2
<1>7. HeldAreAcked'
  <2>. SUFFICES ASSUME NEW r \in Roots, Current(r), NEW u \in Holdings(r)' \cap Saves
                PROVE  \E q \in Roots : u \in acked'[q]
    BY UserStepsLeaveMarkers DEF HeldAreAcked
  <2>1. u = v \/ u \in Holdings(r)
    BY <1>2
  <2>. QED BY <1>b, <1>4, <2>1 DEF HeldAreAcked
<1>8. SettingsHaveADatabase'
  <2>1. UNCHANGED client /\ at \in dbs /\ \A r \in Roots \ {at} : settings'[r] = settings[r]
    BY <1>0, <1>1, <1>a, <1>b DEF Write, SettingsHaveADatabase
  <2>. QED BY <1>b, <2>1, UserStepsLeaveMarkers DEF SettingsHaveADatabase
<1>. QED BY <1>5, <1>6, <1>7, <1>8

\* What a client deletes it deletes from the one library that had it.
LEMMA DeletesKeepSaves ==
  ASSUME MoveInvariant, OpenInvariant, SavesInvariant, UserStep,
         NEW c \in Clients, NEW v \in Saves, Delete(c, v)
  PROVE  SavesHaveOneHome' /\ AckedAreHeld' /\ HeldAreAcked' /\ SettingsHaveADatabase'
<1>a. /\ files \in [Roots -> SUBSET Data] /\ settings \in [Roots -> SUBSET Data]
      /\ acked \in [Roots -> SUBSET Saves]
  BY InvariantParts DEF TypeOK, DiskTypes, UserTypes
<1>b. SavesHaveOneHome /\ AckedAreHeld /\ HeldAreAcked /\ SettingsHaveADatabase /\ ClientsFollowMarkers
  BY DEF SavesInvariant
<1>0. PICK at \in Roots : at = client[c].at
  BY <1>b, OpenIsCurrent DEF Delete
<1>1. marker[at] = NoMarker /\ v \in Holdings(at)
  BY <1>0, <1>b, OpenIsCurrent DEF Delete
<1>2. \A r \in Roots : Holdings(r)' = IF r = at THEN Holdings(at) \ {v} ELSE Holdings(r)
  BY <1>0, <1>a DEF Delete, Holdings
<1>3. \A q \in Roots : acked'[q] = acked[q] \ {v}
  BY DEF Delete
<1>4. SavesHaveOneHome'
  BY <1>b, <1>2, UserStepsLeaveMarkers DEF SavesHaveOneHome
<1>5. AckedAreHeld'
  <2>. SUFFICES ASSUME NEW q \in Roots, NEW u \in acked[q] \ {v}
                PROVE  \E r \in Roots : marker[r].state # "moved" /\ Reaches(q, r) /\ u \in Holdings(r)'
    BY <1>3, UserStepsLeaveMarkers DEF AckedAreHeld
  <2>. QED BY <1>b, <1>2 DEF AckedAreHeld
<1>6. HeldAreAcked'
  <2>. SUFFICES ASSUME NEW r \in Roots, Current(r), NEW u \in Holdings(r)' \cap Saves
                PROVE  \E q \in Roots : u \in acked'[q]
    BY UserStepsLeaveMarkers DEF HeldAreAcked
  <2>1. u \in Holdings(r) /\ u # v
    BY <1>b, <1>1, <1>2, UnmarkedIsCurrent DEF SavesHaveOneHome
  <2>. QED BY <1>b, <1>3, <2>1 DEF HeldAreAcked
<1>7. SettingsHaveADatabase'
  <2>1. UNCHANGED client /\ \A r \in Roots : settings'[r] \subseteq settings[r]
    BY <1>a DEF Delete
  <2>. QED BY <1>b, <2>1, UserStepsLeaveMarkers DEF SettingsHaveADatabase
<1>. QED BY <1>4, <1>5, <1>6, <1>7

\* Other steps of clients, and edits, add no save.
LEMMA UserStepsKeepSaves ==
  ASSUME MoveInvariant, OpenInvariant, SavesInvariant, UserStep
  PROVE  SavesHaveOneHome' /\ AckedAreHeld' /\ HeldAreAcked' /\ SettingsHaveADatabase'
<1>a. /\ files \in [Roots -> SUBSET Data] /\ client \in [Clients -> Visit \cup {Gone}]
      /\ acked \in [Roots -> SUBSET Saves]
  BY InvariantParts DEF TypeOK, DiskTypes, UserTypes
<1>b. SavesHaveOneHome /\ AckedAreHeld /\ HeldAreAcked /\ SettingsHaveADatabase /\ ClientsFollowMarkers
  BY DEF SavesInvariant
<1>1. CASE \E c \in Clients, v \in Saves : Write(c, v) \/ Delete(c, v)
  BY <1>1, WritesKeepSaves, DeletesKeepSaves
<1>2. ASSUME UNCHANGED <<settings, acked>>,
             \A r \in Roots : files'[r] \cap Saves = files[r] \cap Saves,
             \A c \in Clients : client'[c].pc = "open" => client'[c].at \in dbs'
      PROVE  SavesHaveOneHome' /\ AckedAreHeld' /\ HeldAreAcked' /\ SettingsHaveADatabase'
  <2>1. \A r \in Roots : Holdings(r)' \cap Saves = Holdings(r) \cap Saves
    BY <1>2 DEF Holdings
  <2>2. SavesHaveOneHome'
    BY <1>b, <2>1, UserStepsLeaveMarkers DEF SavesHaveOneHome
  <2>3. AckedAreHeld'
    BY <1>a, <1>b, <1>2, <2>1, UserStepsLeaveMarkers DEF AckedAreHeld
  <2>4. HeldAreAcked'
    BY <1>b, <1>2, <2>1, UserStepsLeaveMarkers DEF HeldAreAcked
  <2>5. SettingsHaveADatabase'
    BY <1>b, <1>2, UserStepsLeaveMarkers DEF SettingsHaveADatabase
  <2>. QED BY <2>2, <2>3, <2>4, <2>5
<1>3. ASSUME NEW r \in Roots, NEW v \in Edits, Edit(r, v)
      PROVE  /\ UNCHANGED <<settings, acked, client, dbs>>
             /\ \A q \in Roots : files'[q] \cap Saves = files[q] \cap Saves
  BY <1>a, <1>3, EditsAreForeign DEF Edit
<1>4. ASSUME NEW c \in Clients,
             Close(c) \/ LockShared(c) \/ OpenTarget(c) \/ \E r \in Roots : Arrive(c, r)
      PROVE  /\ UNCHANGED <<settings, acked, files>>
             /\ \A e \in Clients : client'[e].pc = "open" => client'[e].at \in dbs'
  <2>1. UNCHANGED <<settings, acked, files>>
    BY <1>4 DEF Close, LockShared, OpenTarget, Initialize, Arrive
  <2>2. \A e \in Clients \ {c} : client'[e] = client[e]
    BY <1>a, <1>4 DEF Close, LockShared, OpenTarget, Arrive
  <2>3. client'[c].pc = "open" => client'[c].at \in dbs'
    <3>1. CASE Close(c) \/ LockShared(c) \/ \E r \in Roots : Arrive(c, r)
      BY <1>a, <3>1 DEF Close, LockShared, Arrive, Gone, Visit
    <3>2. CASE OpenTarget(c)
      <4>1. client[c] \in Visit
        BY <1>a, <3>2 DEF OpenTarget, Gone
      <4>2. \/ client[c].at \in dbs' /\ client' = [client EXCEPT ![c].pc = "open"]
            \/ client' = [client EXCEPT ![c].pc = "arriving", ![c].at = marker[client[c].at].dst]
            \/ client' = [client EXCEPT ![c] = Gone]
        BY <3>2 DEF OpenTarget, Initialize
      <4>. QED BY <1>a, <4>1, <4>2 DEF Visit, Gone
    <3>. QED BY <1>4, <3>1, <3>2
  <2>. QED BY <1>b, <2>1, <2>2, <2>3, UserStepsLeaveMarkers DEF SettingsHaveADatabase
<1>5. \/ \E c \in Clients, v \in Saves : Write(c, v) \/ Delete(c, v)
      \/ \E r \in Roots, v \in Edits : Edit(r, v)
      \/ \E c \in Clients : Close(c) \/ LockShared(c) \/ OpenTarget(c) \/ \E r \in Roots : Arrive(c, r)
  BY DEF UserStep, ClientStep, Stay
<1>. QED BY <1>b, <1>1, <1>2, <1>3, <1>4, <1>5 DEF SettingsHaveADatabase

\* The invariant of saves holds in every reachable state.
LEMMA SavesInvariantHolds == Spec => []SavesInvariant
<1>1. Init => SavesInvariant
  BY MarkerFields DEF Init, SavesInvariant, ClientsFollowMarkers, SavesHaveOneHome, AckedAreHeld,
     HeldAreAcked, SettingsHaveADatabase, Holdings, Gone
<1>2. MoveInvariant /\ OpenInvariant /\ CopiesInvariant /\ CopiesInvariant' /\ SavesInvariant
        /\ [Next]_vars => SavesInvariant'
  <2>. SUFFICES ASSUME MoveInvariant, OpenInvariant, CopiesInvariant, CopiesInvariant', SavesInvariant,
                       [Next]_vars
                PROVE  SavesInvariant'
    OBVIOUS
  <2>1. ClientsFollowMarkers'
    BY ClientsKeepFollowing DEF SavesInvariant
  <2>2. ASSUME NEW s \in Roots, MoveStep(s) PROVE SavesInvariant'
    BY <2>1, <2>2, MoveStepsKeepSaves DEF SavesInvariant
  <2>3. CASE UserStep
    BY <2>1, <2>3, UserStepsKeepSaves DEF SavesInvariant
  <2>4. CASE UNCHANGED vars
    <3>1. UNCHANGED <<marker, files, settings, acked, dbs, client>>
      BY <2>4 DEF vars
    <3>2. /\ \A r \in Roots : Current(r)' = Current(r) /\ Holdings(r)' = Holdings(r)
          /\ \A q, r \in Roots : Reaches(q, r)' = Reaches(q, r)
      BY <3>1 DEF Current, Heir, Hidden, Holdings, Reaches, Closed, Forward
    <3>3. SavesHaveOneHome' /\ AckedAreHeld' /\ HeldAreAcked' /\ SettingsHaveADatabase'
      BY <3>1, <3>2
         DEF SavesInvariant, SavesHaveOneHome, AckedAreHeld, HeldAreAcked, SettingsHaveADatabase
    <3>. QED BY <2>1, <3>3 DEF SavesInvariant
  <2>. QED BY <2>2, <2>3, <2>4 DEF Next, MoveStep, UserStep
<1>. QED BY <1>1, <1>2, MoveInvariantHolds, OpenInvariantHolds, CopiesInvariantHolds, PTL DEF Spec

\* Two clients that ask for the same root work on the same copy (open_target's
\* redirects end at one root, whenever they are followed).
THEOREM OpensAgree == Spec => []ClientsAgreeOnTheRoot
<1>1. MoveInvariant /\ OpenInvariant /\ SavesInvariant => ClientsAgreeOnTheRoot
  <2>. SUFFICES ASSUME MoveInvariant, OpenInvariant, ClientsFollowMarkers,
                       NEW b \in Clients, NEW c \in Clients,
                       client[b].pc = "open", client[c].pc = "open", client[b].asked = client[c].asked
                PROVE  client[b].at = client[c].at
    BY DEF SavesInvariant, ClientsAgreeOnTheRoot
  <2>. QED BY OpenIsCurrent, UnmarkedIsCurrent, ReachesOneEnd, InvariantParts
<1>. QED BY <1>1, MoveInvariantHolds, OpenInvariantHolds, SavesInvariantHolds, PTL

\* A save acknowledged under a root is there for every later client that opens
\* the same root, through moves, aborts, crashes and resumes (the copy, its
\* verification and the order of publication in continue_move).
THEOREM SavesFollow == Spec => []SavesFollowTheLibrary
<1>1. MoveInvariant /\ OpenInvariant /\ SavesInvariant => SavesFollowTheLibrary
  <2>. SUFFICES ASSUME MoveInvariant, OpenInvariant, ClientsFollowMarkers, AckedAreHeld,
                       NEW c \in Clients, client[c].pc = "open", NEW v \in acked[client[c].asked]
                PROVE  v \in Holdings(client[c].at)
    BY DEF SavesInvariant, SavesFollowTheLibrary
  <2>1. /\ client[c].at \in Roots /\ client[c].asked \in Roots
        /\ Forward(client[c].at) = client[c].at /\ Reaches(client[c].asked, client[c].at)
    BY OpenIsCurrent, UnmarkedIsCurrent
  <2>2. PICK r \in Roots : marker[r].state # "moved" /\ Reaches(client[c].asked, r) /\ v \in Holdings(r)
    BY <2>1 DEF AckedAreHeld
  <2>3. Forward(r) = r
    BY <2>2 DEF Forward
  <2>. QED BY <2>1, <2>2, <2>3, ReachesOneEnd, InvariantParts
<1>. QED BY <1>1, MoveInvariantHolds, OpenInvariantHolds, SavesInvariantHolds, PTL

\* What is in a root that can be opened changes through its clients, or behind
\* Portcove's back: no resumed copy replays the old library over it
\* (admit_destination's AlreadyActive, and the gate that a copy needs).
THEOREM ActiveLibrariesAreNotReplayed == Spec => RecoveryNeverReplays
<1>1. ASSUME MoveInvariant, OpenInvariant, SavesInvariant, [Next]_vars,
             NEW d \in Roots, Writable(d), Holdings(d)' # Holdings(d)
      PROVE  acked' # acked \/ \E v \in Edits : Edit(d, v)
  <2>a. /\ files \in [Roots -> SUBSET Data] /\ acked \in [Roots -> SUBSET Saves]
        /\ ClientsFollowMarkers /\ AckedAreHeld /\ HeldAreAcked
    BY <1>1, InvariantParts DEF TypeOK, DiskTypes, UserTypes, SavesInvariant
  <2>1. ASSUME NEW s \in Roots, MoveStep(s) PROVE FALSE
    <3>1. CopyStep(s)
      BY <1>1, <2>1, InvariantParts, CopyingSteps DEF Holdings
    <3>2. d # journal[s].dst
      BY <1>1, <3>1, CopyStepMoves, MarkerFields DEF Writable, Hidden
    <3>. QED BY <1>1, <3>1, <3>2 DEF CopyStep, Holdings
  <2>2. ASSUME NEW c \in Clients, NEW v \in Saves, Write(c, v) PROVE acked' # acked
    <3>1. client[c].asked \in Roots
      BY <1>1, <2>2, <2>a, OpenIsCurrent DEF Write
    <3>2. v \notin acked[client[c].asked] /\ v \in acked'[client[c].asked]
      BY <2>a, <2>2, <3>1 DEF Write, AckedAreHeld
    <3>. QED BY <3>2
  <2>3. ASSUME NEW c \in Clients, NEW v \in Saves, Delete(c, v) PROVE acked' # acked
    <3>1. client[c].at \in Roots /\ Current(client[c].at)
      BY <1>1, <2>3, <2>a, OpenIsCurrent, UnmarkedIsCurrent DEF Delete
    <3>2. PICK q \in Roots : v \in acked[q]
      BY <2>a, <2>3, <3>1 DEF Delete, HeldAreAcked
    <3>3. v \notin acked'[q]
      BY <2>3 DEF Delete
    <3>. QED BY <3>2, <3>3
  <2>4. ASSUME NEW r \in Roots, NEW v \in Edits, Edit(r, v) PROVE r = d
    BY <1>1, <2>a, <2>4 DEF Edit, Holdings
  <2>5. CASE UNCHANGED <<files, settings>>
    BY <1>1, <2>5 DEF Holdings
  <2>6. UserStep => \/ \E c \in Clients, v \in Saves : Write(c, v) \/ Delete(c, v)
                    \/ \E r \in Roots, v \in Edits : Edit(r, v)
                    \/ UNCHANGED <<files, settings>>
    BY DEF UserStep, ClientStep, Stay, Close, LockShared, OpenTarget, Initialize, Arrive
  <2>7. UNCHANGED vars => UNCHANGED <<files, settings>>
    BY DEF vars
  <2>. QED BY <1>1, <2>1, <2>2, <2>3, <2>4, <2>5, <2>6, <2>7 DEF Next, MoveStep, UserStep
<1>2. MoveInvariant /\ OpenInvariant /\ SavesInvariant /\ [Next]_vars
        => [\A d \in Roots : Writable(d) /\ Holdings(d)' # Holdings(d)
              => acked' # acked \/ \E v \in Edits : Edit(d, v)]_vars
  BY <1>1
<1>. QED BY <1>2, MoveInvariantHolds, OpenInvariantHolds, SavesInvariantHolds, PTL
      DEF Spec, RecoveryNeverReplays

=============================================================================
