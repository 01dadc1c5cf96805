------------------------ MODULE InstallPropertyProofs -----------------------
(***************************************************************************)
(* What the inductive invariant of InstallLifecycle says of the library: a *)
(* user never loses a version that has a row, never gets one that was      *)
(* reported cancelled, and loses no disk space to files nobody knows of.   *)
(*                                                                         *)
(* Three of the properties hold only where removals do not fail, or are    *)
(* not begun.  Their theorems say so, as a condition on the constants.     *)
(***************************************************************************)
EXTENDS InstallLifecycleProofs

-----------------------------------------------------------------------------
(* The properties.                                                         *)

\* Every variable of the install lifecycle keeps its type.
THEOREM InstallTypes == Spec => []TypeOK
<1>1. ASSUME Settled, [Next]_vars, retired \subseteq Ids PROVE (retired \subseteq Ids)'
  <2>1. ASSUME NEW w \in Workers, StepOf(w) PROVE FilesType'
    BY <1>1, <2>1, SoundStep DEF Settled, Sound
  <2> QED BY <1>1, <2>1, NextSteps, RequestsAreCalm DEF Settled, FilesType
<1>2. Settled /\ (retired \subseteq Ids) => TypeOK
  BY DEF Settled, Sound, FilesType, MemoryType, TypeOK, InventoryType, ActivityType,
       RequestType, Outcomes
<1>3. Init => retired \subseteq Ids
  BY DEF Init
<1>4. Settled /\ [Next]_vars /\ (retired \subseteq Ids) => (retired \subseteq Ids)'
  BY <1>1
<1> QED BY <1>2, <1>3, <1>4, StaysSettled, PTL DEF Spec

\* Whatever lies in private staging or in a quarantine has a journal, at every
\* point where a worker may die: start_install stores the journal before the
\* directory is made, and discard, cleanup and removal delete it after.
THEOREM NothingIsLeftBehind == Spec => []PrivateFilesHaveAJournal
<1>1. Settled => PrivateFilesHaveAJournal
  BY DEF Settled, Sound, AllRecorded, Recorded, PrivateFilesHaveAJournal
<1> QED BY <1>1, StaysSettled, PTL

\* An install that is reported cancelled has no row and no version path, and
\* no recovery will publish it: close_preparation decides between a request
\* and publication in one statement, and only activities that were asked to
\* stop are finished as cancelled.
THEOREM CancelledStaysPrivate == Spec => []CancelledIsNeverPublished
<1>1. Settled => CancelledIsNeverPublished
  BY DEF Settled, AllAsked, Asked, Unsealed, Published, Private, CancelledIsNeverPublished
<1> QED BY <1>1, StaysSettled, PTL

\* The first terminal outcome of an activity stays: finish_activity updates
\* only a running one, whoever calls it.
THEOREM OutcomesStay == Spec => OutcomesAreFinal
<1>1. ASSUME Settled, [Next]_vars, NEW i \in Ids, activity[i].status \notin {"unused", "running"}
      PROVE  activity'[i].status = activity[i].status
  <2>1. ASSUME NEW w \in Workers, StepOf(w) PROVE activity'[i].status = activity[i].status
    <3>1. FilesType /\ MemoryType /\ Control(w)
      BY <1>1 DEF Settled, Sound, AllControl
    <3> QED BY <1>1, <2>1, <3>1, StatusMoves
  <2>2. CASE (\E k \in Ids : RequestCancellation(k)) \/ UNCHANGED vars
    BY <1>1, <2>2, RequestsAreCalm DEF Settled
  <2> QED BY <1>1, <2>1, <2>2, NextSteps
<1>2. Settled /\ [Next]_vars =>
        [\A i \in Ids : activity[i].status \notin {"unused", "running"} =>
             activity'[i].status = activity[i].status]_vars
  BY <1>1
<1> QED BY <1>2, StaysSettled, PTL DEF Spec, OutcomesAreFinal

\* A finished preparation is never thrown away: files leave staging
\* unpublished only while the journal calls them unvalidated or due for
\* cleanup, whichever worker discards them.
THEOREM SealedWorkStays == Spec => SealedWorkIsNotDiscarded
<1>1. ASSUME Settled, [Next]_vars, NEW i \in Ids, staging[i] = "payload", staging'[i] = "none"
      PROVE  IsPrivate(journal[i]) \/ DueCleanup(journal[i])
  <2>1. ASSUME NEW w \in Workers, StepOf(w)
        PROVE  IsPrivate(journal[i]) \/ DueCleanup(journal[i])
    <3>1. /\ FilesType /\ MemoryType /\ Control(w) /\ Fits(w) /\ Recorded(i)
      BY <1>1 DEF Settled, Sound, AllControl, AllFits, AllRecorded
    <3>2. i = op[w] /\ (RemoveStaging(w) \/ DiscardPrivate(w))
      BY <1>1, <2>1, <3>1, StagingMoves DEF PreparePayload, PublishPayload, RemoveStaging,
           DiscardPrivate, FilesType
    <3>3. CASE RemoveStaging(w)
      <4>1. pc[w] = "cleaning"
        BY <3>3 DEF RemoveStaging, At
      <4>2. draft[w].install = i /\ draft[w].phase # "prepared" /\ draft[w].phase # "preparing" /\ draft[w].kind = "install"
        BY <3>1, <3>2, <4>1 DEF Control, DraftFits, Idling
      <4>3. journal[i] = draft[w]
        BY <3>1, <3>2, <4>1, <4>2 DEF Fits, Locked
      <4> QED BY <1>1, <3>1, <4>2, <4>3, DistinctValues DEF Recorded, Private
    <3>4. CASE DiscardPrivate(w)
      <4>1. pc[w] = "discarding"
        BY <3>4 DEF DiscardPrivate, At
      <4>2. Private(draft[w])
        BY <3>1, <3>2, <4>1 DEF Control, DraftFits, Idling
      <4>3. journal[i] = draft[w]
        BY <3>1, <3>2, <4>1, <4>2 DEF Fits, Locked, Private, IsPrivate, DueCleanup
      <4> QED BY <4>2, <4>3 DEF Private
    <3> QED BY <3>2, <3>3, <3>4
  <2>2. CASE (\E k \in Ids : RequestCancellation(k)) \/ UNCHANGED vars
    BY <1>1, <2>2, RequestsAreCalm DEF Settled
  <2> QED BY <1>1, <2>1, <2>2, NextSteps
<1>2. Settled /\ [Next]_vars =>
        [\A i \in Ids : staging[i] = "payload" /\ staging'[i] = "none" =>
             IsPrivate(journal[i]) \/ DueCleanup(journal[i])]_vars
  BY <1>1
<1> QED BY <1>2, StaysSettled, PTL DEF Spec, SealedWorkIsNotDiscarded

-----------------------------------------------------------------------------
(* The files behind the rows.                                              *)

\* Every row has its files, at their path or in a quarantine.
Kept == \A i \in inv.registered : Live(i) \/ \E r \in Ids : i \in quarantine[r]

\* A removal that moves one version aside moves no other: what is at the
\* path it empties is the version it has on its list.
LEMMA QuarantineTakesItsOwn ==
    ASSUME Settled, NEW w \in Workers, Quarantine(w)
    PROVE  /\ op[w] \in Ids /\ UNCHANGED <<inv, build>>
           /\ \E k \in draft[w].removed :
                /\ k \in Ids /\ Live(k)
                /\ version' = [version EXCEPT ![build[k]] = NoId]
                /\ quarantine' = [quarantine EXCEPT ![op[w]] = @ \cup {k}]
<1>1. /\ FilesType /\ MemoryType /\ Control(w) /\ Fits(w)
  BY DEF Settled, Sound, AllControl, AllFits
<1>2. PICK k \in draft[w].removed \ quarantine[op[w]] :
         /\ ~Vacant(build[k])
         /\ version' = [version EXCEPT ![build[k]] = NoId]
         /\ quarantine' = [quarantine EXCEPT ![op[w]] = @ \cup {k}]
  BY DEF Quarantine
<1>3. pc[w] = "quarantining" /\ op[w] # NoId /\ draft[w].kind = "remove" /\ draft[w].phase = "preparing"
  BY <1>1 DEF Quarantine, At, Control, DraftFits, Idling
<1>4. op[w] \in Ids /\ k \in Ids
  BY <1>1, <1>3 DEF MemoryType, Journal
<1>5. CASE mode[w] = "run"
  BY <1>1, <1>2, <1>3, <1>4, <1>5 DEF Fits, Quarantine
<1>6. CASE mode[w] = "recover"
  <2>1. RetainedOutputs(op[w], draft[w])
    BY <1>6 DEF Quarantine
  <2>2. Live(k)
    BY <1>2, <1>3, <2>1 DEF RetainedOutputs
  <2> QED BY <1>2, <1>4, <2>2 DEF Quarantine
<1> QED BY <1>1, <1>3, <1>5, <1>6 DEF Control, MemoryType, CancelSteps

\* No step takes the files of a row away.
LEMMA KeptStep ==
    ASSUME Settled, Kept, NEW w \in Workers, StepOf(w)
    PROVE  Kept'
<1>1. /\ FilesType /\ MemoryType /\ Control(w) /\ Fits(w) /\ AllRecorded /\ Gone(draft[w])
  BY DEF Settled, Sound, AllControl, AllFits, AllGone
<1>2. ASSUME NEW i \in inv.registered, i \in inv'.registered
      PROVE  Live(i)' \/ \E r \in Ids : i \in quarantine'[r]
  <2>1. i \in Ids /\ build[i] \in Builds
    BY <1>1 DEF FilesType, InventoryType, AllRecorded, Recorded, Traced
  <2>2. Live(i) \/ \E r \in Ids : i \in quarantine[r]
    BY DEF Kept
  <2>3. build'[i] = build[i]
    <3>1. CASE UNCHANGED build
      BY <3>1
    <3>2. CASE StartInstall(w)
      <4>1. pc[w] = "choosing"
        BY <3>2 DEF StartInstall, Choosing, Serving, Running
      <4>2. i # op[w]
        BY <1>1, <4>1 DEF Fits, Fresh, Traced
      <4> QED BY <1>1, <2>1, <3>2, <4>2 DEF StartInstall, FilesType
    <3> QED BY <3>1, <3>2, BuildMoves
  <2>4. CASE UNCHANGED <<version, quarantine>>
    BY <2>2, <2>3, <2>4 DEF Live
  <2>5. CASE PublishPayload(w)
    BY <1>1, <2>1, <2>2, <2>3, <2>5, DistinctValues DEF PublishPayload, Vacant, Live, FilesType
  <2>6. CASE Quarantine(w)
    <3>1. PICK k \in draft[w].removed :
                /\ k \in Ids /\ Live(k) /\ op[w] \in Ids
                /\ version' = [version EXCEPT ![build[k]] = NoId]
                /\ quarantine' = [quarantine EXCEPT ![op[w]] = @ \cup {k}]
      BY <2>6, QuarantineTakesItsOwn
    <3>2. CASE i = k
      <4>1. i \in quarantine'[op[w]]
        BY <1>1, <3>1, <3>2 DEF FilesType
      <4> QED BY <3>1, <4>1
    <3>3. CASE i # k /\ Live(i)
      BY <1>1, <2>1, <2>3, <3>1, <3>3 DEF Live, FilesType
    <3>4. CASE \E r \in Ids : i \in quarantine[r]
      <4>1. PICK r \in Ids : i \in quarantine[r]
        BY <3>4
      <4>2. i \in quarantine'[r]
        BY <1>1, <3>1, <4>1 DEF FilesType
      <4> QED BY <4>2
    <3> QED BY <2>2, <3>2, <3>3, <3>4
  <2>7. CASE DeleteQuarantine(w)
    <3>1. /\ version' = version /\ quarantine' = [quarantine EXCEPT ![op[w]] = {}]
          /\ pc[w] = "deleting"
      BY <2>7 DEF DeleteQuarantine, At
    <3>2. /\ draft[w].kind = "remove" /\ draft[w].phase \in {"metadata_committed", "cleanup_pending"}
          /\ op[w] \in Ids
      BY <1>1, <3>1 DEF Control, DraftFits, Idling, MemoryType
    <3>3. journal[op[w]].kind = "remove" /\ journal[op[w]].removed = draft[w].removed
      BY <1>1, <3>1, <3>2 DEF Fits, Locked
    <3>4. i \notin quarantine[op[w]]
      BY <1>1, <3>2, <3>3 DEF Gone, AllRecorded, Recorded
    <3>5. ASSUME NEW r \in Ids, i \in quarantine[r] PROVE i \in quarantine'[r]
      BY <1>1, <3>1, <3>4, <3>5 DEF FilesType
    <3> QED BY <2>2, <2>3, <3>1, <3>5 DEF Live
  <2> QED BY <2>4, <2>5, <2>6, <2>7, VersionsMove, QuarantineMoves DEF PublishPayload,
       DeleteQuarantine
<1>3. ASSUME NEW i \in inv'.registered, RegisterRetained(w), i = draft[w].install PROVE i \in inv.registered
  BY <1>1, <1>3 DEF RegisterRetained, Running, Fits
<1>4. ASSUME NEW i \in inv'.registered, RegisterPublished(w), i = draft[w].install PROVE Live(i)'
  <2>1. pc[w] = "registering" /\ UNCHANGED <<version, build>> /\ (mode[w] = "recover" => Live(op[w]))
    BY <1>4 DEF RegisterPublished, At, files
  <2>2. draft[w].kind = "install" /\ draft[w].phase = "payload_published" /\ i = op[w]
    BY <1>1, <1>4, <2>1, DistinctValues DEF Control, DraftFits, Shape, Idling, NoJournal
  <2>3. mode[w] \in {"run", "recover"}
    BY <1>1, <2>1 DEF Control, MemoryType, CancelSteps
  <2>4. Live(op[w])
    BY <1>1, <2>1, <2>2, <2>3 DEF Fits
  <2> QED BY <2>1, <2>2, <2>4 DEF Live
<1> QED BY <1>1, <1>2, <1>3, <1>4, RegisteredGrows DEF Kept

\* The version of every row is at its path, or in the quarantine of a removal
\* whose journal lists it, whatever crashed or failed: rows are written after
\* the rename that publishes, and deleted before the files.
THEOREM RowsKeepTheirFiles == Spec => []RegisteredPayloadIsKept
<1>1. ASSUME Init PROVE Kept
  <2>1. inv.registered = {}
    BY <1>1 DEF Init, NoInventory
  <2> QED BY <2>1 DEF Kept
<1>2. ASSUME Settled, Kept, [Next]_vars PROVE Kept'
  <2>1. CASE (\E k \in Ids : RequestCancellation(k)) \/ UNCHANGED vars
    BY <1>2, <2>1, RequestsAreCalm DEF Settled, Kept, Live
  <2> QED BY <1>2, <2>1, NextSteps, KeptStep
<1>3. Settled /\ Kept => RegisteredPayloadIsKept
  BY DEF Settled, Sound, AllRecorded, Recorded, Kept, RegisteredPayloadIsKept
<1>4. Settled /\ Kept /\ [Next]_vars => Kept'
  BY <1>2
<1>5. Init => Kept
  BY <1>1
<1> QED BY <1>3, <1>4, <1>5, StaysSettled, PTL DEF Spec

-----------------------------------------------------------------------------
(* The pointers.                                                           *)

\* The transactions on the rows keep the pointers in order, each under the
\* condition its caller has checked.
LEMMA PointersStay ==
    ASSUME FilesType, PointersAgree
    PROVE  /\ inv' = NoInventory => PointersAgree'
           /\ \A i \in Ids, a \in BOOLEAN : inv' = RegisterInstall(inv, i, a) => PointersAgree'
           /\ inv.staged # NoId /\ inv' = ActivateStaged(inv) => PointersAgree'
           /\ inv.previous # NoId /\ inv' = SwapPrevious(inv) => PointersAgree'
<1> USE DistinctValues DEF FilesType, InventoryType, PointersAgree
<1>1. inv' = NoInventory => PointersAgree'
  BY DEF NoInventory
<1>2. ASSUME NEW i \in Ids, NEW a \in BOOLEAN, inv' = RegisterInstall(inv, i, a) PROVE PointersAgree'
  BY <1>2 DEF RegisterInstall
<1>3. ASSUME inv.staged # NoId, inv' = ActivateStaged(inv) PROVE PointersAgree'
  BY <1>3 DEF ActivateStaged
<1>4. ASSUME inv.previous # NoId, inv' = SwapPrevious(inv) PROVE PointersAgree'
  BY <1>4 DEF SwapPrevious
<1> QED BY <1>1, <1>2, <1>3, <1>4

\* The rows and the pointers change in five actions only.
LEMMA InventoryMoves ==
    ASSUME NEW w \in Workers, StepOf(w)
    PROVE  UNCHANGED inv \/ RegisterRetained(w) \/ RegisterPublished(w) \/ SwitchPointers(w)
           \/ RollBack(w) \/ Deregister(w)
<1>1. CASE \/ StartInstall(w) \/ Persist(w) \/ Retire(w) \/ FailSealed(w)
           \/ FailActivation(w) \/ Rejournal(w)
           \/ PreparePayload(w) \/ RemoveStaging(w) \/ DiscardPrivate(w) \/ PublishPayload(w)
           \/ Quarantine(w) \/ DeleteQuarantine(w)
  BY <1>1 DEF StartInstall, Persist, Retire, FailSealed, FailActivation, Rejournal, PreparePayload,
     RemoveStaging, DiscardPrivate, PublishPayload, Quarantine, DeleteQuarantine
<1> QED BY <1>1, QuietOrWrites DEF Quiet, Writes

\* Every transaction is begun under the condition it needs.
LEMMA PointersStep ==
    ASSUME Settled, PointersAgree, NEW w \in Workers, StepOf(w)
    PROVE  PointersAgree'
<1>1. /\ FilesType /\ MemoryType /\ Control(w) /\ Fits(w)
  BY DEF Settled, Sound, AllControl, AllFits
<1>2. CASE UNCHANGED inv
  BY <1>2 DEF PointersAgree
<1>3. CASE RegisterRetained(w)
  <2>1. draft[w].install \in Ids /\ inv' = RegisterInstall(inv, draft[w].install, want[w].activate)
    BY <1>1, <1>3 DEF RegisterRetained, Running, Fits, FilesType, InventoryType
  <2>2. want[w].activate \in BOOLEAN
    BY <1>1, RequestsSay DEF MemoryType
  <2> QED BY <1>1, <2>1, <2>2, PointersStay
<1>4. CASE RegisterPublished(w)
  <2>1. pc[w] = "registering" /\ inv' = RegisterInstall(inv, draft[w].install, draft[w].activate)
    BY <1>4 DEF RegisterPublished, At
  <2>2. draft[w].install \in Ids /\ draft[w].activate \in BOOLEAN
    BY <1>1, <2>1, DistinctValues DEF Control, DraftFits, Shape, Idling, NoJournal, MemoryType,
         Journal
  <2> QED BY <1>1, <2>1, <2>2, PointersStay
<1>5. CASE SwitchPointers(w)
  <2>1. draft[w].install # NoId
    BY <1>1, <1>5, DistinctValues DEF SwitchPointers, At, Control, DraftFits, Shape, Idling,
         NoJournal
  <2>2. \/ inv' = inv
        \/ inv.staged # NoId /\ inv' = ActivateStaged(inv)
    BY <1>5, <2>1 DEF SwitchPointers
  <2> QED BY <1>1, <1>2, <2>2, PointersStay
<1>6. CASE RollBack(w)
  BY <1>1, <1>6, PointersStay DEF RollBack
<1>7. CASE Deregister(w)
  BY <1>1, <1>7, PointersStay DEF Deregister, RemovePort
<1> QED BY <1>2, <1>3, <1>4, <1>5, <1>6, <1>7, InventoryMoves

\* Active, previous and staged name rows, and rollback leads somewhere else.
THEOREM PointersStayInOrder == Spec => []PointersAgree
<1>1. Init => PointersAgree
  BY DEF Init, NoInventory, PointersAgree
<1>2. ASSUME Settled, PointersAgree, [Next]_vars PROVE PointersAgree'
  <2>1. CASE (\E k \in Ids : RequestCancellation(k)) \/ UNCHANGED vars
    BY <1>2, <2>1, RequestsAreCalm DEF Settled, PointersAgree
  <2> QED BY <1>2, <2>1, NextSteps, PointersStep
<1>3. Settled /\ PointersAgree /\ [Next]_vars => PointersAgree'
  BY <1>2
<1> QED BY <1>1, <1>3, StaysSettled, PTL DEF Spec

-----------------------------------------------------------------------------
(* Removals that do not fail.  The one write a worker makes after it has   *)
(* given up the port lock is that of a removal that failed, so what the    *)
(* rest of this section says holds wherever removals do not fail.          *)

Working == Locked \ {"choosing", "reusing", "persisting"}

\* No worker is about to write a journal late, each has in memory what is
\* stored, and none is at an operation whose journal has been deleted.
Careful(w) ==
    /\ pc[w] # "rejournaling"
    /\ mode[w] = "run" /\ (draft[w].kind = "remove" \/ Early(w)) => outcome[w] # "error"
    /\ pc[w] \in Working => journal[op[w]] = draft[w]
    /\ pc[w] \in Locked \cup {"starting"} => op[w] \notin retired
Done(i) == journal[i] = NoJournal /\ activity[i].status # "unused"
AllCareful ==
    /\ \A w \in Workers : Careful(w)
    /\ \A i \in retired : Done(i)

\* A worker that has left the locked steps of an operation does not come
\* back to them.
LEMMA LockedComes ==
    ASSUME FilesType, MemoryType, NEW w \in Workers, Control(w), StepOf(w), op[w] # NoId,
           pc[w] \notin Locked \cup {"starting"}
    PROVE  op'[w] = NoId \/ pc'[w] \notin Locked \cup {"starting"}
<1> USE DEF MemoryType, Idle, Goto, At, Locked, Control, Idling
<1>1. CASE UnlockPort(w) \/ Rejournal(w)
  BY <1>1 DEF UnlockPort, Rejournal
<1>2. CASE Finish(w) \/ Crash(w) \/ AbandonRecovery(w) \/ EndRecovery(w)
                     \/ LeaveForReview(w) \/ Settle(w)
  BY <1>2 DEF Finish, Crash, AbandonRecovery, EndRecovery, LeaveForReview, Settle
<1>3. CASE TryLockPort(w) \/ Refuse(w) \/ StopCancelled(w) \/ KeepActive(w) \/ ReuseStaged(w) \/
        ReuseRetained(w) \/ RegisterRetained(w) \/ StartInstall(w) \/ PreparePayload(w) \/
        SealPayload(w) \/ RetainCleanup(w) \/ FailPrivately(w) \/ RetainPrivate(w)
  BY <1>3 DEF TryLockPort, Refuse, StopCancelled, KeepActive, ReuseStaged,
        ReuseRetained, RegisterRetained, StartInstall, PreparePayload,
        SealPayload, RetainCleanup, FailPrivately, RetainPrivate, Choosing, Serving, Running
<1>4. CASE BeginActivation(w) \/ RollBack(w) \/ BeginRemoval(w) \/ FailSealed(w)
                              \/ FailActivation(w) \/
        FailRemoval(w) \/ (\E i \in Ids, request \in Requests : Begin(w, i, request))
  BY <1>4 DEF BeginActivation, RollBack, BeginRemoval, FailSealed, FailActivation, FailRemoval,
       Begin,
        Serving, Running
<1>5. CASE Persist(w) \/ Retire(w) \/ PublishPayload(w) \/ AcceptPublished(w) \/
        RegisterPublished(w) \/ RemoveStaging(w) \/ DiscardPrivate(w) \/ SwitchPointers(w) \/
        Quarantine(w) \/ FinishQuarantine(w) \/ Deregister(w) \/ DeleteQuarantine(w)
  BY <1>5 DEF Persist, Retire, PublishPayload, AcceptPublished, RegisterPublished, RemoveStaging,
        DiscardPrivate, SwitchPointers, Quarantine, FinishQuarantine, Deregister, DeleteQuarantine
<1>6. CASE StartRecovery(w) \/ ListJournals(w) \/ InventoryJournals(w) \/
        (\E i \in Ids : SkipCancellation(w, i)) \/ (\E i \in Ids : TakeUpCancellation(w, i)) \/
        (\E i \in Ids : SkipJournal(w, i)) \/ (\E i \in Ids : Resume(w, i))
  BY <1>6 DEF StartRecovery, ListJournals, InventoryJournals, SkipCancellation, TakeUpCancellation,
        SkipJournal, Resume
<1> QED BY ONLY StepOf(w), <1>1, <1>2, <1>3, <1>4, <1>5, <1>6 DEF StepOf, Own, Transact, Recover

\* A worker gets to work on a journal by storing it or by taking it up, and
\* goes on with it without changing it.
LEMMA WorkingComes ==
    ASSUME FilesType, MemoryType, NEW w \in Workers, Control(w), StepOf(w), pc'[w] \in Working
    PROVE  \/ Persist(w)
           \/ \E i \in Ids : TakeUpCancellation(w, i) \/ Resume(w, i)
           \/ /\ pc[w] \in Working /\ op'[w] = op[w] /\ draft'[w] = draft[w]
              /\ UNCHANGED journal
<1> USE DEF MemoryType, Idle, Goto, At, Running, Working, Locked, durable, files, memory
<1>1. CASE UnlockPort(w) \/ Rejournal(w) \/ Finish(w) \/ Crash(w) \/ AbandonRecovery(w)
                         \/ EndRecovery(w) \/
        LeaveForReview(w) \/ Settle(w) \/ TryLockPort(w) \/ Refuse(w) \/ KeepActive(w) \/ ReuseStaged(w) \/
        ReuseRetained(w) \/ RegisterRetained(w) \/ StartInstall(w)
  BY <1>1 DEF UnlockPort, Rejournal, Finish, Crash, AbandonRecovery, EndRecovery,
       LeaveForReview, Settle,
        TryLockPort, Refuse, KeepActive, ReuseStaged, ReuseRetained, RegisterRetained, StartInstall
<1>2. CASE StopCancelled(w) \/ PreparePayload(w) \/ FailPrivately(w)
  BY <1>2 DEF StopCancelled, PreparePayload, FailPrivately
<1>3. CASE SealPayload(w) \/ RetainCleanup(w) \/ RetainPrivate(w) \/
        BeginActivation(w) \/ RollBack(w) \/ BeginRemoval(w) \/ FailSealed(w) \/ FailActivation(w) \/
        FailRemoval(w) \/ (\E i \in Ids, request \in Requests : Begin(w, i, request))
  BY <1>3, ZenonT(30) DEF SealPayload, RetainCleanup, RetainPrivate, BeginActivation, RollBack, BeginRemoval,
        FailSealed, FailActivation, FailRemoval, Begin
<1>4. CASE Retire(w) \/ PublishPayload(w) \/ AcceptPublished(w) \/ RegisterPublished(w)
                     \/ SwitchPointers(w) \/
        FinishQuarantine(w) \/ Deregister(w)
  BY <1>4 DEF Retire, PublishPayload, AcceptPublished, RegisterPublished, SwitchPointers,
       FinishQuarantine, Deregister
<1>5. CASE RemoveStaging(w) \/ DiscardPrivate(w) \/ Quarantine(w) \/ DeleteQuarantine(w)
  BY <1>5 DEF RemoveStaging, DiscardPrivate, Quarantine, DeleteQuarantine
<1>6. CASE StartRecovery(w) \/ ListJournals(w) \/ InventoryJournals(w) \/
        (\E i \in Ids : SkipCancellation(w, i)) \/ (\E i \in Ids : SkipJournal(w, i))
  BY <1>6 DEF StartRecovery, ListJournals, InventoryJournals, SkipCancellation, SkipJournal
<1> QED BY ONLY StepOf(w), <1>1, <1>2, <1>3, <1>4, <1>5, <1>6 DEF StepOf, Own, Transact, Recover

\* Only the unlocking of a failed removal leads to a late write.
LEMMA RejournalingComes ==
    ASSUME FilesType, MemoryType, NEW w \in Workers, Control(w), StepOf(w), \A i \in Ids : Shape(i, journal[i]),
           pc'[w] = "rejournaling"
    PROVE  \/ pc[w] = "rejournaling"
           \/ mode[w] = "run" /\ draft[w].kind = "remove" /\ outcome[w] = "error"
<1> USE DEF MemoryType, Idle, Goto, memory, durable, files
<1>1. CASE UnlockPort(w) \/ Rejournal(w) \/ Finish(w) \/ Crash(w) \/ AbandonRecovery(w)
                         \/ EndRecovery(w) \/
        LeaveForReview(w) \/ Settle(w) \/ TryLockPort(w) \/ Refuse(w) \/ KeepActive(w) \/ ReuseStaged(w) \/
        ReuseRetained(w) \/ RegisterRetained(w) \/ StartInstall(w)
  BY <1>1 DEF UnlockPort, Rejournal, Finish, Crash, AbandonRecovery, EndRecovery,
       LeaveForReview, Settle,
        TryLockPort, Refuse, KeepActive, ReuseStaged, ReuseRetained, RegisterRetained,
             StartInstall, Running
<1>2. CASE StopCancelled(w) \/ PreparePayload(w) \/ FailPrivately(w) \/ SealPayload(w)
                            \/ RetainCleanup(w) \/
        RetainPrivate(w) \/ BeginActivation(w) \/ RollBack(w) \/ BeginRemoval(w) \/ FailSealed(w) \/
        FailActivation(w) \/ FailRemoval(w) \/ (\E i \in Ids, request \in Requests : Begin(w, i, request))
  BY <1>2 DEF StopCancelled, PreparePayload, FailPrivately, SealPayload, RetainCleanup,
       RetainPrivate,
        BeginActivation, RollBack, BeginRemoval, FailSealed, FailActivation, FailRemoval, Begin
<1>3. CASE Retire(w) \/ PublishPayload(w) \/ AcceptPublished(w) \/ RegisterPublished(w)
                     \/ SwitchPointers(w) \/
        FinishQuarantine(w) \/ Deregister(w) \/ RemoveStaging(w) \/ DiscardPrivate(w) \/ Quarantine(w) \/
        DeleteQuarantine(w)
  BY <1>3 DEF Retire, PublishPayload, AcceptPublished, RegisterPublished, SwitchPointers,
       FinishQuarantine,
        Deregister, RemoveStaging, DiscardPrivate, Quarantine, DeleteQuarantine
<1>4. CASE StartRecovery(w) \/ ListJournals(w) \/ InventoryJournals(w) \/
        (\E i \in Ids : SkipCancellation(w, i)) \/ (\E i \in Ids : TakeUpCancellation(w, i)) \/
        (\E i \in Ids : SkipJournal(w, i))
  BY <1>4 DEF StartRecovery, ListJournals, InventoryJournals, SkipCancellation,
       TakeUpCancellation, SkipJournal
<1>5. CASE Persist(w)
  <2>1. op[w] \in Ids /\ Shape(op[w], draft[w]) /\ draft[w].kind # "none" /\ draft[w] \in Journal
    BY <1>5 DEF Persist, Control, DraftFits, Idling
  <2>2. After(draft[w]) # "rejournaling"
    BY <2>1, AfterFits DEF RecoverSteps
  <2> QED BY <1>5, <2>2 DEF Persist
<1>6. CASE \E i \in Ids : Resume(w, i)
  <2>1. PICK i \in Ids : Resume(w, i)
    BY <1>6
  <2>2. ResumeAt(journal[i]) # "rejournaling"
    BY <2>1, ResumeFits DEF Resume, FilesType, RecoverSteps
  <2> QED BY <2>1, <2>2 DEF Resume
<1> QED BY ONLY StepOf(w), <1>1, <1>2, <1>3, <1>4, <1>5, <1>6 DEF StepOf, Own, Transact, Recover

\* An operation fails in one of five ways.
LEMMA ErrorsCome ==
    ASSUME MemoryType, NEW w \in Workers, Control(w), StepOf(w), mode[w] = "run", op'[w] = op[w],
           outcome'[w] = "error"
    PROVE  outcome[w] = "error" \/ Refuse(w) \/ FailPrivately(w) \/ FailSealed(w) \/ FailActivation(w) \/ FailRemoval(w)
<1> USE DEF MemoryType, Idle, Result, memory, durable, files
<1>1. CASE UnlockPort(w) \/ Rejournal(w) \/ Finish(w) \/ Crash(w) \/ AbandonRecovery(w)
                         \/ EndRecovery(w) \/
        LeaveForReview(w) \/ Settle(w) \/ TryLockPort(w) \/ KeepActive(w) \/ ReuseStaged(w) \/
        ReuseRetained(w) \/ RegisterRetained(w) \/ StartInstall(w)
  BY <1>1 DEF UnlockPort, Rejournal, Finish, Crash, AbandonRecovery, EndRecovery,
       LeaveForReview, Settle,
        TryLockPort, KeepActive, ReuseStaged, ReuseRetained, RegisterRetained, StartInstall
<1>2. CASE StopCancelled(w) \/ PreparePayload(w) \/ SealPayload(w) \/ RetainCleanup(w) \/
        RetainPrivate(w) \/ BeginActivation(w) \/ RollBack(w) \/ BeginRemoval(w) \/
        (\E i \in Ids, request \in Requests : Begin(w, i, request))
  BY <1>2 DEF StopCancelled, PreparePayload, SealPayload, RetainCleanup, RetainPrivate,
        BeginActivation, RollBack, BeginRemoval, Begin
<1>3. CASE Persist(w) \/ Retire(w) \/ PublishPayload(w) \/ AcceptPublished(w)
                      \/ RegisterPublished(w) \/ SwitchPointers(w) \/
        FinishQuarantine(w) \/ Deregister(w) \/ RemoveStaging(w) \/ DiscardPrivate(w) \/ Quarantine(w) \/
        DeleteQuarantine(w)
  BY <1>3 DEF Persist, Retire, PublishPayload, AcceptPublished, RegisterPublished,
       SwitchPointers, FinishQuarantine,
        Deregister, RemoveStaging, DiscardPrivate, Quarantine, DeleteQuarantine
<1>4. CASE (\E i \in Ids : TakeUpCancellation(w, i)) \/ (\E i \in Ids : Resume(w, i))
  BY <1>4 DEF TakeUpCancellation, Resume, At, Control, RunSteps, Locked
<1>5. CASE StartRecovery(w) \/ ListJournals(w) \/ InventoryJournals(w) \/
        (\E i \in Ids : SkipCancellation(w, i)) \/ (\E i \in Ids : SkipJournal(w, i))
  BY <1>5 DEF StartRecovery, ListJournals, InventoryJournals, SkipCancellation, SkipJournal
<1> QED BY ONLY StepOf(w), <1>1, <1>2, <1>3, <1>4, <1>5 DEF StepOf, Own, Transact, Recover

\* Journals are deleted under the port lock, and the worker that does it is
\* then done with the operation.
LEMMA RetiredMoves ==
    ASSUME FilesType, MemoryType, NEW w \in Workers, StepOf(w)
    PROVE  \/ UNCHANGED retired
           \/ /\ retired' = retired \cup {op[w]} /\ Put(op[w], NoJournal) /\ UNCHANGED activity
              /\ pc[w] \in Locked /\ op'[w] = op[w] /\ pc'[w] \notin Locked \cup {"starting"}
<1> USE DEF MemoryType
<1>1. CASE Retire(w)
  BY <1>1 DEF Retire, Goto, Locked
<1>2. CASE FailActivation(w)
  BY <1>2 DEF FailActivation, Goto, Locked
<1>3. CASE UnlockPort(w) \/ Rejournal(w) \/ Finish(w) \/ Crash(w) \/ AbandonRecovery(w)
                         \/ EndRecovery(w) \/
        LeaveForReview(w) \/ Settle(w) \/ TryLockPort(w) \/ Refuse(w) \/ KeepActive(w) \/ ReuseStaged(w) \/
        ReuseRetained(w) \/ RegisterRetained(w) \/ StartInstall(w)
  BY <1>3 DEF UnlockPort, Rejournal, Finish, Crash, AbandonRecovery, EndRecovery,
       LeaveForReview, Settle,
        TryLockPort, Refuse, KeepActive, ReuseStaged, ReuseRetained, RegisterRetained, StartInstall
<1>4. CASE StopCancelled(w) \/ PreparePayload(w) \/ FailPrivately(w) \/ SealPayload(w)
                            \/ RetainCleanup(w) \/
        RetainPrivate(w) \/ BeginActivation(w) \/ RollBack(w) \/ BeginRemoval(w) \/ FailSealed(w) \/
        FailRemoval(w) \/ (\E i \in Ids, request \in Requests : Begin(w, i, request))
  BY <1>4 DEF StopCancelled, PreparePayload, FailPrivately, SealPayload, RetainCleanup,
       RetainPrivate,
        BeginActivation, RollBack, BeginRemoval, FailSealed, FailRemoval, Begin
<1>5. CASE Persist(w) \/ PublishPayload(w) \/ AcceptPublished(w) \/ RegisterPublished(w)
                      \/ SwitchPointers(w) \/
        FinishQuarantine(w) \/ Deregister(w) \/ RemoveStaging(w) \/ DiscardPrivate(w) \/ Quarantine(w) \/
        DeleteQuarantine(w)
  BY <1>5 DEF Persist, PublishPayload, AcceptPublished, RegisterPublished, SwitchPointers,
       FinishQuarantine,
        Deregister, RemoveStaging, DiscardPrivate, Quarantine, DeleteQuarantine
<1>6. CASE StartRecovery(w) \/ ListJournals(w) \/ InventoryJournals(w) \/
        (\E i \in Ids : SkipCancellation(w, i)) \/ (\E i \in Ids : TakeUpCancellation(w, i)) \/
        (\E i \in Ids : SkipJournal(w, i)) \/ (\E i \in Ids : Resume(w, i))
  BY <1>6 DEF StartRecovery, ListJournals, InventoryJournals, SkipCancellation, TakeUpCancellation,
        SkipJournal, Resume
<1> QED BY ONLY StepOf(w), <1>1, <1>2, <1>3, <1>4, <1>5, <1>6 DEF StepOf, Own, Transact, Recover

\* The worker that takes a step stays careful.
LEMMA OwnCareful ==
    ASSUME "remove" \notin Faults, Settled, AllCareful, NEW w \in Workers, StepOf(w)
    PROVE  Careful(w)'
<1>1. /\ FilesType /\ MemoryType /\ Control(w) /\ Fits(w) /\ Sound /\ Careful(w)
      /\ \A i \in Ids : Shape(i, journal[i])
  BY DEF Settled, Sound, AllControl, AllFits, AllCareful, AllRecorded, Recorded
<1>2. Control(w)' /\ Fits(w)' /\ MemoryType'
  BY SoundStep DEF Settled, Sound, AllControl, AllFits
<1>3. pc'[w] # "rejournaling"
  BY <1>1, RejournalingComes DEF Careful
<1>4. ASSUME mode'[w] = "run", draft'[w].kind = "remove" \/ Early(w)' PROVE outcome'[w] # "error"
  <2>1. CASE \E i \in Ids, request \in Requests : Begin(w, i, request)
    BY <1>1, <2>1 DEF Begin, Result, MemoryType
  <2>2. CASE mode[w] = "run" /\ op'[w] = op[w] /\ ~\E i \in Ids, request \in Requests : Begin(w, i, request)
    <3>1. SUFFICES ASSUME outcome'[w] = "error" PROVE FALSE
      OBVIOUS
    <3>2. CASE outcome[w] = "error"
      <4>1. ~Early(w) /\ draft[w].kind # "remove"
        BY <1>1, <2>2, <3>2 DEF Careful
      <4>2. op[w] # NoId
        BY <1>1, <2>2 DEF Control, RunSteps, Idling, Locked
      <4>3. ~Early(w)'
        BY <1>1, <2>2, <4>1, EarlyComes
      <4>4. draft'[w].kind = "remove"
        BY <1>4, <4>3
      <4> QED BY <1>1, <4>1, <4>2, <4>4, KindStays
    <3>3. CASE Refuse(w)
      BY <1>1, <1>4, <3>3 DEF Refuse, Hold, Goto, NoJournal, Early, MemoryType
    <3>4. CASE FailPrivately(w)
      <4>1. IsPrivate(draft[w]) /\ pc'[w] = "discarding" /\ draft'[w] = draft[w]
        BY <1>1, <3>4 DEF FailPrivately, Goto, Control, DraftFits, Idling, MemoryType
      <4> QED BY <1>4, <4>1 DEF IsPrivate, Early
    <3>5. CASE FailSealed(w)
      BY <1>1, <1>4, <3>5 DEF FailSealed, Goto, Early, MemoryType
    <3>6. CASE FailActivation(w)
      BY <1>1, <1>4, <3>6 DEF FailActivation, Goto, Early, MemoryType
    <3>7. CASE FailRemoval(w)
      BY <3>7 DEF FailRemoval, MayFail
    <3> QED BY <1>1, <2>2, <3>1, <3>2, <3>3, <3>4, <3>5, <3>6, <3>7, ErrorsCome
  <2> QED BY <1>1, <1>4, <2>1, <2>2, RunStays
<1>5. ASSUME pc'[w] \in Working PROVE journal'[op'[w]] = draft'[w]
  <2>1. CASE Persist(w)
    <3>1. op[w] \in Ids /\ op'[w] = op[w] /\ draft'[w] = draft[w] /\ journal' = [journal EXCEPT ![op[w]] = draft[w]]
      BY <1>1, <2>1 DEF Persist, Put, Control, Idling, MemoryType
    <3> QED BY <1>1, <3>1 DEF FilesType
  <2>2. CASE \E i \in Ids : TakeUpCancellation(w, i)
    <3>1. PICK i \in Ids : TakeUpCancellation(w, i)
      BY <2>2
    <3> QED BY <1>1, <1>5, <3>1 DEF TakeUpCancellation, Hold, Goto, MemoryType, Working,
         Locked, durable
  <2>3. CASE \E i \in Ids : Resume(w, i)
    <3>1. PICK i \in Ids : Resume(w, i)
      BY <2>3
    <3> QED BY <1>1, <3>1 DEF Resume, Hold, MemoryType, durable
  <2>4. CASE pc[w] \in Working /\ op'[w] = op[w] /\ draft'[w] = draft[w] /\ UNCHANGED journal
    BY <1>1, <2>4 DEF Careful
  <2> QED BY <1>1, <1>5, <2>1, <2>2, <2>3, <2>4, WorkingComes
<1>6. ASSUME pc'[w] \in Locked \cup {"starting"} PROVE op'[w] \notin retired'
  <2>1. op'[w] \in Ids /\ retired' = retired
    <3>1. op'[w] # NoId
      BY <1>2, <1>6 DEF Control, Locked, Idling
    <3> QED BY <1>1, <1>2, <1>6, <3>1, RetiredMoves DEF MemoryType
  <2>2. CASE op[w] = op'[w]
    BY <1>1, <1>6, <2>1, <2>2, LockedComes, DistinctValues DEF Careful
  <2>3. CASE \E request \in Requests : Begin(w, op'[w], request)
    BY <2>1, <2>3 DEF Begin, AllCareful, Done
  <2>4. CASE TakeUpCancellation(w, op'[w])
    <3>1. pc'[w] = "discarding" => journal[op'[w]].kind = "install"
      BY <1>1, <2>4 DEF TakeUpCancellation, IsPrivate, Goto, MemoryType
    <3>2. pc'[w] \in {"discarding", "settling"}
      BY <1>1, <2>4 DEF TakeUpCancellation, Goto, MemoryType
    <3> QED BY <1>6, <2>1, <3>1, <3>2 DEF AllCareful, Done, NoJournal, Locked
  <2>5. CASE Resume(w, op'[w])
    BY <2>1, <2>5 DEF Resume, AllCareful, Done, NoJournal
  <2> QED BY <1>1, <2>1, <2>2, <2>3, <2>4, <2>5, OpComes
<1> QED BY <1>3, <1>4, <1>5, <1>6 DEF Careful

\* And so do the others: while one of them works, it has the port lock.
LEMMA OthersCareful ==
    ASSUME Settled, AllCareful, NEW w \in Workers, StepOf(w), NEW x \in Workers \ {w}
    PROVE  Careful(x)'
<1>1. /\ FilesType /\ MemoryType /\ Control(w) /\ Control(x) /\ Sound /\ Careful(w) /\ Careful(x) /\ Pairs
  BY DEF Settled, Sound, AllControl, AllCareful
<1>2. Same(x)
  BY <1>1, OthersKeepTheirMemory
<1>3. pc[x] \in Working => UNCHANGED journal
  <2>1. SUFFICES ASSUME pc[x] \in Working PROVE UNCHANGED journal
    OBVIOUS
  <2>2. pc[w] \notin Locked
    BY <1>1, <2>1 DEF Control, Working
  <2>3. ~Rejournal(w)
    BY <1>1 DEF Rejournal, Running, Careful
  <2> QED BY <2>2, <2>3, WritesAreLocked
<1>4. ASSUME pc[x] \in Locked \cup {"starting"} PROVE op[x] \notin retired'
  <2>1. op[x] \in Ids
    BY <1>1, <1>4 DEF Control, Locked, Idling, MemoryType
  <2>2. CASE UNCHANGED retired
    BY <1>1, <1>4, <2>2 DEF Careful
  <2>3. CASE retired' = retired \cup {op[w]} /\ pc[w] \in Locked
    <3>1. pc[x] = "starting"
      BY <1>1, <1>4, <2>3 DEF Control
    <3>2. op[x] # op[w]
      BY <1>1, <2>1, <3>1, DistinctValues DEF Pairs, Early
    <3> QED BY <1>1, <1>4, <2>3, <3>2 DEF Careful
  <2> QED BY <1>1, <2>2, <2>3, RetiredMoves
<1>5. Early(x)' <=> Early(x)
  BY <1>2 DEF Same, Early
<1> QED BY <1>1, <1>2, <1>3, <1>4, <1>5 DEF Careful, Same

\* What has been done stays done.
LEMMA DoneStays ==
    ASSUME Settled, AllCareful, NEW w \in Workers, StepOf(w), NEW i \in retired'
    PROVE  Done(i)'
<1>1. /\ FilesType /\ MemoryType /\ Control(w) /\ Sound /\ Careful(w) /\ Asking(w)
  BY DEF Settled, Sound, AllControl, AllCareful, AllAsking
<1>2. CASE i \in retired
  <2>1. Done(i) /\ i \in Ids
    BY <1>1, <1>2 DEF AllCareful, FilesType
  <2>2. activity'[i].status # "unused"
    BY <1>1, <2>1, StatusMoves DEF Done
  <2>3. journal'[i] = journal[i]
    <3>1. CASE pc[w] \in Locked
      BY <1>1, <1>2, <2>1, <3>1, JournalMoves DEF Careful, Put, FilesType
    <3>2. CASE pc[w] \notin Locked
      BY <1>1, <3>2, WritesAreLocked DEF Rejournal, Running, Careful
    <3> QED BY <3>1, <3>2
  <2> QED BY <2>1, <2>2, <2>3 DEF Done
<1>3. CASE i \notin retired
  <2>1. i = op[w] /\ Put(i, NoJournal) /\ UNCHANGED activity /\ pc[w] \in Locked
    BY <1>1, <1>3, RetiredMoves
  <2>2. i \in Ids /\ activity[i].status # "unused"
    BY <1>1, <2>1 DEF Control, Locked, Idling, MemoryType, Asking
  <2> QED BY <1>1, <2>1, <2>2 DEF Put, FilesType, Done
<1> QED BY <1>2, <1>3

\* Every step keeps the workers careful and the deleted journals deleted.
LEMMA CarefulNext ==
    ASSUME "remove" \notin Faults, Settled, AllCareful, [Next]_vars
    PROVE  AllCareful'
<1>1. ASSUME NEW w \in Workers, StepOf(w) PROVE AllCareful'
  BY <1>1, OwnCareful, OthersCareful, DoneStays DEF AllCareful
<1>2. CASE (\E k \in Ids : RequestCancellation(k)) \/ UNCHANGED vars
  <2>1. /\ UNCHANGED <<journal, memory, retired>> /\ FilesType
        /\ \A i \in Ids : activity'[i].status = activity[i].status
    BY <1>2, RequestsAreCalm DEF Settled, Sound
  <2> QED BY <2>1 DEF AllCareful, Careful, Done, Early, memory, FilesType
<1> QED BY <1>1, <1>2, NextSteps

\* The invariant of a library in which no removal fails.
LEMMA StaysCareful ==
    ASSUME "remove" \notin Faults
    PROVE  Spec => []AllCareful
<1>1. Init => AllCareful
  BY DistinctValues DEF Init, AllCareful, Careful, Working, Locked, NoJournal
<1>2. Settled /\ AllCareful /\ [Next]_vars => AllCareful'
  BY CarefulNext
<1> QED BY <1>1, <1>2, StaysSettled, PTL DEF Spec

\* Whoever changes files or rows does it under the port lock, for the step its
\* journal records, as long as no removal fails.  The hypothesis is needed:
\* a failed removal writes its journal after it has let go of the lock, when
\* a recovery may already have gone on from it.
THEOREM JournalsAreFollowed ==
    ASSUME "remove" \notin Faults
    PROVE  Spec => []JournalMatchesStep
<1>1. Settled /\ AllCareful => JournalMatchesStep
  BY DEF Settled, Sound, AllControl, Control, AllCareful, Careful, Working, Locked,
       JournalMatchesStep
<1> QED BY <1>1, StaysSettled, StaysCareful, PTL

\* A journal that was deleted is not created again, as long as no removal
\* fails; the late write of a failed one may re-create it.
THEOREM RetiredStay ==
    ASSUME "remove" \notin Faults
    PROVE  Spec => []RetiredJournalsStayRetired
<1>1. AllCareful => RetiredJournalsStayRetired
  BY DEF AllCareful, Done, NoJournal, RetiredJournalsStayRetired
<1> QED BY <1>1, StaysCareful, PTL

-----------------------------------------------------------------------------
(* A library nobody removes from.  remove_port deletes every row of a      *)
(* port; an interrupted removal that is finished after another install     *)
(* takes its row too and leaves its files, so what this section says holds *)
(* where no removal is begun.                                              *)

\* An install whose journal says that its row was written.
Committed(j) == /\ j.kind = "install"
                /\ j.phase = "metadata_committed" \/ (j.phase = "cleanup_pending" /\ j.install # NoId)

\* No removal is under way, what was committed has its row, and whatever is
\* published has a row or will have one.
Owned ==
    /\ \A w \in Workers :
         /\ mode[w] = "run" => want[w].kind # "remove"
         /\ draft[w].kind # "remove"
         /\ Committed(draft[w]) => op[w] \in inv.registered
    /\ \A i \in Ids :
         /\ journal[i].kind # "remove"
         /\ Committed(journal[i]) => i \in inv.registered
         /\ Published(i) => \/ i \in inv.registered
                            \/ /\ journal[i].kind = "install"
                               /\ journal[i].phase \in {"prepared", "payload_published"}

\* Rows are added and never taken away.
LEMMA RowsOnlyGrow ==
    ASSUME Settled, Owned, NEW w \in Workers, StepOf(w), NEW i \in inv.registered
    PROVE  i \in inv'.registered
<1>1. /\ FilesType /\ Control(w)
  BY DEF Settled, Sound, AllControl
<1>2. ~Deregister(w)
  BY <1>1 DEF Deregister, At, Control, DraftFits, Idling, Owned
<1> QED BY <1>1, <1>2, RowsStay

\* No request asks for a removal.
LEMMA NobodyRemoves ==
    ASSUME "remove" \notin Workload, Settled, Owned, NEW w \in Workers, StepOf(w), mode'[w] = "run"
    PROVE  want'[w].kind # "remove"
<1>1. /\ FilesType /\ MemoryType /\ Control(w)
  BY DEF Settled, Sound, AllControl
<1>2. CASE \E i \in Ids, request \in Requests : Begin(w, i, request)
  <2>1. PICK i \in Ids, request \in Requests : Begin(w, i, request)
    BY <1>2
  <2>2. request.kind # "remove"
    BY DEF Requests
  <2> QED BY <1>1, <2>1, <2>2 DEF Begin, MemoryType
<1>3. CASE mode[w] = "run" /\ want'[w] = want[w]
  BY <1>3 DEF Owned
<1> QED BY <1>1, <1>2, <1>3, RunStays

\* A worker does not come to hold the journal of a removal, and when it
\* holds that of a committed install, the row is there.
LEMMA DraftsStayOwned ==
    ASSUME Settled, Owned, NEW w \in Workers, StepOf(w)
    PROVE  /\ draft'[w].kind # "remove"
           /\ Committed(draft'[w]) => op'[w] \in inv'.registered
<1>1. /\ FilesType /\ MemoryType /\ Control(w) /\ Control(w)' /\ draft[w] \in Journal
  BY SoundStep DEF Settled, Sound, AllControl, MemoryType
<1>2. draft[w].kind # "remove" /\ (Committed(draft[w]) => op[w] \in inv.registered)
  BY DEF Owned
<1>3. CASE draft'[w] = draft[w]
  <2>1. SUFFICES ASSUME Committed(draft[w]) PROVE op'[w] \in inv'.registered
    BY <1>2, <1>3
  <2>2. op[w] # NoId /\ op'[w] # NoId
    BY <1>1, <1>3, <2>1 DEF Control, Committed, NoJournal
  <2>3. op'[w] \in Ids
    BY <2>2, SoundStep DEF Settled, Sound, MemoryType
  <2>4. ~\E request \in Requests : Begin(w, op'[w], request)
    BY <1>1, <2>2 DEF Begin, Control, Idling
  <2>5. ~TakeUpCancellation(w, op'[w]) /\ ~Resume(w, op'[w])
    BY <1>1, <2>2 DEF TakeUpCancellation, Resume, At, Control, Idling
  <2>6. op'[w] = op[w]
    BY <1>1, <2>3, <2>4, <2>5, OpComes
  <2> QED BY <1>2, <2>1, <2>6, RowsOnlyGrow
<1>4. CASE draft'[w] = NoJournal
  BY <1>4 DEF NoJournal, Committed
<1>5. CASE \E i \in Ids : (TakeUpCancellation(w, i) \/ Resume(w, i)) /\ draft'[w] = journal[i]
  <2>1. PICK i \in Ids : (TakeUpCancellation(w, i) \/ Resume(w, i)) /\ draft'[w] = journal[i]
    BY <1>5
  <2>2. op'[w] = i
    BY <1>1, <2>1 DEF TakeUpCancellation, Resume, MemoryType
  <2> QED BY <2>1, <2>2, RowsOnlyGrow DEF Owned
<1>6. CASE ReuseStaged(w)
  BY <1>1, <1>3, <1>6 DEF ReuseStaged, Hold, Begun, Committed, MemoryType
<1>7. CASE BeginActivation(w) \/ StartInstall(w)
  BY <1>1, <1>7 DEF BeginActivation, StartInstall, Hold, Begun, Committed, MemoryType
<1>8. CASE BeginRemoval(w)
  BY <1>8 DEF BeginRemoval, Serving, Running, Owned
<1>9. CASE ReuseRetained(w)
  <2>1. draft[w] = NoJournal
    BY <1>1, <1>9 DEF ReuseRetained, Choosing, Serving, Running, Control, DraftFits, Idling
  <2>2. draft'[w].kind = "none"
    BY <1>1, <1>9, <2>1, NoJournalType DEF ReuseRetained, MemoryType, NoJournal
  <2> QED BY <2>2 DEF Committed
<1>10. CASE SealPayload(w)
  BY <1>1, <1>2, <1>10 DEF SealPayload, Committed, MemoryType, Journal
<1>11. CASE AcceptPublished(w) \/ PublishPayload(w)
  BY <1>1, <1>2, <1>11 DEF AcceptPublished, PublishPayload, InMemory, Committed, MemoryType, Journal
<1>12. CASE RetainCleanup(w)
  <2>1. pc[w] \in {"cleaning", "deleting"} /\ draft' = [draft EXCEPT ![w].phase = "cleanup_pending"]
        /\ op' = op /\ inv' = inv
    BY <1>12 DEF RetainCleanup, InMemory, durable
  <2>2. pc[w] = "cleaning" /\ draft[w].kind = "install" /\ draft[w].install = op[w] /\ op[w] # NoId
        /\ draft[w].phase \in {"metadata_committed", "cleanup_pending"}
    BY <1>1, <1>2, <2>1 DEF Control, DraftFits, Idling
  <2>3. op[w] \in inv.registered
    BY <1>2, <2>2 DEF Committed
  <2> QED BY <1>1, <1>2, <2>1, <2>3 DEF MemoryType, Journal
<1>13. CASE RegisterPublished(w)
  <2>1. /\ pc[w] = "registering" /\ inv' = RegisterInstall(inv, draft[w].install, draft[w].activate)
        /\ draft' = [draft EXCEPT ![w].phase = "metadata_committed"] /\ op' = op
    BY <1>13 DEF RegisterPublished, At, InMemory
  <2>2. draft[w].install = op[w]
    BY <1>1, <2>1 DEF Control, DraftFits, Shape, Idling, NoJournal
  <2>3. op[w] \in inv'.registered
    BY <2>1, <2>2 DEF RegisterInstall
  <2> QED BY <1>1, <1>2, <2>1, <2>3 DEF MemoryType, Journal
<1>14. CASE SwitchPointers(w)
  <2>1. draft[w].kind = "activate"
    BY <1>1, <1>14 DEF SwitchPointers, At, Control, DraftFits, Idling
  <2> QED BY <1>1, <1>14, <2>1 DEF SwitchPointers, InMemory, Committed, MemoryType, Journal
<1>15. CASE FinishQuarantine(w) \/ Deregister(w)
  BY <1>1, <1>2, <1>15 DEF FinishQuarantine, Deregister, At, Control, DraftFits, Idling
<1>16. CASE RetainPrivate(w)
  <2>1. draft[w].kind = "install" /\ draft[w].phase = "preparing" /\ pc[w] \in {"discarding", "retiring"}
    BY <1>16 DEF RetainPrivate
  <2>2. draft[w].install = NoId
    BY <1>1, <2>1 DEF Control, DraftFits, Shape, Idling, NoJournal
  <2> QED BY <1>1, <1>3, <1>16, <2>1, <2>2, SMTT(30) DEF RetainPrivate, InMemory, Committed, MemoryType,
       Journal
<1> QED BY <1>1, <1>3, <1>4, <1>5, <1>6, <1>7, <1>8, <1>9, <1>10, <1>11, <1>12, <1>13, <1>14,
     <1>15, <1>16, DraftComes

\* A journal is erased by retiring it, or by an activation that failed.
LEMMA ErasedBy ==
    ASSUME FilesType, MemoryType, NEW w \in Workers, Control(w), StepOf(w), NEW i \in Ids,
           journal'[i] = NoJournal, journal[i] # NoJournal
    PROVE  i = op[w] /\ (Retire(w) \/ FailActivation(w))
<1>1. i = op[w] /\ ~UNCHANGED journal
  BY JournalMoves DEF Put, FilesType
<1>2. CASE Persist(w)
  <2>1. draft[w].kind # "none"
    BY <1>1, <1>2, DistinctValues DEF Persist, Control, DraftFits, Idling
  <2> QED BY <1>1, <1>2, <2>1 DEF Persist, Put, FilesType, NoJournal
<1>3. CASE FailSealed(w)
  BY <1>1, <1>3 DEF FailSealed, MaybePut, Put, FilesType, NoJournal
<1>4. CASE Rejournal(w)
  <2>1. draft[w].kind = "remove"
    BY <1>1, <1>4, DistinctValues DEF Rejournal, Running, Control, DraftFits, Idling
  <2> QED BY <1>1, <1>4, <2>1 DEF Rejournal, Put, FilesType, NoJournal
<1> QED BY <1>1, <1>2, <1>3, <1>4, QuietOrWrites DEF Quiet, Writes, StartInstall,
     PreparePayload, RemoveStaging,
        DiscardPrivate, PublishPayload, RegisterRetained, RegisterPublished, SwitchPointers,
             RollBack, Deregister,
        Quarantine, DeleteQuarantine, files

\* What is published keeps its row, or the journal that will write one.
LEMMA PublishedStayOwned ==
    ASSUME Settled, Owned, NEW w \in Workers, StepOf(w), NEW i \in Ids
    PROVE  /\ journal'[i].kind # "remove"
           /\ Committed(journal'[i]) => i \in inv'.registered
           /\ Published(i)' => \/ i \in inv'.registered
                               \/ /\ journal'[i].kind = "install"
                                  /\ journal'[i].phase \in {"prepared", "payload_published"}
<1>1. /\ FilesType /\ MemoryType /\ Control(w) /\ Fits(w) /\ AllRecorded /\ Sound
      /\ draft[w].kind # "remove"
  BY DEF Settled, Sound, AllControl, AllFits, Owned
<1>2. /\ journal[i].kind # "remove"
      /\ Committed(journal[i]) => i \in inv.registered
      /\ Published(i) => \/ i \in inv.registered
                         \/ /\ journal[i].kind = "install"
                            /\ journal[i].phase \in {"prepared", "payload_published"}
  BY DEF Owned
<1>3. CASE journal'[i] = journal[i]
  <2>1. CASE PublishPayload(w) /\ i = op[w]
    BY <1>1, <1>2, <1>3, <2>1, PublishingIsNew, RowsOnlyGrow
  <2>2. CASE Published(i)' => Published(i)
    BY <1>2, <1>3, <2>2, RowsOnlyGrow
  <2> QED BY <1>1, <2>1, <2>2, PublishedGrows
<1>4. CASE journal'[i] # journal[i]
  <2>1. /\ i = op[w] /\ UNCHANGED <<inv, version>>
        /\ \/ journal'[i] = NoJournal
           \/ journal'[i] = draft[w] /\ draft[w].kind # "none" /\ pc[w] = "persisting" /\ Before(w)
    BY <1>1, <1>4, Stores
  <2>2. Published(i)' => Published(i)
    BY <2>1 DEF Published
  <2>3. Committed(draft[w]) => i \in inv.registered
    BY <2>1 DEF Owned
  <2>4. ASSUME journal[i].kind = "install", journal[i].phase \in {"prepared", "payload_published"},
               Published(i), journal'[i] = NoJournal
        PROVE  FALSE
    <3>1. Retire(w) \/ FailActivation(w)
      BY <1>1, <1>4, <2>4, ErasedBy
    <3>2. CASE Retire(w)
      <4>1. pc[w] = "retiring"
        BY <3>2 DEF Retire
      <4>2. journal[i] = draft[w]
        BY <1>1, <2>1, <4>1 DEF Fits, Locked
      <4> QED BY <1>1, <2>1, <2>4, <4>1, <4>2, DistinctValues DEF Control, DraftFits, Idling
    <3>3. CASE FailActivation(w)
      BY <1>1, <2>1, <2>4, <3>3 DEF FailActivation, Fits
    <3> QED BY <3>1, <3>2, <3>3
  <2>5. ASSUME journal[i].kind = "install", journal[i].phase \in {"prepared", "payload_published"},
               Published(i), journal'[i] = draft[w], draft[w].kind # "none", pc[w] = "persisting", Before(w)
        PROVE  \/ i \in inv.registered
               \/ draft[w].kind = "install" /\ draft[w].phase \in {"prepared", "payload_published"}
    <3>1. draft[w].kind = "install" /\ Shape(i, draft[w])
      BY <1>1, <2>1, <2>5, DistinctValues DEF Fits, Control, DraftFits, Idling
    <3>2. CASE draft[w].phase = "preparing"
      BY <2>1, <2>5, <3>2 DEF Before, Fresh, Traced
    <3>3. CASE draft[w].phase = "metadata_committed"
      BY <2>3, <3>1, <3>3 DEF Committed
    <3>4. CASE draft[w].phase = "cleanup_pending"
      BY <2>1, <2>3, <2>5, <3>1, <3>4 DEF Committed, Before, IsPrivate
    <3> QED BY <3>1, <3>2, <3>3, <3>4 DEF Shape, NoJournal
  <2>6. journal'[i].kind # "remove" /\ (Committed(journal'[i]) => i \in inv'.registered)
    BY <1>1, <2>1, <2>3 DEF NoJournal, Committed
  <2> QED BY <1>2, <2>1, <2>2, <2>4, <2>5, <2>6
<1> QED BY <1>3, <1>4

\* Every step keeps what is published owned.
LEMMA OwnedNext ==
    ASSUME "remove" \notin Workload, Settled, Owned, [Next]_vars
    PROVE  Owned'
<1>1. ASSUME NEW w \in Workers, StepOf(w) PROVE Owned'
  <2>1. ASSUME NEW x \in Workers \ {w}
        PROVE  /\ mode'[x] = "run" => want'[x].kind # "remove"
               /\ draft'[x].kind # "remove"
               /\ Committed(draft'[x]) => op'[x] \in inv'.registered
    <3>1. Same(x)
      BY <1>1, OthersKeepTheirMemory DEF Settled, Sound
    <3> QED BY <1>1, <3>1, RowsOnlyGrow DEF Same, Owned
  <2>2. /\ mode'[w] = "run" => want'[w].kind # "remove"
        /\ draft'[w].kind # "remove"
        /\ Committed(draft'[w]) => op'[w] \in inv'.registered
    BY <1>1, NobodyRemoves, DraftsStayOwned
  <2>3. ASSUME NEW i \in Ids
        PROVE  /\ journal'[i].kind # "remove"
               /\ Committed(journal'[i]) => i \in inv'.registered
               /\ Published(i)' => \/ i \in inv'.registered
                                   \/ /\ journal'[i].kind = "install"
                                      /\ journal'[i].phase \in {"prepared", "payload_published"}
    BY <1>1, PublishedStayOwned
  <2> QED BY <2>1, <2>2, <2>3 DEF Owned, Committed
<1>2. CASE (\E k \in Ids : RequestCancellation(k)) \/ UNCHANGED vars
  <2>1. UNCHANGED <<inv, version, journal, memory>>
    BY <1>2, RequestsAreCalm DEF Settled
  <2> QED BY <2>1 DEF Owned, Committed, Published, memory
<1> QED BY <1>1, <1>2, NextSteps

\* The invariant of a library from which nothing is removed.
LEMMA StaysOwned ==
    ASSUME "remove" \notin Workload
    PROVE  Spec => []Owned
<1>1. Init => Owned
  <2>1. SUFFICES ASSUME Init PROVE Owned
    OBVIOUS
  <2>2. \A i \in Ids : ~Published(i)
    BY <2>1, DistinctValues DEF Init, Published
  <2> QED BY <2>1, <2>2 DEF Init, Owned, Committed, NoJournal
<1>2. Settled /\ Owned /\ [Next]_vars => Owned'
  BY OwnedNext
<1> QED BY <1>1, <1>2, StaysSettled, PTL DEF Spec

\* A version path belongs to a row, or to an install whose journal will still
\* write that row, as long as no removal is begun.  The hypothesis is needed:
\* remove_port of a removal that is finished late deletes rows whose versions
\* it has not put in quarantine.
THEOREM PublishedFilesAreOwned ==
    ASSUME "remove" \notin Workload
    PROVE  Spec => []PublishedFilesHaveAnOwner
<1>1. ASSUME Settled, Owned PROVE PublishedFilesHaveAnOwner
  <2>1. SUFFICES ASSUME NEW b \in Builds, version[b] # NoId, version[b] \notin inv.registered
                 PROVE  /\ journal[version[b]].install = version[b]
                        /\ journal[version[b]].phase \in {"prepared", "payload_published"}
    BY DEF PublishedFilesHaveAnOwner
  <2>2. version[b] \in Ids /\ Published(version[b])
    BY <1>1, <2>1 DEF Settled, Sound, FilesType, Published
  <2>3. Shape(version[b], journal[version[b]])
    BY <1>1, <2>2 DEF Settled, Sound, AllRecorded, Recorded
  <2>4. /\ journal[version[b]].kind = "install"
        /\ journal[version[b]].phase \in {"prepared", "payload_published"}
    BY <1>1, <2>1, <2>2 DEF Owned
  <2> QED BY <2>3, <2>4 DEF Shape, NoJournal
<1>2. Settled /\ Owned => PublishedFilesHaveAnOwner
  BY <1>1
<1> QED BY <1>2, StaysSettled, StaysOwned, PTL

=============================================================================
