----------------------- MODULE InstallLifecycleProofs -----------------------
(***************************************************************************)
(* The inductive invariant of InstallLifecycle, for every number of        *)
(* operations, builds and workers, every workload and every set of faults. *)
(*                                                                         *)
(* The port lock keeps two workers from writing files or rows at once, but *)
(* it is given up and taken again: by a crash, by a recovery that leaves   *)
(* what it cannot decide, by a removal that fails.  So the invariant says  *)
(* of every step what whoever takes it may count on (Control, Fits), of    *)
(* every journal what it tells the next recovery about the files and the   *)
(* rows (Recorded), and of two workers at one operation what they have in  *)
(* common (Pairs); and, of every operation that has been asked to stop or  *)
(* may still be, that all its work is private (Asked).                     *)
(***************************************************************************)
EXTENDS InstallLifecycle, TLAPS

-----------------------------------------------------------------------------
(* The steps.                                                              *)

\* The steps of an operation that are taken under the port lock.
Locked == {"choosing", "preparing", "sealing", "persisting", "publishing", "registering",
           "cleaning", "reusing", "switching", "quarantining", "deregistering", "deleting",
           "discarding", "retiring", "resuming"}

\* A worker that is at no operation.
Idling == {"off", "rest", "listing", "cancelling", "recovering"}

RunSteps == (Locked \ {"resuming"}) \cup {"starting", "unlocking", "rejournaling", "finishing"}
CancelSteps == {"listing", "cancelling", "discarding", "retiring", "settling"}
RecoverSteps == {"recovering", "settling", "persisting", "publishing", "registering", "cleaning",
                 "switching", "quarantining", "deregistering", "deleting", "discarding",
                 "retiring", "resuming", "unlocking"}

\* The journals that operation i can have.
Shape(i, j) ==
    \/ j = NoJournal
    \/ /\ j.kind = "install" /\ j.removed = {}
       /\ \/ j.phase = "preparing" /\ j.install = NoId
          \/ j.phase \in {"prepared", "payload_published", "metadata_committed"} /\ j.install = i
          \/ j.phase = "cleanup_pending" /\ j.install \in {i, NoId}
    \/ /\ j.kind = "activate" /\ j.removed = {} /\ j.install \in Ids
       /\ j.phase \in {"preparing", "metadata_committed"}
    \/ /\ j.kind = "remove"
       /\ j.phase \in {"preparing", "payload_published", "metadata_committed", "cleanup_pending"}

\* The journal of an install that has nothing but private files.
Private(j) == IsPrivate(j) \/ DueCleanup(j)

\* The journal that a worker at a step has in memory.
DraftFits(step, i, j) ==
    /\ step # "reusing" => Shape(i, j)
    /\ step = "reusing" => j.kind = "none" /\ j.phase = "none" /\ j.removed = {} /\ j.install \in Ids
    /\ step \in {"starting", "choosing"} => j = NoJournal
    /\ step \in {"preparing", "sealing", "resuming"} => IsPrivate(j)
    /\ step = "publishing" => j.kind = "install" /\ j.phase = "prepared"
    /\ step = "registering" => j.kind = "install" /\ j.phase = "payload_published"
    /\ step = "cleaning" => /\ j.kind = "install" /\ j.install = i
                            /\ j.phase \in {"metadata_committed", "cleanup_pending"}
    /\ step = "discarding" => Private(j)
    /\ step = "switching" => j.kind = "activate" /\ j.phase = "preparing"
    /\ step = "quarantining" => j.kind = "remove" /\ j.phase = "preparing"
    /\ step = "deregistering" => j.kind = "remove" /\ j.phase = "payload_published"
    /\ step = "deleting" => j.kind = "remove" /\ j.phase \in {"metadata_committed", "cleanup_pending"}
    /\ step = "persisting" => j.kind # "none"
    /\ step = "retiring" =>
         \/ j.kind = "install" /\ j.phase \notin {"prepared", "payload_published"}
         \/ j.kind = "activate" /\ j.phase = "metadata_committed"
         \/ j.kind = "remove" /\ j.phase \in {"metadata_committed", "cleanup_pending"}
    /\ step = "rejournaling" => j.kind = "remove"

\* Why a worker is where it is, and that it has the lock where it needs it.
Control(w) ==
    /\ mode[w] = "none" <=> pc[w] \in {"off", "rest"}
    /\ mode[w] = "run" => pc[w] \in RunSteps
    /\ mode[w] = "cancel" => pc[w] \in CancelSteps
    /\ mode[w] = "recover" => pc[w] \in RecoverSteps
    /\ op[w] = NoId <=> pc[w] \in Idling
    /\ op[w] = NoId => draft[w] = NoJournal
    /\ op[w] # NoId => DraftFits(pc[w], op[w], draft[w])
    /\ pc[w] \in Locked => lock = w
    /\ pc[w] = "settling" /\ mode[w] = "recover" => lock = w
    /\ pc[w] = "persisting" /\ draft[w].phase = "preparing" => mode[w] = "run"
    /\ mode[w] = "cancel" /\ pc[w] = "retiring" => Private(draft[w])

-----------------------------------------------------------------------------
(* The files, the rows and the journals.                                   *)

Removing(i) ==
    \/ \E r \in Ids : i \in journal[r].removed
    \/ \E w \in Workers : i \in draft[w].removed
Published(i) == \E b \in Builds : version[b] = i

\* Whether the library, or a removal from it, knows of version i.
Traced(i) == i \in inv.registered \/ Published(i) \/ Removing(i)

\* An operation that has written nothing yet.
Fresh(i) == journal[i] = NoJournal /\ staging[i] = "none" /\ quarantine[i] = {} /\ ~Traced(i)
Early(w) == pc[w] \in {"starting", "choosing"} \/ (pc[w] = "persisting" /\ draft[w].phase = "preparing")

\* The stored journal of an operation whose next phase w is about to store.
Before(w) ==
    LET j == journal[op[w]]  d == draft[w]
    IN  /\ d.phase = "preparing" => Fresh(op[w])
        /\ d.kind = "install" =>
             /\ d.phase = "prepared" => IsPrivate(j)
             /\ d.phase = "payload_published" =>
                  j.kind = "install" /\ j.phase = "prepared" /\ staging[op[w]] # "payload"
             /\ d.phase = "metadata_committed" => j.kind = "install" /\ j.phase = "payload_published"
             /\ d.phase = "cleanup_pending" /\ d.install = NoId => IsPrivate(j)
             /\ d.phase = "cleanup_pending" /\ d.install # NoId =>
                  j.kind = "install" /\ ~Private(j) /\ j.phase # "prepared"
        /\ d.kind # "install" /\ d.phase # "preparing" => j.kind = d.kind

\* What a worker at a step finds in the journal and in the files.  A removal
\* may find its journal in another phase, written late by an attempt that
\* failed.
Fits(w) ==
    /\ pc[w] \in {"starting", "choosing"} => Fresh(op[w])
    /\ pc[w] = "reusing" => draft[w].install \in inv.registered
    /\ pc[w] = "persisting" => Before(w)
    /\ pc[w] \in Locked \ {"choosing", "reusing", "persisting"} =>
          IF draft[w].kind = "remove" THEN journal[op[w]].kind = "remove"
          ELSE journal[op[w]] = draft[w]
    /\ mode[w] = "run" /\ pc[w] \in {"persisting", "registering"} =>
          (draft[w].kind = "install" /\ draft[w].phase = "payload_published" => Live(op[w]))
    /\ mode[w] = "run" /\ pc[w] \in {"persisting", "quarantining"} =>
          (draft[w].kind = "remove" /\ draft[w].phase = "preparing" =>
              \A i \in draft[w].removed \ quarantine[op[w]] : Live(i))
    /\ pc[w] = "retiring" => staging[op[w]] = "none" /\ quarantine[op[w]] = {}
    /\ draft[w].kind # "none" =>
          /\ journal[op[w]].kind \in {"none", draft[w].kind}
          /\ journal[op[w]].kind = "remove" => journal[op[w]].removed = draft[w].removed
    /\ draft[w].kind = "install" => build[op[w]] \in Builds

\* What a removal has recorded as deleted has neither row nor path.
Gone(j) == j.kind = "remove" /\ j.phase \in {"metadata_committed", "cleanup_pending"} =>
              \A i \in j.removed : i \notin inv.registered /\ ~Published(i)

\* Two workers at one operation are its owner, past the beginning, and a
\* recovery that took up a journal of it; they remove the same versions.
Pairs ==
    \A w, x \in Workers : w # x /\ op[w] = op[x] /\ op[w] # NoId =>
        /\ ~Early(w)
        /\ ~(mode[w] # "recover" /\ mode[x] # "recover")
        /\ draft[w].kind # "none" /\ draft[x].kind # "none" =>
             draft[w].kind = draft[x].kind /\ draft[w].removed = draft[x].removed

\* What the journal of operation i says of its files and its row.
Recorded(i) ==
    /\ Shape(i, journal[i])
    /\ activity[i].status = "unused" => Fresh(i) /\ \A w \in Workers : op[w] # i
    /\ staging[i] # "none" => journal[i].kind = "install"
    /\ staging[i] = "payload" => journal[i].phase = "prepared" \/ Private(journal[i])
    /\ quarantine[i] # {} => journal[i].kind = "remove" /\ quarantine[i] \subseteq journal[i].removed
    /\ journal[i].kind = "install" => build[i] \in Builds
    /\ \A b \in Builds : version[b] = i => build[i] = b
    /\ Traced(i) => /\ build[i] \in Builds /\ staging[i] # "payload"
                    /\ journal[i].kind = "install" => ~Private(journal[i])
    /\ i \in inv.registered \/ Removing(i) =>
         ~(journal[i].kind = "install" /\ journal[i].phase = "prepared")
    /\ \A k \in quarantine[i] : ~Published(k)
    /\ Gone(journal[i])

-----------------------------------------------------------------------------
(* The requests to cancel.                                                 *)

\* All the work of operation i is private.
Unsealed(i) ==
    /\ i \notin inv.registered /\ ~Published(i)
    /\ journal[i].kind = "none" \/ Private(journal[i])
    /\ \A w \in Workers : op[w] = i => draft[w].kind = "none" \/ Private(draft[w])

\* While a request may come, and once it has come, the work is private; and
\* nothing is reported cancelled that was not asked to stop.
Asked(i) ==
    /\ activity[i].status = "unused" => ~activity[i].requested
    /\ activity[i].status = "cancelled" => activity[i].requested
    /\ activity[i].requested \/ activity[i].window = "preparing" => Unsealed(i)
    /\ activity[i].requested /\ activity[i].status = "running" => activity[i].window = "preparing"

\* The activity of the operation a worker is at.
Asking(w) ==
    /\ outcome[w] = "cancelled" => op[w] # NoId /\ activity[op[w]].requested
    /\ mode[w] = "run" /\ pc[w] \in Locked \cup {"starting"} => activity[op[w]].status = "running"
    /\ op[w] # NoId /\ pc[w] # "starting" => activity[op[w]].status # "unused"
    /\ mode[w] = "run" => want[w].kind # "none"
    /\ mode[w] = "run" /\ want[w].kind # "install" => activity[op[w]].window = "closed"

-----------------------------------------------------------------------------
(* The invariant.                                                          *)

InventoryType == [registered: SUBSET Ids, active: Ids \cup {NoId},
                  previous: Ids \cup {NoId}, staged: Ids \cup {NoId}]
RequestType == Requests \cup {NoRequest}
Outcomes == {"none", "ok", "error", "cancelled"}
ActivityType == [status: Statuses, requested: BOOLEAN,
                 window: {"closed", "preparing", "finishing"}]

FilesType ==
    /\ lock \in Workers \cup {Nobody}
    /\ inv \in InventoryType
    /\ build \in [Ids -> Builds \cup {NoBuild}]
    /\ version \in [Builds -> Ids \cup {NoId}]
    /\ staging \in [Ids -> {"none", "payload", "spent"}]
    /\ quarantine \in [Ids -> SUBSET Ids]
    /\ journal \in [Ids -> Journal]
    /\ activity \in [Ids -> ActivityType]
    /\ retired \subseteq Ids
MemoryType ==
    /\ service \in [Workers -> BOOLEAN]
    /\ pc \in [Workers -> Steps]
    /\ mode \in [Workers -> {"none", "run", "cancel", "recover"}]
    /\ op \in [Workers -> Ids \cup {NoId}]
    /\ want \in [Workers -> RequestType]
    /\ draft \in [Workers -> Journal]
    /\ outcome \in [Workers -> Outcomes]
    /\ todo \in [Workers -> SUBSET Ids]
    /\ seen \in [Workers -> [Ids -> {"absent", "private", "other"}]]

AllControl == \A w \in Workers : Control(w)
AllFits == \A w \in Workers : Fits(w)
AllGone == \A w \in Workers : Gone(draft[w])
AllRecorded == \A i \in Ids : Recorded(i)
AllAsked == \A i \in Ids : Asked(i)
AllAsking == \A w \in Workers : Asking(w)

\* The files and the records, whether or not cancellation is asked for.
Sound ==
    /\ FilesType
    /\ MemoryType
    /\ AllControl
    /\ Pairs
    /\ AllFits
    /\ AllGone
    /\ AllRecorded

\* The inductive invariant.
Settled == Sound /\ AllAsked /\ AllAsking

-----------------------------------------------------------------------------
(* The lock: a step of one worker leaves the memory of the others alone.   *)

StepOf(w) == Own(w) \/ Transact(w) \/ Recover(w) \/ Crash(w)
Same(x) ==
    /\ pc'[x] = pc[x] /\ mode'[x] = mode[x] /\ op'[x] = op[x] /\ want'[x] = want[x]
    /\ draft'[x] = draft[x] /\ outcome'[x] = outcome[x]

\* A step of one worker changes no other's memory, and the lock only between
\* itself and nobody.
LEMMA OthersKeepTheirMemory ==
    ASSUME MemoryType, NEW w \in Workers, StepOf(w), NEW x \in Workers \ {w}
    PROVE  Same(x) /\ (lock' = lock \/ lock \in {Nobody, w})
<1> USE DEF MemoryType, Same, Goto, Hold, Result, InMemory, Running, Serving, At, Idle, Released,
            memory, durable, files
<1>1. CASE Own(w)
  <2>1. CASE TryLockPort(w) \/ Refuse(w) \/ StopCancelled(w) \/ KeepActive(w) \/ RollBack(w)
    BY <2>1 DEF TryLockPort, Refuse, StopCancelled, KeepActive, RollBack
  <2>2. CASE ReuseStaged(w) \/ ReuseRetained(w) \/ RegisterRetained(w) \/ StartInstall(w)
    BY <2>2 DEF ReuseStaged, ReuseRetained, RegisterRetained, StartInstall
  <2>3. CASE PreparePayload(w) \/ SealPayload(w) \/ RetainCleanup(w) \/ FailPrivately(w)
                               \/ RetainPrivate(w)
    BY <2>3 DEF PreparePayload, SealPayload, RetainCleanup, FailPrivately, RetainPrivate
  <2>4. CASE BeginActivation(w) \/ BeginRemoval(w) \/ FailSealed(w) \/ FailActivation(w)
                                \/ FailRemoval(w)
    BY <2>4 DEF BeginActivation, BeginRemoval, FailSealed, FailActivation, FailRemoval
  <2>5. CASE UnlockPort(w) \/ Rejournal(w) \/ Finish(w)
    BY <2>5 DEF UnlockPort, Rejournal, Finish
  <2>6. CASE \E i \in Ids, request \in Requests : Begin(w, i, request)
    BY <2>6 DEF Begin
  <2> QED BY <1>1, <2>1, <2>2, <2>3, <2>4, <2>5, <2>6 DEF Own
<1>2. CASE Transact(w)
  BY <1>2 DEF Transact, Persist, Retire, PublishPayload, AcceptPublished, RegisterPublished,
     RemoveStaging, DiscardPrivate, SwitchPointers, Quarantine, FinishQuarantine, Deregister,
          DeleteQuarantine
<1>3. CASE Recover(w)
  BY <1>3 DEF Recover, StartRecovery, ListJournals, AbandonRecovery, SkipCancellation,
       TakeUpCancellation,
     InventoryJournals, SkipJournal, Resume, LeaveForReview, Settle, EndRecovery, Visited
<1>4. CASE Crash(w)
  BY <1>4 DEF Crash
<1> QED BY <1>1, <1>2, <1>3, <1>4 DEF StepOf

\* Where an operation goes on from fits its journal.
LEMMA AfterFits ==
    ASSUME NEW i \in Ids, NEW j \in Journal, Shape(i, j), j.kind # "none"
    PROVE  /\ After(j) \in (Steps \cap (RunSteps \cup RecoverSteps))
                          \ (Idling \cup {"persisting", "settling", "starting", "resuming",
                                         "reusing", "choosing"})
           /\ DraftFits(After(j), i, j)
           /\ After(j) \in {"preparing", "sealing"} \/ After(j) \in RunSteps \cap RecoverSteps
           /\ j.phase # "preparing" \/ j.kind # "install" => After(j) \in RecoverSteps
<1> USE DistinctValues DEF Shape, NoJournal
<1>1. CASE j.kind = "install"
  <2>1. After(j) = InstallStep(j.phase)
    BY <1>1 DEF After
  <2> QED BY <1>1, <2>1 DEF InstallStep, DraftFits, Steps, RunSteps, RecoverSteps, Locked,
       Idling, IsPrivate
<1>2. CASE j.kind = "activate"
  <2>1. After(j) = ActivationStep(j.phase)
    BY <1>2 DEF After
  <2> QED BY <1>2, <2>1 DEF ActivationStep, DraftFits, Steps, RunSteps, RecoverSteps, Locked, Idling
<1>3. CASE j.kind = "remove"
  <2>1. After(j) = RemovalStep(j.phase)
    BY <1>3 DEF After
  <2> QED BY <1>3, <2>1 DEF RemovalStep, DraftFits, Steps, RunSteps, RecoverSteps, Locked, Idling
<1> QED BY <1>1, <1>2, <1>3

\* And so does where recovery takes it up.
LEMMA ResumeFits ==
    ASSUME NEW i \in Ids, NEW j \in Journal, Shape(i, j), j.kind # "none"
    PROVE  /\ ResumeAt(j) \in (Steps \cap RecoverSteps) \ (Idling \cup {"persisting", "settling"})
           /\ DraftFits(ResumeAt(j), i, j)
<1> USE DistinctValues
<1>1. CASE IsPrivate(j)
  <2>1. ResumeAt(j) = "resuming"
    BY <1>1 DEF ResumeAt, IsPrivate, DueCleanup
  <2> QED BY <1>1, <2>1 DEF IsPrivate, DraftFits, Steps, RecoverSteps, Idling
<1>2. CASE DueCleanup(j)
  <2>1. ResumeAt(j) = "discarding"
    BY <1>2 DEF ResumeAt, IsPrivate, DueCleanup, Journal, Phases
  <2> QED BY <1>2, <2>1 DEF Private, DueCleanup, DraftFits, Steps, RecoverSteps, Idling
<1>3. CASE j.kind = "install" /\ j.phase = "cleanup_pending" /\ ~DueCleanup(j)
  <2>1. ResumeAt(j) = "cleaning"
    BY <1>3 DEF ResumeAt, IsPrivate, DueCleanup
  <2> QED BY <1>3, <2>1 DEF Shape, NoJournal, DueCleanup, DraftFits, Steps, RecoverSteps, Idling
<1>4. CASE j.kind = "remove" /\ j.phase = "cleanup_pending"
  <2>1. ResumeAt(j) = "deleting"
    BY <1>4 DEF ResumeAt, IsPrivate, DueCleanup
  <2> QED BY <1>4, <2>1 DEF DraftFits, Steps, RecoverSteps, Idling
<1>5. CASE j.phase # "cleanup_pending" /\ ~IsPrivate(j)
  <2>1. ResumeAt(j) = After(j)
    BY <1>5 DEF ResumeAt, DueCleanup
  <2>2. j.phase # "preparing" \/ j.kind # "install"
    BY <1>5 DEF IsPrivate
  <2> QED BY <1>5, <2>1, <2>2, AfterFits
<1>6. CASE j.kind = "activate"
  BY <1>5, <1>6 DEF Shape, NoJournal, IsPrivate
<1> QED BY <1>1, <1>2, <1>3, <1>4, <1>5, <1>6 DEF Shape, NoJournal

\* Nothing else happens to another worker.
LEMMA OthersKeepControl ==
    ASSUME FilesType, NEW w \in Workers, NEW x \in Workers \ {w}, Control(x), Same(x),
           lock' = lock \/ lock \in {Nobody, w}
    PROVE  Control(x)'
BY DistinctValues DEF Control, Same

\* A worker keeps to its steps.
LEMMA OwnControl ==
    ASSUME FilesType, MemoryType, NEW w \in Workers, Control(w), StepOf(w), \A i \in Ids : Shape(i, journal[i])
    PROVE  Control(w)'
<1> USE DistinctValues DEF Control, MemoryType, Goto, Hold, Result, InMemory,
       Running, Serving, At, Idle, Released, RunSteps, CancelSteps, RecoverSteps, Idling, Locked
<1>1. CASE TryLockPort(w)
  BY <1>1 DEF TryLockPort, DraftFits, Shape, Private, IsPrivate, DueCleanup, NoJournal, Begun
<1>2. CASE Refuse(w)
  BY <1>2 DEF Refuse, DraftFits, Shape, Private, IsPrivate, DueCleanup, NoJournal, Begun
<1>3. CASE StopCancelled(w)
  BY <1>3 DEF StopCancelled, DraftFits, Shape, Private, IsPrivate, DueCleanup, NoJournal, Begun
<1>4. CASE KeepActive(w)
  BY <1>4 DEF KeepActive, DraftFits, Shape, Private, IsPrivate, DueCleanup, NoJournal, Begun,
       Choosing
<1>5. CASE ReuseStaged(w)
  <2> USE DEF ReuseStaged, DraftFits, Shape, NoJournal
  <2>1. CASE want[w].activate
    <3>1. inv.staged \in Ids
      BY <1>5 DEF Choosing, Wanted, FilesType, InventoryType
    <3>2. /\ draft' = [draft EXCEPT ![w] = Begun("activate", inv.staged, FALSE, {})]
          /\ pc' = [pc EXCEPT ![w] = "persisting"] /\ UNCHANGED <<mode, op, lock>>
          /\ mode[w] = "run" /\ pc[w] = "choosing"
      BY <1>5, <2>1 DEF Choosing
    <3> QED BY <3>1, <3>2 DEF Begun
  <2>2. CASE ~want[w].activate
    BY <1>5, <2>2 DEF Choosing
  <2> QED BY <2>1, <2>2
<1>6. CASE ReuseRetained(w)
  BY <1>6 DEF ReuseRetained, DraftFits, Shape, Private, IsPrivate, DueCleanup, NoJournal,
       Begun, Choosing, FilesType, InventoryType
<1>7. CASE RegisterRetained(w)
  BY <1>7 DEF RegisterRetained, DraftFits, Shape, Private, IsPrivate, DueCleanup, NoJournal, Begun
<1>8. CASE StartInstall(w)
  BY <1>8 DEF StartInstall, DraftFits, Shape, Private, IsPrivate, DueCleanup, NoJournal, Begun,
       Choosing
<1>9. CASE PreparePayload(w)
  BY <1>9 DEF PreparePayload, DraftFits, Shape, Private, IsPrivate, DueCleanup, NoJournal, Begun
<1>10. CASE SealPayload(w)
  BY <1>10 DEF SealPayload, DraftFits, Shape, Private, IsPrivate, DueCleanup, NoJournal, Begun
<1>11. CASE RetainCleanup(w)
  BY <1>11 DEF RetainCleanup, DraftFits, Shape, Private, IsPrivate, DueCleanup, NoJournal, Begun
<1>12. CASE FailPrivately(w)
  BY <1>12 DEF FailPrivately, DraftFits, Shape, Private, IsPrivate, DueCleanup, NoJournal, Begun
<1>13. CASE RetainPrivate(w)
  <2> USE DEF RetainPrivate, DraftFits, Shape, Private, IsPrivate, DueCleanup, NoJournal
  <2>1. CASE outcome[w] = "cancelled"
    BY <1>13, <2>1
  <2>2. CASE outcome[w] # "cancelled"
    <3>1. /\ draft' = [draft EXCEPT ![w].phase = "cleanup_pending"] /\ pc' = [pc EXCEPT ![w] = "persisting"]
          /\ UNCHANGED <<mode, op, lock>> /\ mode[w] = "run" /\ pc[w] \in {"discarding", "retiring"}
          /\ draft[w].kind = "install" /\ draft[w].phase = "preparing"
      BY <1>13, <2>2
    <3>2. draft'[w] = [draft[w] EXCEPT !.phase = "cleanup_pending"] /\ draft[w] \in Journal
      BY <3>1
    <3>3. /\ draft'[w].kind = "install" /\ draft'[w].phase = "cleanup_pending"
          /\ draft'[w].install = draft[w].install /\ draft'[w].removed = draft[w].removed
      BY <3>1, <3>2 DEF Journal
    <3> QED BY <3>1, <3>3
  <2> QED BY <2>1, <2>2
<1>14. CASE BeginActivation(w)
  BY <1>14 DEF BeginActivation, DraftFits, Shape, Private, IsPrivate, DueCleanup, NoJournal,
       Begun, FilesType, InventoryType
<1>15. CASE RollBack(w)
  BY <1>15 DEF RollBack, DraftFits, Shape, Private, IsPrivate, DueCleanup, NoJournal, Begun
<1>16. CASE BeginRemoval(w)
  BY <1>16 DEF BeginRemoval, DraftFits, Shape, Private, IsPrivate, DueCleanup, NoJournal, Begun
<1>17. CASE FailSealed(w)
  BY <1>17 DEF FailSealed, DraftFits, Shape, Private, IsPrivate, DueCleanup, NoJournal, Begun
<1>18. CASE FailActivation(w)
  BY <1>18 DEF FailActivation, DraftFits, Shape, Private, IsPrivate, DueCleanup, NoJournal, Begun
<1>19. CASE FailRemoval(w)
  BY <1>19 DEF FailRemoval, DraftFits, Shape, Private, IsPrivate, DueCleanup, NoJournal, Begun
<1>20. CASE UnlockPort(w)
  BY <1>20 DEF UnlockPort, DraftFits, Shape, Private, IsPrivate, DueCleanup, NoJournal, Begun
<1>21. CASE Rejournal(w)
  BY <1>21 DEF Rejournal, DraftFits, Shape, Private, IsPrivate, DueCleanup, NoJournal, Begun
<1>22. CASE Finish(w)
  BY <1>22 DEF Finish, DraftFits, Shape, Private, IsPrivate, DueCleanup, NoJournal, Begun
<1>23. CASE Persist(w)
  <2>1. DraftFits("persisting", op[w], draft[w]) /\ op[w] \in Ids /\ draft[w] \in Journal
    BY <1>23 DEF Persist
  <2>2. Shape(op[w], draft[w]) /\ draft[w].kind # "none"
    BY <2>1 DEF DraftFits
  <2>3. DraftFits(After(draft[w]), op[w], draft[w])
    BY <2>1, <2>2, AfterFits
  <2> DEFINE s == After(draft[w])
  <2>4. /\ s \in (RunSteps \cup RecoverSteps) \ (Idling \cup {"persisting", "settling"})
        /\ s \in {"preparing", "sealing"} \/ s \in RunSteps \cap RecoverSteps
        /\ draft[w].phase # "preparing" \/ draft[w].kind # "install" => s \in RecoverSteps
    BY <2>1, <2>2, AfterFits
  <2>5. pc'[w] = s
    BY <1>23 DEF Persist
  <2> HIDE DEF s
  <2> QED BY <1>23, <2>3, <2>4, <2>5 DEF Persist
<1>24. CASE Retire(w)
  BY <1>24 DEF Retire, DraftFits, Shape, Private, IsPrivate, DueCleanup, NoJournal, Begun
<1>25. CASE PublishPayload(w)
  BY <1>25 DEF PublishPayload, DraftFits, Shape, Private, IsPrivate, DueCleanup, NoJournal, Begun
<1>26. CASE AcceptPublished(w)
  BY <1>26 DEF AcceptPublished, DraftFits, Shape, Private, IsPrivate, DueCleanup, NoJournal, Begun
<1>27. CASE RegisterPublished(w)
  BY <1>27 DEF RegisterPublished, DraftFits, Shape, Private, IsPrivate, DueCleanup, NoJournal, Begun
<1>28. CASE RemoveStaging(w)
  BY <1>28 DEF RemoveStaging, DraftFits, Shape, Private, IsPrivate, DueCleanup, NoJournal, Begun
<1>29. CASE DiscardPrivate(w)
  BY <1>29 DEF DiscardPrivate, DraftFits, Shape, Private, IsPrivate, DueCleanup, NoJournal, Begun
<1>30. CASE SwitchPointers(w)
  BY <1>30 DEF SwitchPointers, DraftFits, Shape, Private, IsPrivate, DueCleanup, NoJournal, Begun
<1>31. CASE Quarantine(w)
  BY <1>31 DEF Quarantine, DraftFits, Shape, Private, IsPrivate, DueCleanup, NoJournal, Begun,
       memory
<1>32. CASE FinishQuarantine(w)
  BY <1>32 DEF FinishQuarantine, DraftFits, Shape, Private, IsPrivate, DueCleanup, NoJournal, Begun
<1>33. CASE Deregister(w)
  BY <1>33 DEF Deregister, DraftFits, Shape, Private, IsPrivate, DueCleanup, NoJournal, Begun
<1>34. CASE DeleteQuarantine(w)
  BY <1>34 DEF DeleteQuarantine, DraftFits, Shape, Private, IsPrivate, DueCleanup, NoJournal, Begun
<1>35. CASE StartRecovery(w)
  BY <1>35 DEF StartRecovery, DraftFits, Shape, Private, IsPrivate, DueCleanup, NoJournal, Begun
<1>36. CASE ListJournals(w)
  BY <1>36 DEF ListJournals, DraftFits, Shape, Private, IsPrivate, DueCleanup, NoJournal, Begun
<1>37. CASE AbandonRecovery(w)
  BY <1>37 DEF AbandonRecovery, DraftFits, Shape, Private, IsPrivate, DueCleanup, NoJournal, Begun
<1>38. CASE InventoryJournals(w)
  BY <1>38 DEF InventoryJournals, DraftFits, Shape, Private, IsPrivate, DueCleanup, NoJournal, Begun
<1>39. CASE LeaveForReview(w)
  BY <1>39 DEF LeaveForReview, DraftFits, Shape, Private, IsPrivate, DueCleanup, NoJournal, Begun
<1>40. CASE Settle(w)
  BY <1>40 DEF Settle, DraftFits, Shape, Private, IsPrivate, DueCleanup, NoJournal, Begun
<1>41. CASE EndRecovery(w)
  BY <1>41 DEF EndRecovery, DraftFits, Shape, Private, IsPrivate, DueCleanup, NoJournal, Begun
<1>42. CASE \E i \in Ids, request \in Requests : Begin(w, i, request)
  BY <1>42 DEF Begin, DraftFits, Shape
<1>43. CASE \E i \in Ids : SkipCancellation(w, i) \/ SkipJournal(w, i)
  BY <1>43 DEF SkipCancellation, SkipJournal
<1>44. CASE \E i \in Ids : TakeUpCancellation(w, i)
  <2>1. PICK i \in Ids : TakeUpCancellation(w, i)
    BY <1>44
  <2>2. Shape(i, journal[i])
    OBVIOUS
  <2> QED BY <2>1, <2>2, ZenonT(30) DEF TakeUpCancellation, DraftFits, Private, IsPrivate, NoJournal,
       Shape
<1>45. CASE \E i \in Ids : Resume(w, i)
  <2>1. PICK i \in Ids : Resume(w, i)
    BY <1>45
  <2>2. Shape(i, journal[i]) /\ journal[i] \in Journal /\ journal[i].kind # "none"
    BY <2>1 DEF Resume, FilesType
  <2> DEFINE s == ResumeAt(journal[i])
  <2>3. s \in RecoverSteps \ (Idling \cup {"persisting", "settling"}) /\ DraftFits(s, i, journal[i])
    BY <2>2, ResumeFits
  <2>4. pc'[w] = s
    BY <2>1 DEF Resume
  <2> HIDE DEF s
  <2> QED BY <2>1, <2>3, <2>4 DEF Resume
<1>46. CASE Crash(w)
  BY <1>46 DEF Crash
<1> QED BY ONLY StepOf(w), <1>1, <1>2, <1>3, <1>4, <1>5, <1>6, <1>7, <1>8, <1>9, <1>10, <1>11,
     <1>12, <1>13, <1>14, <1>15, <1>16, <1>17, <1>18, <1>19, <1>20, <1>21, <1>22, <1>23, <1>24,
     <1>25, <1>26, <1>27, <1>28, <1>29, <1>30, <1>31, <1>32, <1>33, <1>34, <1>35, <1>36, <1>37,
     <1>38, <1>39, <1>40, <1>41, <1>42, <1>43, <1>44, <1>45, <1>46 DEF StepOf, Own, Transact,
     Recover

-----------------------------------------------------------------------------
(* Types.                                                                  *)

\* The requests that install something name a build.
LEMMA RequestsHaveBuilds ==
    ASSUME NEW r \in RequestType, r.kind = "install"
    PROVE  r.build \in Builds
<1> NoRequest.kind # "install"
  BY DEF NoRequest
<1> QED BY DEF Requests, RequestType

\* Every request says whether to activate.
LEMMA RequestsSay ==
    ASSUME NEW r \in RequestType
    PROVE  r.activate \in BOOLEAN
<1>1. NoRequest.activate \in BOOLEAN
  BY DEF NoRequest
<1>2. CASE r \in Requests
  BY <1>2 DEF Requests
<1> QED BY <1>1, <1>2 DEF RequestType

\* What the operators on single variables return.
LEMMA NoJournalType == NoJournal \in Journal
BY DEF NoJournal, Journal, Phases

\* Journals that are begun, and journals moved on in memory, are journals.
LEMMA JournalTypes ==
    /\ \A k \in {"install", "activate", "remove"}, i \in Ids \cup {NoId}, a \in BOOLEAN, r \in SUBSET Ids :
         Begun(k, i, a, r) \in Journal
    /\ \A j \in Journal, p \in Phases : [j EXCEPT !.phase = p] \in Journal
    /\ \A j \in Journal, p \in Phases, i \in Ids : [j EXCEPT !.phase = p, !.install = i] \in Journal
    /\ \A j \in Journal, i \in Ids : [j EXCEPT !.install = i] \in Journal
BY DEF Journal, NoJournal, Begun, Phases

\* The transactions on the rows keep their type.
LEMMA InventoryTypes ==
    ASSUME inv \in InventoryType
    PROVE  /\ NoInventory \in InventoryType
           /\ \A i \in Ids, a \in BOOLEAN : RegisterInstall(inv, i, a) \in InventoryType
           /\ ActivateStaged(inv) \in InventoryType
           /\ SwapPrevious(inv) \in InventoryType
BY DEF InventoryType, NoInventory, RegisterInstall, ActivateStaged, SwapPrevious

\* Closing the window, finishing, beginning and requesting keep the type of
\* the activities.
LEMMA ActivityTypes ==
    ASSUME activity \in [Ids -> ActivityType], NEW i \in Ids
    PROVE  /\ ClosePreparation(i) => activity' \in [Ids -> ActivityType]
           /\ \A s \in Statuses : FinishActivity(i, s) => activity' \in [Ids -> ActivityType]
           /\ \A s \in Statuses, v \in {"closed", "preparing", "finishing"} :
                [activity EXCEPT ![i].status = s, ![i].window = v] \in [Ids -> ActivityType]
           /\ [activity EXCEPT ![i].requested = TRUE] \in [Ids -> ActivityType]
<1>1. activity[i] \in ActivityType
  OBVIOUS
<1>2. ClosePreparation(i) => activity' \in [Ids -> ActivityType]
  <2>1. [activity[i] EXCEPT !.window = "finishing"] \in ActivityType
    BY <1>1 DEF ActivityType
  <2> QED BY <1>1, <2>1 DEF ClosePreparation
<1>3. ASSUME NEW s \in Statuses PROVE FinishActivity(i, s) => activity' \in [Ids -> ActivityType]
  <2>1. [status |-> s, window |-> "closed", requested |-> activity[i].requested] \in ActivityType
    BY <1>1 DEF ActivityType
  <2> QED BY <2>1 DEF FinishActivity
<1>4. ASSUME NEW s \in Statuses, NEW v \in {"closed", "preparing", "finishing"}
      PROVE  [activity EXCEPT ![i].status = s, ![i].window = v] \in [Ids -> ActivityType]
  <2>1. [activity[i] EXCEPT !.status = s, !.window = v] \in ActivityType
    BY <1>1 DEF ActivityType
  <2> QED BY <2>1
<1>5. [activity EXCEPT ![i].requested = TRUE] \in [Ids -> ActivityType]
  <2>1. [activity[i] EXCEPT !.requested = TRUE] \in ActivityType
    BY <1>1 DEF ActivityType
  <2> QED BY <2>1
<1> QED BY <1>2, <1>3, <1>4, <1>5

\* Every step keeps the types of the files and of the database.
LEMMA FilesStep ==
    ASSUME FilesType, MemoryType, NEW w \in Workers, Control(w), StepOf(w)
    PROVE  FilesType'
<1> USE DEF FilesType, MemoryType, Goto, Hold, Result, InMemory, Running, Serving, At, Idle, Released,
            memory, durable, files, Put
<1>1. CASE \/ TryLockPort(w) \/ Refuse(w) \/ StopCancelled(w) \/ KeepActive(w) \/ RetainCleanup(w)
           \/ FailPrivately(w) \/ RetainPrivate(w) \/ BeginActivation(w) \/ BeginRemoval(w)
           \/ FailRemoval(w) \/ UnlockPort(w) \/ AcceptPublished(w) \/ FinishQuarantine(w)
  BY <1>1 DEF TryLockPort, Refuse, StopCancelled, KeepActive, RetainCleanup, FailPrivately,
       RetainPrivate,
              BeginActivation, BeginRemoval, FailRemoval, UnlockPort, AcceptPublished,
                   FinishQuarantine
<1>2. CASE \/ StartRecovery(w) \/ ListJournals(w) \/ AbandonRecovery(w) \/ InventoryJournals(w)
           \/ LeaveForReview(w) \/ EndRecovery(w) \/ Crash(w)
           \/ \E i \in Ids : SkipCancellation(w, i) \/ TakeUpCancellation(w, i) \/ SkipJournal(w, i) \/ Resume(w, i)
  BY <1>2 DEF StartRecovery, ListJournals, AbandonRecovery, InventoryJournals, LeaveForReview,
       EndRecovery, Crash,
              SkipCancellation, TakeUpCancellation, SkipJournal, Resume
<1>o. pc[w] \notin Idling => op[w] \in Ids
  BY DEF Control
<1>3. CASE ReuseStaged(w) \/ ReuseRetained(w) \/ SealPayload(w)
  <2>1. ClosePreparation(op[w]) /\ UNCHANGED <<lock, inv, files, journal, retired>> /\ op[w] \in Ids
    BY <1>3, <1>o DEF ReuseStaged, ReuseRetained, SealPayload, Choosing, Idling
  <2> QED BY <2>1, ActivityTypes
<1>4. CASE Finish(w) \/ Settle(w)
  <2>1. /\ \/ UNCHANGED activity
           \/ \E s \in Statuses : FinishActivity(op[w], s)
        /\ UNCHANGED <<inv, files, journal, retired>> /\ op[w] \in Ids
        /\ lock' = Released(w) \/ UNCHANGED lock
    <3>1. CASE Finish(w)
      BY <3>1, <1>o DEF Finish, Idling, Statuses
    <3>2. CASE Settle(w)
      BY <3>2, <1>o DEF Settle, Idling, Statuses
    <3> QED BY <1>4, <3>1, <3>2
  <2> QED BY <2>1, ActivityTypes
<1>5. CASE \E i \in Ids, request \in Requests : Begin(w, i, request)
  <2>1. PICK i \in Ids, request \in Requests : Begin(w, i, request)
    BY <1>5
  <2>2. PICK v \in {"closed", "preparing"} :
          activity' = [activity EXCEPT ![i].status = "running", ![i].window = v]
    BY <2>1 DEF Begin
  <2>3. activity' \in [Ids -> ActivityType]
    BY <2>2, ActivityTypes DEF Statuses
  <2> QED BY <2>1, <2>3 DEF Begin
<1>6. CASE StartInstall(w)
  <2>1. want[w].build \in Builds
    BY <1>6, RequestsHaveBuilds DEF StartInstall, Choosing
  <2> QED BY <1>6, <2>1 DEF StartInstall
<1>7. CASE Persist(w) \/ Retire(w) \/ FailSealed(w) \/ FailActivation(w) \/ Rejournal(w)
  <2>1. /\ op[w] \in Ids /\ UNCHANGED <<lock, inv, files, activity>>
        /\ UNCHANGED journal \/ (\E j \in {draft[w], NoJournal} : Put(op[w], j))
        /\ retired' = retired \/ retired' = retired \cup {op[w]}
    BY <1>7, <1>o DEF Persist, Retire, FailSealed, FailActivation, Rejournal, MaybePut, Idling
  <2>2. journal' \in [Ids -> Journal]
    <3>1. CASE UNCHANGED journal
      BY <3>1
    <3>2. ASSUME NEW j \in {draft[w], NoJournal}, Put(op[w], j) PROVE journal' \in [Ids -> Journal]
      <4>1. j \in Journal
        BY <3>2, NoJournalType
      <4> QED BY <2>1, <3>2, <4>1
    <3> QED BY <2>1, <3>1, <3>2
  <2> QED BY <2>1, <2>2
<1>8. CASE PreparePayload(w) \/ RemoveStaging(w) \/ DiscardPrivate(w)
  BY <1>8 DEF PreparePayload, RemoveStaging, DiscardPrivate
<1>9. CASE PublishPayload(w)
  BY <1>9, <1>o DEF PublishPayload, Idling
<1>10. CASE Quarantine(w) \/ DeleteQuarantine(w)
  <2>1. CASE DeleteQuarantine(w)
    BY <2>1 DEF DeleteQuarantine
  <2>2. CASE Quarantine(w)
    <3>1. PICK i \in draft[w].removed \ quarantine[op[w]] :
             /\ version' = [version EXCEPT ![build[i]] = NoId]
             /\ quarantine' = [quarantine EXCEPT ![op[w]] = @ \cup {i}]
      BY <2>2 DEF Quarantine
    <3>2. i \in Ids
      BY <3>1 DEF Journal
    <3> QED BY <2>2, <3>1, <3>2, ZenonT(30) DEF Quarantine
  <2> QED BY <1>10, <2>1, <2>2
<1>11. CASE SwitchPointers(w) \/ RollBack(w) \/ Deregister(w)
  BY <1>11, InventoryTypes DEF SwitchPointers, RollBack, Deregister, RemovePort
<1>13. CASE RegisterRetained(w) \/ RegisterPublished(w)
  <2>1. draft[w].install \in Ids
    BY <1>13, <1>o, DistinctValues
       DEF RegisterRetained, RegisterPublished, Control, DraftFits, Shape, NoJournal, Idling
  <2>2. PICK a \in BOOLEAN : inv' = RegisterInstall(inv, draft[w].install, a)
    <3>1. want[w].activate \in BOOLEAN /\ draft[w].activate \in BOOLEAN
      BY RequestsSay DEF Journal
    <3> QED BY <1>13, <3>1 DEF RegisterRetained, RegisterPublished
  <2>3. inv' \in InventoryType
    BY <2>1, <2>2, InventoryTypes
  <2> QED BY <1>13, <2>3 DEF RegisterRetained, RegisterPublished
<1> QED BY ONLY StepOf(w), <1>1, <1>2, <1>3, <1>4, <1>5, <1>6, <1>7, <1>8, <1>9, <1>10, <1>11, <1>13
        DEF StepOf, Own, Transact, Recover

\* What a worker does to its own memory, one variable at a time: most steps
\* leave most of it alone.  First, whether it has a service.
LEMMA ServiceMoves ==
    ASSUME FilesType, MemoryType, NEW w \in Workers, Control(w), StepOf(w)
    PROVE  UNCHANGED service \/ \E v \in BOOLEAN : service' = [service EXCEPT ![w] = v]
<1> USE DEF Idle, memory, durable, files, Visited, Result
<1>1. CASE TryLockPort(w) \/ Refuse(w) \/ StopCancelled(w) \/ KeepActive(w) \/ ReuseStaged(w) \/
        ReuseRetained(w) \/ RegisterRetained(w) \/ StartInstall(w) \/ PreparePayload(w) \/
        SealPayload(w) \/ RetainCleanup(w) \/ FailPrivately(w) \/ RetainPrivate(w) \/
        BeginActivation(w) \/ RollBack(w) \/ BeginRemoval(w)
  BY <1>1 DEF TryLockPort, Refuse, StopCancelled, KeepActive, ReuseStaged, ReuseRetained,
        RegisterRetained, StartInstall, PreparePayload, SealPayload, RetainCleanup, FailPrivately,
        RetainPrivate, BeginActivation, RollBack, BeginRemoval
<1>2. CASE FailSealed(w) \/ FailActivation(w) \/ FailRemoval(w) \/ UnlockPort(w) \/ Rejournal(w) \/
        Finish(w) \/ (\E i \in Ids, request \in Requests : Begin(w, i, request)) \/ Persist(w) \/
        Retire(w) \/ PublishPayload(w) \/ AcceptPublished(w) \/ RegisterPublished(w) \/
        RemoveStaging(w) \/ DiscardPrivate(w) \/ SwitchPointers(w) \/ Quarantine(w)
  BY <1>2 DEF FailSealed, FailActivation, FailRemoval, UnlockPort, Rejournal, Finish, Begin,
       Persist,
        Retire, PublishPayload, AcceptPublished, RegisterPublished, RemoveStaging, DiscardPrivate,
        SwitchPointers, Quarantine
<1>3. CASE FinishQuarantine(w) \/ Deregister(w) \/ DeleteQuarantine(w) \/ StartRecovery(w) \/
        ListJournals(w) \/ AbandonRecovery(w) \/ InventoryJournals(w) \/ LeaveForReview(w) \/
        Settle(w) \/ (\E i \in Ids : SkipCancellation(w, i)) \/
        (\E i \in Ids : TakeUpCancellation(w, i)) \/ (\E i \in Ids : SkipJournal(w, i)) \/
        (\E i \in Ids : Resume(w, i))
  BY <1>3 DEF FinishQuarantine, Deregister, DeleteQuarantine, StartRecovery, ListJournals,
        AbandonRecovery, InventoryJournals, LeaveForReview, Settle, SkipCancellation,
        TakeUpCancellation, SkipJournal, Resume
<1>4. CASE Crash(w) \/ EndRecovery(w)
  BY <1>4 DEF Crash, EndRecovery
<1> QED BY ONLY StepOf(w), <1>1, <1>2, <1>3, <1>4 DEF StepOf, Own, Transact, Recover

\* Why it works.
LEMMA ModeMoves ==
    ASSUME FilesType, MemoryType, NEW w \in Workers, Control(w), StepOf(w)
    PROVE  UNCHANGED mode \/ \E v \in {"none", "run", "cancel", "recover"} : mode' = [mode EXCEPT ![w] = v]
<1> USE DEF Idle, memory, durable, files, Visited, Result
<1>1. CASE TryLockPort(w) \/ Refuse(w) \/ StopCancelled(w) \/ KeepActive(w) \/ ReuseStaged(w) \/
        ReuseRetained(w) \/ RegisterRetained(w) \/ StartInstall(w) \/ PreparePayload(w) \/
        SealPayload(w) \/ RetainCleanup(w) \/ FailPrivately(w) \/ RetainPrivate(w) \/
        BeginActivation(w) \/ RollBack(w) \/ BeginRemoval(w)
  BY <1>1 DEF TryLockPort, Refuse, StopCancelled, KeepActive, ReuseStaged, ReuseRetained,
        RegisterRetained, StartInstall, PreparePayload, SealPayload, RetainCleanup, FailPrivately,
        RetainPrivate, BeginActivation, RollBack, BeginRemoval
<1>2. CASE FailSealed(w) \/ FailActivation(w) \/ FailRemoval(w) \/ UnlockPort(w) \/ Rejournal(w) \/
        Persist(w) \/ Retire(w) \/ PublishPayload(w) \/ AcceptPublished(w) \/
        RegisterPublished(w) \/ RemoveStaging(w) \/ DiscardPrivate(w) \/ SwitchPointers(w) \/
        Quarantine(w) \/ FinishQuarantine(w) \/ Deregister(w)
  BY <1>2 DEF FailSealed, FailActivation, FailRemoval, UnlockPort, Rejournal, Persist, Retire,
        PublishPayload, AcceptPublished, RegisterPublished, RemoveStaging, DiscardPrivate,
        SwitchPointers, Quarantine, FinishQuarantine, Deregister
<1>3. CASE DeleteQuarantine(w) \/ ListJournals(w) \/ LeaveForReview(w) \/ Settle(w) \/
        (\E i \in Ids : SkipCancellation(w, i)) \/ (\E i \in Ids : TakeUpCancellation(w, i)) \/
        (\E i \in Ids : SkipJournal(w, i)) \/ (\E i \in Ids : Resume(w, i))
  BY <1>3 DEF DeleteQuarantine, ListJournals, LeaveForReview, Settle, SkipCancellation,
        TakeUpCancellation, SkipJournal, Resume
<1>4. CASE (\E i \in Ids, request \in Requests : Begin(w, i, request)) \/ Finish(w) \/ Crash(w) \/
        AbandonRecovery(w) \/ EndRecovery(w) \/ StartRecovery(w) \/ InventoryJournals(w)
  BY <1>4 DEF Begin, Finish, Crash, AbandonRecovery, EndRecovery, StartRecovery, InventoryJournals
<1> QED BY ONLY StepOf(w), <1>1, <1>2, <1>3, <1>4 DEF StepOf, Own, Transact, Recover

\* What it works on.
LEMMA OpMoves ==
    ASSUME FilesType, MemoryType, NEW w \in Workers, Control(w), StepOf(w)
    PROVE  UNCHANGED op \/ \E v \in Ids \cup {NoId} : op' = [op EXCEPT ![w] = v]
<1> USE DEF Idle, memory, durable, files, Visited, Result
<1>1. CASE TryLockPort(w) \/ Refuse(w) \/ StopCancelled(w) \/ KeepActive(w) \/ ReuseStaged(w) \/
        ReuseRetained(w) \/ RegisterRetained(w) \/ StartInstall(w) \/ PreparePayload(w) \/
        SealPayload(w) \/ RetainCleanup(w) \/ FailPrivately(w) \/ RetainPrivate(w) \/
        BeginActivation(w) \/ RollBack(w) \/ BeginRemoval(w)
  BY <1>1 DEF TryLockPort, Refuse, StopCancelled, KeepActive, ReuseStaged, ReuseRetained,
        RegisterRetained, StartInstall, PreparePayload, SealPayload, RetainCleanup, FailPrivately,
        RetainPrivate, BeginActivation, RollBack, BeginRemoval
<1>2. CASE FailSealed(w) \/ FailActivation(w) \/ FailRemoval(w) \/ UnlockPort(w) \/ Rejournal(w) \/
        Persist(w) \/ Retire(w) \/ PublishPayload(w) \/ AcceptPublished(w) \/
        RegisterPublished(w) \/ RemoveStaging(w) \/ DiscardPrivate(w) \/ SwitchPointers(w) \/
        Quarantine(w) \/ FinishQuarantine(w) \/ Deregister(w)
  BY <1>2 DEF FailSealed, FailActivation, FailRemoval, UnlockPort, Rejournal, Persist, Retire,
        PublishPayload, AcceptPublished, RegisterPublished, RemoveStaging, DiscardPrivate,
        SwitchPointers, Quarantine, FinishQuarantine, Deregister
<1>3. CASE DeleteQuarantine(w) \/ StartRecovery(w) \/ ListJournals(w) \/ InventoryJournals(w) \/
        (\E i \in Ids : SkipCancellation(w, i)) \/ (\E i \in Ids : SkipJournal(w, i))
  BY <1>3 DEF DeleteQuarantine, StartRecovery, ListJournals, InventoryJournals, SkipCancellation,
        SkipJournal
<1>4. CASE (\E i \in Ids, request \in Requests : Begin(w, i, request)) \/ Finish(w) \/ Crash(w) \/
        AbandonRecovery(w) \/ EndRecovery(w) \/ (\E i \in Ids : TakeUpCancellation(w, i)) \/
        (\E i \in Ids : Resume(w, i)) \/ LeaveForReview(w) \/ Settle(w)
  BY <1>4 DEF Begin, Finish, Crash, AbandonRecovery, EndRecovery, TakeUpCancellation, Resume,
        LeaveForReview, Settle
<1> QED BY ONLY StepOf(w), <1>1, <1>2, <1>3, <1>4 DEF StepOf, Own, Transact, Recover

\* The request it serves.
LEMMA WantMoves ==
    ASSUME FilesType, MemoryType, NEW w \in Workers, Control(w), StepOf(w)
    PROVE  UNCHANGED want \/ \E v \in RequestType : want' = [want EXCEPT ![w] = v]
<1> USE DEF Idle, memory, durable, files, Visited, Result
<1>1. CASE TryLockPort(w) \/ Refuse(w) \/ StopCancelled(w) \/ KeepActive(w) \/ ReuseStaged(w) \/
        ReuseRetained(w) \/ RegisterRetained(w) \/ StartInstall(w) \/ PreparePayload(w) \/
        SealPayload(w) \/ RetainCleanup(w) \/ FailPrivately(w) \/ RetainPrivate(w) \/
        BeginActivation(w) \/ RollBack(w) \/ BeginRemoval(w)
  BY <1>1 DEF TryLockPort, Refuse, StopCancelled, KeepActive, ReuseStaged, ReuseRetained,
        RegisterRetained, StartInstall, PreparePayload, SealPayload, RetainCleanup, FailPrivately,
        RetainPrivate, BeginActivation, RollBack, BeginRemoval
<1>2. CASE FailSealed(w) \/ FailActivation(w) \/ FailRemoval(w) \/ UnlockPort(w) \/ Rejournal(w) \/
        Persist(w) \/ Retire(w) \/ PublishPayload(w) \/ AcceptPublished(w) \/
        RegisterPublished(w) \/ RemoveStaging(w) \/ DiscardPrivate(w) \/ SwitchPointers(w) \/
        Quarantine(w) \/ FinishQuarantine(w) \/ Deregister(w)
  BY <1>2 DEF FailSealed, FailActivation, FailRemoval, UnlockPort, Rejournal, Persist, Retire,
        PublishPayload, AcceptPublished, RegisterPublished, RemoveStaging, DiscardPrivate,
        SwitchPointers, Quarantine, FinishQuarantine, Deregister
<1>3. CASE DeleteQuarantine(w) \/ StartRecovery(w) \/ ListJournals(w) \/ InventoryJournals(w) \/
        LeaveForReview(w) \/ Settle(w) \/ (\E i \in Ids : SkipCancellation(w, i)) \/
        (\E i \in Ids : TakeUpCancellation(w, i)) \/ (\E i \in Ids : SkipJournal(w, i)) \/
        (\E i \in Ids : Resume(w, i))
  BY <1>3 DEF DeleteQuarantine, StartRecovery, ListJournals, InventoryJournals, LeaveForReview,
       Settle,
        SkipCancellation, TakeUpCancellation, SkipJournal, Resume
<1>4. CASE (\E i \in Ids, request \in Requests : Begin(w, i, request))
  BY <1>4 DEF Begin, RequestType
<1>5. CASE Finish(w) \/ Crash(w) \/ AbandonRecovery(w) \/ EndRecovery(w)
  BY <1>5 DEF Finish, Crash, AbandonRecovery, EndRecovery, RequestType
<1> QED BY ONLY StepOf(w), <1>1, <1>2, <1>3, <1>4, <1>5 DEF StepOf, Own, Transact, Recover

\* How its operation will end.
LEMMA OutcomeMoves ==
    ASSUME FilesType, MemoryType, NEW w \in Workers, Control(w), StepOf(w)
    PROVE  UNCHANGED outcome \/ \E v \in Outcomes : outcome' = [outcome EXCEPT ![w] = v]
<1> USE DEF Idle, memory, durable, files, Visited, Result
<1>1. CASE TryLockPort(w) \/ KeepActive(w) \/ ReuseStaged(w) \/ ReuseRetained(w) \/
        RegisterRetained(w) \/ StartInstall(w) \/ PreparePayload(w) \/ SealPayload(w) \/
        RetainCleanup(w) \/ RetainPrivate(w) \/ BeginActivation(w) \/ RollBack(w) \/
        BeginRemoval(w) \/ UnlockPort(w) \/ Rejournal(w) \/ Persist(w)
  BY <1>1 DEF TryLockPort, KeepActive, ReuseStaged, ReuseRetained, RegisterRetained, StartInstall,
        PreparePayload, SealPayload, RetainCleanup, RetainPrivate, BeginActivation, RollBack,
        BeginRemoval, UnlockPort, Rejournal, Persist
<1>2. CASE Retire(w) \/ PublishPayload(w) \/ AcceptPublished(w) \/ RegisterPublished(w) \/
        RemoveStaging(w) \/ DiscardPrivate(w) \/ SwitchPointers(w) \/ Quarantine(w) \/
        FinishQuarantine(w) \/ Deregister(w) \/ DeleteQuarantine(w) \/ StartRecovery(w) \/
        ListJournals(w) \/ InventoryJournals(w) \/ (\E i \in Ids : SkipCancellation(w, i)) \/
        (\E i \in Ids : SkipJournal(w, i))
  BY <1>2 DEF Retire, PublishPayload, AcceptPublished, RegisterPublished, RemoveStaging,
       DiscardPrivate,
        SwitchPointers, Quarantine, FinishQuarantine, Deregister, DeleteQuarantine, StartRecovery,
        ListJournals, InventoryJournals, SkipCancellation, SkipJournal
<1>3. CASE Refuse(w) \/ StopCancelled(w) \/ FailPrivately(w) \/ FailSealed(w)
                     \/ FailActivation(w) \/
        FailRemoval(w) \/ (\E i \in Ids, request \in Requests : Begin(w, i, request)) \/
        Finish(w) \/ Crash(w) \/ AbandonRecovery(w) \/ EndRecovery(w) \/
        (\E i \in Ids : TakeUpCancellation(w, i)) \/ (\E i \in Ids : Resume(w, i)) \/
        LeaveForReview(w) \/ Settle(w)
  BY <1>3 DEF Refuse, StopCancelled, FailPrivately, FailSealed, FailActivation, FailRemoval,
       Begin, Finish, Crash,
        AbandonRecovery, EndRecovery, TakeUpCancellation, Resume, LeaveForReview, Settle, Outcomes
<1> QED BY ONLY StepOf(w), <1>1, <1>2, <1>3 DEF StepOf, Own, Transact, Recover

\* What its recovery still has to visit.
LEMMA TodoMoves ==
    ASSUME FilesType, MemoryType, NEW w \in Workers, Control(w), StepOf(w)
    PROVE  UNCHANGED todo \/ \E v \in SUBSET Ids : todo' = [todo EXCEPT ![w] = v]
<1> USE DEF Idle, memory, durable, files, Visited, Result
<1>1. CASE TryLockPort(w) \/ Refuse(w) \/ StopCancelled(w) \/ KeepActive(w) \/ ReuseStaged(w) \/
        ReuseRetained(w) \/ RegisterRetained(w) \/ StartInstall(w) \/ PreparePayload(w) \/
        SealPayload(w) \/ RetainCleanup(w) \/ FailPrivately(w) \/ RetainPrivate(w) \/
        BeginActivation(w) \/ RollBack(w) \/ BeginRemoval(w)
  BY <1>1 DEF TryLockPort, Refuse, StopCancelled, KeepActive, ReuseStaged, ReuseRetained,
        RegisterRetained, StartInstall, PreparePayload, SealPayload, RetainCleanup, FailPrivately,
        RetainPrivate, BeginActivation, RollBack, BeginRemoval
<1>2. CASE FailSealed(w) \/ FailActivation(w) \/ FailRemoval(w) \/ UnlockPort(w) \/ Rejournal(w) \/
        (\E i \in Ids, request \in Requests : Begin(w, i, request)) \/ Persist(w) \/ Retire(w) \/
        PublishPayload(w) \/ AcceptPublished(w) \/ RegisterPublished(w) \/ RemoveStaging(w) \/
        DiscardPrivate(w) \/ SwitchPointers(w) \/ Quarantine(w) \/ FinishQuarantine(w)
  BY <1>2 DEF FailSealed, FailActivation, FailRemoval, UnlockPort, Rejournal, Begin, Persist,
       Retire,
        PublishPayload, AcceptPublished, RegisterPublished, RemoveStaging, DiscardPrivate,
        SwitchPointers, Quarantine, FinishQuarantine
<1>3. CASE Deregister(w) \/ DeleteQuarantine(w) \/ ListJournals(w) \/ LeaveForReview(w) \/ Settle(w)
  BY <1>3 DEF Deregister, DeleteQuarantine, ListJournals, LeaveForReview, Settle
<1>4. CASE (\E i \in Ids : SkipCancellation(w, i)) \/ (\E i \in Ids : TakeUpCancellation(w, i)) \/
        (\E i \in Ids : SkipJournal(w, i)) \/ (\E i \in Ids : Resume(w, i))
  <2>1. PICK i \in Ids : todo' = [todo EXCEPT ![w] = todo[w] \ {i}]
    BY <1>4 DEF SkipCancellation, TakeUpCancellation, SkipJournal, Resume
  <2>2. todo[w] \ {i} \in SUBSET Ids
    BY DEF MemoryType
  <2> QED BY <2>1, <2>2
<1>5. CASE Finish(w) \/ Crash(w) \/ AbandonRecovery(w) \/ EndRecovery(w)
  BY <1>5 DEF Finish, Crash, AbandonRecovery, EndRecovery
<1>6. CASE StartRecovery(w) \/ InventoryJournals(w)
  BY <1>6 DEF StartRecovery, InventoryJournals
<1> QED BY ONLY StepOf(w), <1>1, <1>2, <1>3, <1>4, <1>5, <1>6 DEF StepOf, Own, Transact, Recover

\* What its recovery saw.
LEMMA SeenMoves ==
    ASSUME FilesType, MemoryType, NEW w \in Workers, Control(w), StepOf(w)
    PROVE  UNCHANGED seen \/ \E v \in [Ids -> {"absent", "private", "other"}] : seen' = [seen EXCEPT ![w] = v]
<1> USE DEF Idle, memory, durable, files, Visited, Result
<1>1. CASE TryLockPort(w) \/ Refuse(w) \/ StopCancelled(w) \/ KeepActive(w) \/ ReuseStaged(w) \/
        ReuseRetained(w) \/ RegisterRetained(w) \/ StartInstall(w) \/ PreparePayload(w) \/
        SealPayload(w) \/ RetainCleanup(w) \/ FailPrivately(w) \/ RetainPrivate(w) \/
        BeginActivation(w) \/ RollBack(w) \/ BeginRemoval(w)
  BY <1>1 DEF TryLockPort, Refuse, StopCancelled, KeepActive, ReuseStaged, ReuseRetained,
        RegisterRetained, StartInstall, PreparePayload, SealPayload, RetainCleanup, FailPrivately,
        RetainPrivate, BeginActivation, RollBack, BeginRemoval
<1>2. CASE FailSealed(w) \/ FailActivation(w) \/ FailRemoval(w) \/ UnlockPort(w) \/ Rejournal(w) \/
        (\E i \in Ids, request \in Requests : Begin(w, i, request)) \/ Persist(w) \/ Retire(w) \/
        PublishPayload(w) \/ AcceptPublished(w) \/ RegisterPublished(w) \/ RemoveStaging(w) \/
        DiscardPrivate(w) \/ SwitchPointers(w) \/ Quarantine(w) \/ FinishQuarantine(w)
  BY <1>2 DEF FailSealed, FailActivation, FailRemoval, UnlockPort, Rejournal, Begin, Persist,
       Retire,
        PublishPayload, AcceptPublished, RegisterPublished, RemoveStaging, DiscardPrivate,
        SwitchPointers, Quarantine, FinishQuarantine
<1>3. CASE Deregister(w) \/ DeleteQuarantine(w) \/ StartRecovery(w) \/ LeaveForReview(w) \/
        Settle(w) \/ (\E i \in Ids : SkipCancellation(w, i)) \/
        (\E i \in Ids : TakeUpCancellation(w, i)) \/ (\E i \in Ids : SkipJournal(w, i)) \/
        (\E i \in Ids : Resume(w, i))
  BY <1>3 DEF Deregister, DeleteQuarantine, StartRecovery, LeaveForReview, Settle, SkipCancellation,
        TakeUpCancellation, SkipJournal, Resume
<1>4. CASE Finish(w) \/ Crash(w) \/ AbandonRecovery(w) \/ EndRecovery(w)
  BY <1>4 DEF Finish, Crash, AbandonRecovery, EndRecovery
<1>5. CASE ListJournals(w) \/ InventoryJournals(w)
  BY <1>5 DEF ListJournals, InventoryJournals, Sight
<1> QED BY ONLY StepOf(w), <1>1, <1>2, <1>3, <1>4, <1>5 DEF StepOf, Own, Transact, Recover

\* Its next step: After and ResumeAt lead to steps for every journal there is.
LEMMA PcMoves ==
    ASSUME FilesType, MemoryType, NEW w \in Workers, Control(w), StepOf(w),
           \A i \in Ids : Shape(i, journal[i])
    PROVE  UNCHANGED pc \/ \E s \in Steps : Goto(w, s)
<1> USE DEF Goto, Idle, memory, durable, files
<1>1. CASE TryLockPort(w) \/ Refuse(w) \/ StopCancelled(w) \/ KeepActive(w) \/ ReuseStaged(w) \/
        ReuseRetained(w) \/ RegisterRetained(w) \/ StartInstall(w) \/ PreparePayload(w) \/
        SealPayload(w)
  BY <1>1 DEF TryLockPort, Refuse, StopCancelled, KeepActive, ReuseStaged, ReuseRetained,
        RegisterRetained, StartInstall, PreparePayload, SealPayload,
        Steps
<1>2. CASE RetainCleanup(w) \/ FailPrivately(w) \/ RetainPrivate(w) \/ BeginActivation(w) \/
        RollBack(w) \/ BeginRemoval(w) \/ FailSealed(w) \/ FailActivation(w) \/ FailRemoval(w) \/
        UnlockPort(w)
  BY <1>2 DEF RetainCleanup, FailPrivately, RetainPrivate, BeginActivation, RollBack, BeginRemoval,
        FailSealed, FailActivation, FailRemoval, UnlockPort,
        Steps
<1>3. CASE Rejournal(w) \/ Finish(w)
                        \/ (\E i \in Ids, request \in Requests : Begin(w, i, request)) \/
        Retire(w) \/ PublishPayload(w) \/ AcceptPublished(w) \/ RegisterPublished(w) \/
        RemoveStaging(w) \/ DiscardPrivate(w) \/ SwitchPointers(w)
  BY <1>3 DEF Rejournal, Finish, Begin, Retire, PublishPayload, AcceptPublished, RegisterPublished,
        RemoveStaging, DiscardPrivate, SwitchPointers,
        Steps
<1>4. CASE FinishQuarantine(w) \/ Deregister(w) \/ DeleteQuarantine(w) \/ StartRecovery(w) \/
        ListJournals(w) \/ AbandonRecovery(w) \/ InventoryJournals(w) \/ LeaveForReview(w) \/
        Settle(w) \/ EndRecovery(w)
  BY <1>4 DEF FinishQuarantine, Deregister, DeleteQuarantine, StartRecovery, ListJournals,
        AbandonRecovery, InventoryJournals, LeaveForReview, Settle, EndRecovery,
        Steps
<1>5. CASE (\E i \in Ids : TakeUpCancellation(w, i)) \/ Crash(w)
  BY <1>5 DEF TakeUpCancellation, Crash,
        Steps
<1>6. CASE Quarantine(w) \/ (\E i \in Ids : SkipCancellation(w, i)) \/
        (\E i \in Ids : SkipJournal(w, i))
  BY <1>6 DEF Quarantine, SkipCancellation, SkipJournal
<1>7. CASE Persist(w)
  <2>1. After(draft[w]) \in Steps
    BY <1>7, AfterFits DEF Persist, Control, DraftFits, Idling, MemoryType
  <2> QED BY <1>7, <2>1 DEF Persist
<1>8. CASE (\E i \in Ids : Resume(w, i))
  <2>1. PICK i \in Ids : Resume(w, i)
    BY <1>8
  <2>2. ResumeAt(journal[i]) \in Steps
    BY <2>1, ResumeFits DEF Resume, FilesType
  <2> QED BY <2>1, <2>2 DEF Resume
<1> QED BY ONLY StepOf(w), <1>1, <1>2, <1>3, <1>4, <1>5, <1>6, <1>7, <1>8 DEF StepOf, Own,
     Transact, Recover

\* The journal it has in memory.
LEMMA DraftMoves ==
    ASSUME FilesType, MemoryType, NEW w \in Workers, Control(w), StepOf(w)
    PROVE  UNCHANGED draft \/ \E j \in Journal : Hold(w, j)
<1> USE DEF Hold, Idle, memory, durable, files
<1>1. CASE TryLockPort(w) \/ StopCancelled(w) \/ KeepActive(w) \/ PreparePayload(w) \/
        FailPrivately(w) \/ RollBack(w) \/ FailSealed(w) \/ FailActivation(w) \/ FailRemoval(w) \/
        UnlockPort(w) \/ Rejournal(w) \/
        (\E i \in Ids, request \in Requests : Begin(w, i, request))
  BY <1>1 DEF TryLockPort, StopCancelled, KeepActive, PreparePayload, FailPrivately, RollBack,
        FailSealed, FailActivation, FailRemoval, UnlockPort, Rejournal, Begin
<1>2. CASE Persist(w) \/ Retire(w) \/ RemoveStaging(w) \/ DiscardPrivate(w) \/ Quarantine(w) \/
        DeleteQuarantine(w) \/ StartRecovery(w) \/ ListJournals(w) \/ InventoryJournals(w) \/
        (\E i \in Ids : SkipCancellation(w, i)) \/ (\E i \in Ids : SkipJournal(w, i))
  BY <1>2 DEF Persist, Retire, RemoveStaging, DiscardPrivate, Quarantine, DeleteQuarantine,
        StartRecovery, ListJournals, InventoryJournals, SkipCancellation, SkipJournal
<1>3. CASE Refuse(w) \/ RegisterRetained(w) \/ Finish(w) \/ AbandonRecovery(w) \/ EndRecovery(w) \/
        LeaveForReview(w) \/ Settle(w) \/ Crash(w)
  BY <1>3, NoJournalType DEF Refuse, RegisterRetained, Finish, AbandonRecovery, EndRecovery,
       LeaveForReview, Settle,
        Crash
<1>4. CASE (\E i \in Ids : TakeUpCancellation(w, i)) \/ (\E i \in Ids : Resume(w, i))
  BY <1>4 DEF TakeUpCancellation, Resume, FilesType
<1>5. CASE RetainCleanup(w) \/ AcceptPublished(w) \/ PublishPayload(w) \/ RegisterPublished(w) \/
        SwitchPointers(w) \/ FinishQuarantine(w) \/ Deregister(w) \/ RetainPrivate(w)
  <2>1. UNCHANGED draft \/ \E p \in Phases : InMemory(w, p)
    BY <1>5 DEF RetainCleanup, AcceptPublished, PublishPayload, RegisterPublished, SwitchPointers,
          FinishQuarantine, Deregister, RetainPrivate, Phases
  <2>2. \A p \in Phases : [draft[w] EXCEPT !.phase = p] \in Journal
    BY JournalTypes DEF MemoryType
  <2> QED BY <2>1, <2>2 DEF InMemory
<1>6. CASE ReuseStaged(w) \/ BeginActivation(w) \/ StartInstall(w) \/ BeginRemoval(w)
  <2>1. /\ Begun("activate", inv.staged, FALSE, {}) \in Journal
        /\ Begun("install", NoId, want[w].activate, {}) \in Journal
        /\ Begun("remove", NoId, FALSE, inv.registered) \in Journal
    <3>1. inv.staged \in Ids \cup {NoId} /\ inv.registered \in SUBSET Ids
      BY DEF FilesType, InventoryType
    <3>2. want[w].activate \in BOOLEAN
      BY RequestsSay DEF MemoryType
    <3> QED BY <3>1, <3>2, JournalTypes
  <2> QED BY <1>6, <2>1 DEF ReuseStaged, BeginActivation, StartInstall, BeginRemoval
<1>7. CASE SealPayload(w)
  <2>1. op[w] \in Ids
    BY <1>7 DEF SealPayload, Running, Control, Idling, MemoryType
  <2>2. [draft[w] EXCEPT !.phase = "prepared", !.install = op[w]] \in Journal
    BY <2>1, JournalTypes DEF Phases, MemoryType
  <2> QED BY <1>7, <2>2 DEF SealPayload
<1>8. CASE ReuseRetained(w)
  <2>1. PICK i \in inv.registered : draft' = [draft EXCEPT ![w].install = i]
    BY <1>8 DEF ReuseRetained
  <2>2. [draft[w] EXCEPT !.install = i] \in Journal
    BY <2>1, JournalTypes DEF MemoryType, FilesType, InventoryType
  <2> QED BY <2>1, <2>2
<1> QED BY ONLY StepOf(w), <1>1, <1>2, <1>3, <1>4, <1>5, <1>6, <1>7, <1>8 DEF StepOf, Own,
     Transact, Recover

\* Every step keeps the types of the workers' memory.
LEMMA MemoryStep ==
    ASSUME FilesType, MemoryType, NEW w \in Workers, Control(w), StepOf(w),
           \A i \in Ids : Shape(i, journal[i])
    PROVE  MemoryType'
<1> USE DEF MemoryType
<1>1. service' \in [Workers -> BOOLEAN]
  BY ServiceMoves
<1>2. pc' \in [Workers -> Steps]
  BY PcMoves DEF Goto
<1>3. mode' \in [Workers -> {"none", "run", "cancel", "recover"}]
  BY ModeMoves
<1>4. op' \in [Workers -> Ids \cup {NoId}]
  BY OpMoves
<1>5. want' \in [Workers -> RequestType]
  BY WantMoves
<1>6. draft' \in [Workers -> Journal]
  BY DraftMoves DEF Hold
<1>7. outcome' \in [Workers -> Outcomes]
  BY OutcomeMoves
<1>8. todo' \in [Workers -> SUBSET Ids]
  BY TodoMoves
<1>9. seen' \in [Workers -> [Ids -> {"absent", "private", "other"}]]
  BY SeenMoves
<1> QED BY <1>1, <1>2, <1>3, <1>4, <1>5, <1>6, <1>7, <1>8, <1>9

-----------------------------------------------------------------------------
(* What one step may write.                                                *)

\* The steps that write files, rows or journals; every other step may only
\* change an activity.
Writes(w) ==
    \/ StartInstall(w) \/ Persist(w) \/ Retire(w) \/ FailSealed(w) \/ FailActivation(w)
    \/ Rejournal(w) \/ PreparePayload(w) \/ RemoveStaging(w) \/ DiscardPrivate(w)
    \/ PublishPayload(w) \/ RegisterRetained(w) \/ RegisterPublished(w) \/ SwitchPointers(w)
    \/ RollBack(w) \/ Deregister(w) \/ Quarantine(w) \/ DeleteQuarantine(w)
Quiet == UNCHANGED <<inv, build, version, staging, quarantine, journal>>

\* The actions that write rows, files or journals; the others are quiet.
LEMMA QuietOrWrites ==
    ASSUME NEW w \in Workers, StepOf(w)
    PROVE  Quiet \/ Writes(w)
<1> USE DEF Quiet, memory, durable, files
<1>1. CASE TryLockPort(w) \/ Refuse(w) \/ StopCancelled(w) \/ KeepActive(w) \/ ReuseStaged(w) \/
        ReuseRetained(w) \/ SealPayload(w) \/ RetainCleanup(w) \/ FailPrivately(w) \/
        RetainPrivate(w) \/ BeginActivation(w) \/ BeginRemoval(w) \/ FailRemoval(w) \/
        UnlockPort(w)
  BY <1>1 DEF TryLockPort, Refuse, StopCancelled, KeepActive, ReuseStaged, ReuseRetained,
       SealPayload,
        RetainCleanup, FailPrivately, RetainPrivate, BeginActivation, BeginRemoval, FailRemoval,
        UnlockPort
<1>2. CASE Finish(w) \/ (\E i \in Ids, request \in Requests : Begin(w, i, request)) \/
        AcceptPublished(w) \/ FinishQuarantine(w) \/ StartRecovery(w) \/ ListJournals(w) \/
        AbandonRecovery(w) \/ InventoryJournals(w) \/ LeaveForReview(w) \/ Settle(w) \/
        EndRecovery(w) \/ (\E i \in Ids : SkipCancellation(w, i)) \/
        (\E i \in Ids : TakeUpCancellation(w, i)) \/ (\E i \in Ids : SkipJournal(w, i)) \/
        (\E i \in Ids : Resume(w, i)) \/ Crash(w)
  BY <1>2 DEF Finish, Begin, AcceptPublished, FinishQuarantine, StartRecovery, ListJournals,
        AbandonRecovery, InventoryJournals, LeaveForReview, Settle, EndRecovery, SkipCancellation,
        TakeUpCancellation, SkipJournal, Resume, Crash
<1> QED BY ONLY StepOf(w), <1>1, <1>2 DEF StepOf, Own, Transact, Recover, Writes

\* A journal is written for the operation of the worker, from its memory.
LEMMA JournalMoves ==
    ASSUME NEW w \in Workers, StepOf(w)
    PROVE  UNCHANGED journal \/ \E j \in {draft[w], NoJournal} : Put(op[w], j)
<1>1. CASE Persist(w) \/ Retire(w) \/ FailSealed(w) \/ FailActivation(w) \/ Rejournal(w)
  BY <1>1 DEF Persist, Retire, FailSealed, FailActivation, Rejournal, MaybePut
<1>2. CASE Quiet
  BY <1>2 DEF Quiet
<1>3. CASE \/ StartInstall(w) \/ PreparePayload(w) \/ RemoveStaging(w) \/ DiscardPrivate(w)
           \/ PublishPayload(w) \/ RegisterRetained(w) \/ RegisterPublished(w) \/ SwitchPointers(w)
           \/ RollBack(w) \/ Deregister(w) \/ Quarantine(w) \/ DeleteQuarantine(w)
  BY <1>3 DEF StartInstall, PreparePayload, RemoveStaging, DiscardPrivate, PublishPayload,
       RegisterRetained,
        RegisterPublished, SwitchPointers, RollBack, Deregister, Quarantine, DeleteQuarantine, files
<1> QED BY QuietOrWrites, <1>1, <1>2, <1>3 DEF Writes

\* The list of a removal comes from a journal, or from the rows.
LEMMA DraftsRemove ==
    ASSUME FilesType, MemoryType, NEW w \in Workers, StepOf(w)
    PROVE  \/ draft'[w].removed \in {{}, draft[w].removed}
           \/ \E i \in Ids : draft'[w].removed = journal[i].removed
           \/ draft'[w].removed = inv.registered
<1> USE DEF MemoryType, Hold, Idle, memory, durable, files
<1>1. CASE TryLockPort(w) \/ StopCancelled(w) \/ KeepActive(w) \/ PreparePayload(w) \/
        FailPrivately(w) \/ RollBack(w) \/ FailSealed(w) \/ FailActivation(w) \/ FailRemoval(w) \/
        UnlockPort(w) \/ Rejournal(w) \/
        (\E i \in Ids, request \in Requests : Begin(w, i, request))
  BY <1>1 DEF TryLockPort, StopCancelled, KeepActive, PreparePayload, FailPrivately, RollBack,
        FailSealed, FailActivation, FailRemoval, UnlockPort, Rejournal, Begin
<1>2. CASE Persist(w) \/ Retire(w) \/ RemoveStaging(w) \/ DiscardPrivate(w) \/ Quarantine(w) \/
        DeleteQuarantine(w) \/ StartRecovery(w) \/ ListJournals(w) \/ InventoryJournals(w) \/
        (\E i \in Ids : SkipCancellation(w, i)) \/ (\E i \in Ids : SkipJournal(w, i))
  BY <1>2 DEF Persist, Retire, RemoveStaging, DiscardPrivate, Quarantine, DeleteQuarantine,
        StartRecovery, ListJournals, InventoryJournals, SkipCancellation, SkipJournal
<1>3. CASE Refuse(w) \/ RegisterRetained(w) \/ Finish(w) \/ AbandonRecovery(w) \/ EndRecovery(w) \/
        LeaveForReview(w) \/ Settle(w) \/ Crash(w) \/ (\E i \in Ids : TakeUpCancellation(w, i)) \/
        (\E i \in Ids : Resume(w, i)) \/ ReuseStaged(w) \/ BeginActivation(w) \/ StartInstall(w) \/
        BeginRemoval(w)
  BY <1>3 DEF Refuse, RegisterRetained, Finish, AbandonRecovery, EndRecovery, LeaveForReview,
       Settle,
        Crash, TakeUpCancellation, Resume, ReuseStaged, BeginActivation, StartInstall,
             BeginRemoval, NoJournal, Begun
<1>4. CASE RetainCleanup(w) \/ AcceptPublished(w) \/ PublishPayload(w) \/ RegisterPublished(w) \/
        SwitchPointers(w) \/ FinishQuarantine(w) \/ Deregister(w) \/ RetainPrivate(w) \/
        SealPayload(w) \/ ReuseRetained(w)
  <2>1. \E p \in Phases, i \in Ids \cup {NoId} :
          \/ UNCHANGED draft
          \/ draft' = [draft EXCEPT ![w].phase = p]
          \/ draft' = [draft EXCEPT ![w].phase = p, ![w].install = i]
          \/ draft' = [draft EXCEPT ![w].install = i]
    BY <1>4 DEF RetainCleanup, AcceptPublished, PublishPayload, RegisterPublished, SwitchPointers,
          FinishQuarantine, Deregister, RetainPrivate, SealPayload, ReuseRetained, InMemory,
               Phases, FilesType, InventoryType
  <2>2. draft[w] \in Journal
    OBVIOUS
  <2> QED BY <2>1, <2>2 DEF Journal
<1> QED BY ONLY StepOf(w), <1>1, <1>2, <1>3, <1>4 DEF StepOf, Own, Transact, Recover

\* A removal comes to list only what has a row.
LEMMA RemovingGrows ==
    ASSUME FilesType, MemoryType, NEW w \in Workers, Control(w), StepOf(w), NEW i \in Ids, Removing(i)'
    PROVE  Removing(i) \/ i \in inv.registered
<1>1. ASSUME NEW r \in Ids, i \in journal'[r].removed
      PROVE  Removing(i)
  <2>1. journal'[r] \in {journal[r], draft[w], NoJournal}
    BY JournalMoves DEF Put, FilesType
  <2> QED BY <1>1, <2>1 DEF Removing, NoJournal
<1>2. ASSUME NEW x \in Workers, i \in draft'[x].removed
      PROVE  Removing(i) \/ i \in inv.registered
  <2>1. CASE x = w
    BY <1>2, <2>1, DraftsRemove DEF Removing
  <2>2. CASE x # w
    BY <1>2, <2>2, OthersKeepTheirMemory DEF Removing, Same
  <2> QED BY <2>1, <2>2
<1> QED BY <1>1, <1>2 DEF Removing

\* A row appears when an install, or a version kept from one, is registered.
LEMMA RegisteredGrows ==
    ASSUME FilesType, MemoryType, NEW w \in Workers, StepOf(w), NEW i \in inv'.registered
    PROVE  \/ i \in inv.registered
           \/ (RegisterRetained(w) \/ RegisterPublished(w)) /\ i = draft[w].install
<1>1. CASE UNCHANGED inv
  BY <1>1
<1>2. CASE RegisterRetained(w) \/ RegisterPublished(w)
  BY <1>2 DEF RegisterRetained, RegisterPublished, RegisterInstall
<1>3. CASE SwitchPointers(w) \/ RollBack(w)
  BY <1>3 DEF SwitchPointers, RollBack, ActivateStaged, SwapPrevious, FilesType, InventoryType
<1>4. CASE Deregister(w)
  BY <1>4 DEF Deregister, RemovePort, NoInventory
<1>5. CASE \/ StartInstall(w) \/ Persist(w) \/ Retire(w) \/ FailSealed(w)
           \/ FailActivation(w) \/ Rejournal(w)
           \/ PreparePayload(w) \/ RemoveStaging(w) \/ DiscardPrivate(w) \/ PublishPayload(w)
           \/ Quarantine(w) \/ DeleteQuarantine(w)
  BY <1>1, <1>5 DEF StartInstall, Persist, Retire, FailSealed, FailActivation, Rejournal,
       PreparePayload,
     RemoveStaging, DiscardPrivate, PublishPayload, Quarantine, DeleteQuarantine
<1> QED BY <1>1, <1>2, <1>3, <1>4, <1>5, QuietOrWrites DEF Quiet, Writes

\* Rows go when a removal deregisters the port, and in no other way.
LEMMA RowsStay ==
    ASSUME FilesType, NEW w \in Workers, StepOf(w), NEW i \in inv.registered
    PROVE  i \in inv'.registered \/ Deregister(w)
<1>1. CASE UNCHANGED inv
  BY <1>1
<1>2. CASE RegisterRetained(w) \/ RegisterPublished(w)
  BY <1>2 DEF RegisterRetained, RegisterPublished, RegisterInstall
<1>3. CASE SwitchPointers(w) \/ RollBack(w)
  BY <1>3 DEF SwitchPointers, RollBack, ActivateStaged, SwapPrevious, FilesType, InventoryType
<1>5. CASE \/ StartInstall(w) \/ Persist(w) \/ Retire(w) \/ FailSealed(w)
           \/ FailActivation(w) \/ Rejournal(w)
           \/ PreparePayload(w) \/ RemoveStaging(w) \/ DiscardPrivate(w) \/ PublishPayload(w)
           \/ Quarantine(w) \/ DeleteQuarantine(w)
  BY <1>1, <1>5 DEF StartInstall, Persist, Retire, FailSealed, FailActivation, Rejournal,
       PreparePayload,
     RemoveStaging, DiscardPrivate, PublishPayload, Quarantine, DeleteQuarantine
<1> QED BY <1>1, <1>2, <1>3, <1>5, QuietOrWrites DEF Quiet, Writes

\* The version paths change by publishing and by quarantining.
LEMMA VersionsMove ==
    ASSUME NEW w \in Workers, StepOf(w)
    PROVE  UNCHANGED version \/ PublishPayload(w) \/ Quarantine(w)
<1>1. CASE \/ StartInstall(w) \/ Persist(w) \/ Retire(w) \/ FailSealed(w)
           \/ FailActivation(w) \/ Rejournal(w)
           \/ PreparePayload(w) \/ RemoveStaging(w) \/ DiscardPrivate(w) \/ RegisterRetained(w)
           \/ RegisterPublished(w) \/ SwitchPointers(w) \/ RollBack(w) \/ Deregister(w) \/ DeleteQuarantine(w)
  BY <1>1 DEF StartInstall, Persist, Retire, FailSealed, FailActivation, Rejournal, PreparePayload,
     RemoveStaging, DiscardPrivate, RegisterRetained, RegisterPublished, SwitchPointers,
          RollBack, Deregister,
     DeleteQuarantine, files
<1> QED BY <1>1, QuietOrWrites DEF Quiet, Writes

\* Private staging is filled, published, cleaned or discarded.
LEMMA StagingMoves ==
    ASSUME NEW w \in Workers, StepOf(w)
    PROVE  UNCHANGED staging \/ PreparePayload(w) \/ PublishPayload(w) \/ RemoveStaging(w) \/ DiscardPrivate(w)
<1>1. CASE \/ StartInstall(w) \/ Persist(w) \/ Retire(w) \/ FailSealed(w)
           \/ FailActivation(w) \/ Rejournal(w)
           \/ RegisterRetained(w) \/ RegisterPublished(w) \/ SwitchPointers(w) \/ RollBack(w) \/ Deregister(w)
           \/ Quarantine(w) \/ DeleteQuarantine(w)
  BY <1>1 DEF StartInstall, Persist, Retire, FailSealed, FailActivation, Rejournal,
       RegisterRetained,
     RegisterPublished, SwitchPointers, RollBack, Deregister, Quarantine, DeleteQuarantine, files
<1> QED BY <1>1, QuietOrWrites DEF Quiet, Writes

\* A quarantine is filled and deleted by a removal.
LEMMA QuarantineMoves ==
    ASSUME NEW w \in Workers, StepOf(w)
    PROVE  UNCHANGED quarantine \/ Quarantine(w) \/ DeleteQuarantine(w)
<1>1. CASE \/ StartInstall(w) \/ Persist(w) \/ Retire(w) \/ FailSealed(w)
           \/ FailActivation(w) \/ Rejournal(w)
           \/ PreparePayload(w) \/ RemoveStaging(w) \/ DiscardPrivate(w) \/ PublishPayload(w) \/ RegisterRetained(w)
           \/ RegisterPublished(w) \/ SwitchPointers(w) \/ RollBack(w) \/ Deregister(w)
  BY <1>1 DEF StartInstall, Persist, Retire, FailSealed, FailActivation, Rejournal, PreparePayload,
     RemoveStaging, DiscardPrivate, PublishPayload, RegisterRetained, RegisterPublished,
          SwitchPointers, RollBack,
     Deregister, files
<1> QED BY <1>1, QuietOrWrites DEF Quiet, Writes

\* An operation is bound to its build when its install starts.
LEMMA BuildMoves ==
    ASSUME NEW w \in Workers, StepOf(w)
    PROVE  UNCHANGED build \/ StartInstall(w)
<1>1. CASE \/ Persist(w) \/ Retire(w) \/ FailSealed(w) \/ FailActivation(w) \/ Rejournal(w)
           \/ PreparePayload(w) \/ RemoveStaging(w) \/ DiscardPrivate(w) \/ PublishPayload(w) \/ RegisterRetained(w)
           \/ RegisterPublished(w) \/ SwitchPointers(w) \/ RollBack(w) \/ Deregister(w) \/ Quarantine(w)
           \/ DeleteQuarantine(w)
  BY <1>1 DEF Persist, Retire, FailSealed, FailActivation, Rejournal, PreparePayload,
     RemoveStaging, DiscardPrivate, PublishPayload, RegisterRetained, RegisterPublished,
          SwitchPointers, RollBack,
     Deregister, Quarantine, DeleteQuarantine, files
<1> QED BY <1>1, QuietOrWrites DEF Quiet, Writes

\* A version comes to its path by being published.
LEMMA PublishedGrows ==
    ASSUME FilesType, NEW w \in Workers, StepOf(w), NEW i \in Ids, Published(i)'
    PROVE  Published(i) \/ (PublishPayload(w) /\ i = op[w])
<1>1. PICK b \in Builds : version'[b] = i
  BY DEF Published
<1>2. CASE UNCHANGED version
  BY <1>1, <1>2 DEF Published
<1>3. CASE PublishPayload(w)
  BY <1>1, <1>3 DEF PublishPayload, Published, FilesType
<1>4. CASE Quarantine(w)
  BY <1>1, <1>4, DistinctValues DEF Quarantine, Published, FilesType
<1> QED BY <1>2, <1>3, <1>4, VersionsMove

\* An identifier that was nowhere in the library gets into it by publishing
\* its files, and in no other way.
LEMMA TracedGrows ==
    ASSUME FilesType, MemoryType, NEW w \in Workers, Control(w), Fits(w), StepOf(w), NEW i \in Ids, Traced(i)'
    PROVE  Traced(i) \/ (PublishPayload(w) /\ i = op[w])
<1>1. CASE i \in inv'.registered
  <2>1. CASE RegisterRetained(w) /\ i = draft[w].install
    BY <2>1 DEF RegisterRetained, Running, Fits, Traced
  <2>2. CASE RegisterPublished(w) /\ i = draft[w].install
    <3>1. At(w, "registering") /\ (mode[w] = "recover" => Live(op[w]))
      BY <2>2 DEF RegisterPublished
    <3>2. mode[w] = "run" \/ mode[w] = "recover"
      BY <3>1 DEF At, Control, CancelSteps, MemoryType
    <3>3. op[w] = i /\ draft[w].kind = "install" /\ draft[w].phase = "payload_published"
      BY <2>2, <3>1 DEF At, Control, DraftFits, Idling, Shape, NoJournal
    <3>4. Live(i) /\ build[i] \in Builds
      BY <3>1, <3>2, <3>3 DEF At, Fits
    <3> QED BY <3>4 DEF Live, Published, Traced
  <2> QED BY <1>1, <2>1, <2>2, RegisteredGrows DEF Traced
<1>2. CASE Published(i)'
  BY <1>2, PublishedGrows DEF Traced
<1>3. CASE Removing(i)'
  BY <1>3, RemovingGrows DEF Traced
<1> QED BY <1>1, <1>2, <1>3 DEF Traced

\* The journals keep the shapes they can have.
LEMMA ShapesStay ==
    ASSUME FilesType, MemoryType, NEW w \in Workers, Control(w), StepOf(w), NEW i \in Ids, Shape(i, journal[i])
    PROVE  Shape(i, journal'[i])
<1>1. CASE UNCHANGED journal
  BY <1>1
<1>2. CASE Put(op[w], NoJournal)
  BY <1>2 DEF Put, FilesType, Shape
<1>3. CASE Persist(w) \/ FailSealed(w) \/ FailActivation(w) \/ Rejournal(w) \/ Retire(w)
  <2>1. pc[w] \notin Idling \cup {"reusing"} /\ Shape(op[w], draft[w])
    BY <1>3 DEF Persist, FailSealed, FailActivation, Rejournal, Retire, Running, Control,
         DraftFits, Idling
  <2> QED BY <2>1, JournalMoves DEF Put, FilesType, Shape
<1> QED BY <1>1, <1>3, QuietOrWrites DEF Quiet, Writes, StartInstall, PreparePayload,
     RemoveStaging, DiscardPrivate,
        PublishPayload, RegisterRetained, RegisterPublished, SwitchPointers, RollBack,
             Deregister, Quarantine,
        DeleteQuarantine, files

-----------------------------------------------------------------------------
(* What the records say of the files.                                      *)

\* A journal is stored over the one that Before describes, or it is the one
\* that a failed removal writes once more.  It is deleted when nothing is
\* left of the private files.
LEMMA Stores ==
    ASSUME FilesType, MemoryType, NEW w \in Workers, Control(w), Fits(w), AllRecorded, StepOf(w),
           NEW i \in Ids, journal'[i] # journal[i]
    PROVE  /\ i = op[w] /\ UNCHANGED <<inv, build, version, staging, quarantine, activity>>
           /\ \/ journal'[i] = NoJournal /\ staging[i] = "none" /\ quarantine[i] = {}
              \/ /\ journal'[i] = draft[w] /\ draft[w].kind # "none"
                 /\ (pc[w] = "persisting" /\ Before(w)) \/ draft[w].kind = "remove"
<1>1. i = op[w] /\ journal'[i] \in {draft[w], NoJournal}
  BY JournalMoves DEF Put, FilesType
<1>2. Fits(w) /\ Control(w) /\ Recorded(i)
  BY DEF AllRecorded
<1>3. CASE Persist(w)
  <2>1. pc[w] = "persisting" /\ journal' = [journal EXCEPT ![op[w]] = draft[w]]
        /\ UNCHANGED <<inv, build, version, staging, quarantine, activity>>
    BY <1>3 DEF Persist, Put, files
  <2>2. Before(w) /\ draft[w].kind # "none"
    BY <1>2, <2>1 DEF Fits, Control, DraftFits, Idling
  <2> QED BY <1>1, <2>1, <2>2 DEF FilesType
<1>4. CASE Retire(w)
  <2>1. pc[w] = "retiring" /\ journal' = [journal EXCEPT ![op[w]] = NoJournal]
        /\ UNCHANGED <<inv, build, version, staging, quarantine, activity>>
    BY <1>4 DEF Retire, Put, files
  <2> QED BY <1>1, <1>2, <2>1 DEF FilesType, Fits
<1>5. CASE FailSealed(w)
  <2>1. /\ draft[w].kind = "install" /\ pc[w] \in {"persisting", "publishing", "registering", "retiring"}
        /\ UNCHANGED <<inv, build, version, staging, quarantine, activity>>
        /\ journal' = [journal EXCEPT ![op[w]] = draft[w]]
    BY <1>5 DEF FailSealed, MaybePut, Put, files
  <2>2. journal'[i] = draft[w]
    BY <1>1, <2>1 DEF FilesType
  <2>3. pc[w] = "persisting"
    BY <1>1, <1>2, <2>1, <2>2 DEF Fits, Locked
  <2> QED BY <1>1, <1>2, <2>1, <2>2, <2>3 DEF Fits
<1>6. CASE FailActivation(w)
  <2>1. /\ draft[w].kind = "activate" /\ UNCHANGED <<inv, build, version, staging, quarantine, activity>>
        /\ pc[w] \in {"switching", "retiring", "persisting"}
    BY <1>6 DEF FailActivation, files
  <2>2. journal[i].kind \in {"none", "activate"}
    BY <1>1, <1>2, <2>1 DEF Fits
  <2>3. staging[i] = "none" /\ quarantine[i] = {}
    BY <1>2, <2>2 DEF Recorded
  <2>4. CASE journal'[i] = draft[w]
    <3>1. pc[w] = "persisting"
      BY <1>1, <1>2, <2>1, <2>4 DEF Fits, Locked
    <3> QED BY <1>1, <1>2, <2>1, <2>4, <3>1 DEF Fits
  <2> QED BY <1>1, <2>1, <2>3, <2>4
<1>7. CASE Rejournal(w)
  <2>1. pc[w] = "rejournaling" /\ UNCHANGED <<inv, build, version, staging, quarantine, activity>>
        /\ journal' = [journal EXCEPT ![op[w]] = draft[w]]
    BY <1>7 DEF Rejournal, Put, files, Running
  <2>2. draft[w].kind = "remove"
    BY <1>2, <2>1 DEF Control, DraftFits, Idling
  <2> QED BY <1>1, <2>1, <2>2 DEF FilesType
<1> QED BY <1>3, <1>4, <1>5, <1>6, <1>7, QuietOrWrites DEF Quiet, Writes, StartInstall,
     PreparePayload, RemoveStaging,
        DiscardPrivate, PublishPayload, RegisterRetained, RegisterPublished, SwitchPointers,
             RollBack, Deregister,
        Quarantine, DeleteQuarantine, files

\* The steps that change an activity.
LEMMA ActivityMoves ==
    ASSUME NEW w \in Workers, StepOf(w)
    PROVE  \/ UNCHANGED activity
           \/ (ReuseStaged(w) \/ ReuseRetained(w) \/ SealPayload(w)) /\ ClosePreparation(op[w])
           \/ Finish(w) \/ Settle(w)
           \/ \E k \in Ids, request \in Requests : Begin(w, k, request)
<1> USE DEF durable
<1>1. CASE TryLockPort(w) \/ Refuse(w) \/ StopCancelled(w) \/ KeepActive(w)
                          \/ RegisterRetained(w) \/
        StartInstall(w) \/ PreparePayload(w) \/ RetainCleanup(w) \/ FailPrivately(w) \/
        RetainPrivate(w) \/ BeginActivation(w) \/ RollBack(w) \/ BeginRemoval(w) \/
        FailSealed(w) \/ FailActivation(w) \/ FailRemoval(w) \/ UnlockPort(w) \/ Rejournal(w) \/
        Persist(w) \/ Retire(w)
  BY <1>1 DEF TryLockPort, Refuse, StopCancelled, KeepActive, RegisterRetained, StartInstall,
        PreparePayload, RetainCleanup, FailPrivately, RetainPrivate, BeginActivation, RollBack,
        BeginRemoval, FailSealed, FailActivation, FailRemoval, UnlockPort, Rejournal, Persist,
        Retire
<1>2. CASE PublishPayload(w) \/ AcceptPublished(w) \/ RegisterPublished(w) \/ RemoveStaging(w) \/
        DiscardPrivate(w) \/ SwitchPointers(w) \/ Quarantine(w) \/ FinishQuarantine(w) \/
        Deregister(w) \/ DeleteQuarantine(w) \/ StartRecovery(w) \/ ListJournals(w) \/
        AbandonRecovery(w) \/ InventoryJournals(w) \/ LeaveForReview(w) \/ EndRecovery(w) \/
        (\E i \in Ids : SkipCancellation(w, i)) \/ (\E i \in Ids : TakeUpCancellation(w, i)) \/
        (\E i \in Ids : SkipJournal(w, i)) \/ (\E i \in Ids : Resume(w, i)) \/ Crash(w)
  BY <1>2 DEF PublishPayload, AcceptPublished, RegisterPublished, RemoveStaging, DiscardPrivate,
        SwitchPointers, Quarantine, FinishQuarantine, Deregister, DeleteQuarantine, StartRecovery,
        ListJournals, AbandonRecovery, InventoryJournals, LeaveForReview, EndRecovery,
        SkipCancellation, TakeUpCancellation, SkipJournal, Resume, Crash
<1>3. CASE ReuseStaged(w) \/ ReuseRetained(w) \/ SealPayload(w)
  BY <1>3 DEF ReuseStaged, ReuseRetained, SealPayload
<1> QED BY ONLY StepOf(w), <1>1, <1>2, <1>3 DEF StepOf, Own, Transact, Recover

\* The status of an activity: it is begun once, and ended once.
LEMMA StatusMoves ==
    ASSUME FilesType, MemoryType, NEW w \in Workers, Control(w), StepOf(w), NEW i \in Ids
    PROVE  \/ activity'[i].status = activity[i].status
           \/ /\ activity[i].status = "unused" /\ activity'[i].status = "running"
              /\ \E request \in Requests : Begin(w, i, request)
           \/ /\ activity[i].status = "running" /\ activity'[i].status \in {"succeeded", "failed", "cancelled"}
              /\ i = op[w] /\ (Finish(w) \/ Settle(w))
<1>1. activity[i] \in ActivityType
  BY DEF FilesType
<1>2. CASE ClosePreparation(op[w])
  BY <1>1, <1>2 DEF ClosePreparation, FilesType, ActivityType
<1>3. CASE Finish(w) \/ Settle(w)
  <2>1. UNCHANGED activity \/ \E s \in {"succeeded", "failed", "cancelled"} : FinishActivity(op[w], s)
    BY <1>3 DEF Finish, Settle
  <2> QED BY <1>1, <1>3, <2>1 DEF FinishActivity, FilesType, ActivityType
<1>4. CASE \E k \in Ids, request \in Requests : Begin(w, k, request)
  <2>1. PICK k \in Ids, request \in Requests : Begin(w, k, request)
    BY <1>4
  <2>2. PICK v \in {"closed", "preparing"} :
          activity' = [activity EXCEPT ![k].status = "running", ![k].window = v]
    BY <2>1 DEF Begin
  <2>3. activity[k].status = "unused" /\ activity[k] \in ActivityType
    BY <2>1 DEF Begin, FilesType
  <2> QED BY <1>1, <2>1, <2>2, <2>3 DEF FilesType, ActivityType
<1> QED BY <1>2, <1>3, <1>4, ActivityMoves

\* A worker comes to an operation by beginning it or by taking it up.
LEMMA OpComes ==
    ASSUME MemoryType, NEW w \in Workers, StepOf(w), NEW i \in Ids, op'[w] = i
    PROVE  \/ op[w] = i
           \/ \E request \in Requests : Begin(w, i, request)
           \/ TakeUpCancellation(w, i)
           \/ Resume(w, i)
<1> USE DistinctValues DEF MemoryType, Idle, memory
<1>1. CASE TryLockPort(w) \/ Refuse(w) \/ StopCancelled(w) \/ KeepActive(w) \/ ReuseStaged(w) \/
        ReuseRetained(w) \/ RegisterRetained(w) \/ StartInstall(w) \/ PreparePayload(w) \/
        SealPayload(w) \/ RetainCleanup(w) \/ FailPrivately(w) \/ RetainPrivate(w) \/
        BeginActivation(w) \/ RollBack(w) \/ BeginRemoval(w) \/ FailSealed(w) \/
        FailActivation(w) \/ FailRemoval(w) \/ UnlockPort(w)
  BY <1>1 DEF TryLockPort, Refuse, StopCancelled, KeepActive, ReuseStaged, ReuseRetained,
        RegisterRetained, StartInstall, PreparePayload, SealPayload, RetainCleanup, FailPrivately,
        RetainPrivate, BeginActivation, RollBack, BeginRemoval, FailSealed, FailActivation,
        FailRemoval, UnlockPort
<1>2. CASE Rejournal(w) \/ Finish(w) \/ Persist(w) \/ Retire(w) \/ PublishPayload(w) \/
        AcceptPublished(w) \/ RegisterPublished(w) \/ RemoveStaging(w) \/ DiscardPrivate(w) \/
        SwitchPointers(w) \/ Quarantine(w) \/ FinishQuarantine(w) \/ Deregister(w) \/
        DeleteQuarantine(w) \/ StartRecovery(w) \/ ListJournals(w) \/ AbandonRecovery(w) \/
        InventoryJournals(w) \/ LeaveForReview(w) \/ Settle(w) \/ EndRecovery(w) \/
        (\E k \in Ids : SkipCancellation(w, k)) \/ (\E k \in Ids : SkipJournal(w, k)) \/ Crash(w)
  BY <1>2 DEF Rejournal, Finish, Persist, Retire, PublishPayload, AcceptPublished,
       RegisterPublished,
        RemoveStaging, DiscardPrivate, SwitchPointers, Quarantine, FinishQuarantine, Deregister,
        DeleteQuarantine, StartRecovery, ListJournals, AbandonRecovery, InventoryJournals,
        LeaveForReview, Settle, EndRecovery, SkipCancellation, SkipJournal, Crash
<1>3. CASE \E k \in Ids : TakeUpCancellation(w, k) \/ Resume(w, k)
  BY <1>3 DEF TakeUpCancellation, Resume
<1>4. CASE \E k \in Ids, request \in Requests : Begin(w, k, request)
  <2>1. PICK k \in Ids, request \in Requests : Begin(w, k, request)
    BY <1>4
  <2>2. op'[w] = k
    BY <2>1 DEF Begin
  <2> QED BY <2>1, <2>2
<1> QED BY ONLY StepOf(w), <1>1, <1>2, <1>3, <1>4 DEF StepOf, Own, Transact, Recover

\* An identifier that was never begun has nothing, and nobody works on it.
LEMMA UnusedStaysFresh ==
    ASSUME Sound, NEW w \in Workers, StepOf(w), NEW i \in Ids, activity'[i].status = "unused"
    PROVE  Fresh(i)' /\ \A x \in Workers : op'[x] # i
<1>1. /\ FilesType /\ MemoryType /\ Control(w) /\ Fits(w) /\ Recorded(i) /\ AllRecorded
  BY DEF Sound, AllControl, AllFits, AllRecorded
<1>2. activity[i].status = "unused"
  BY <1>1, StatusMoves
<1>3. Fresh(i) /\ \A x \in Workers : op[x] # i
  BY <1>1, <1>2 DEF Recorded
<1>4. journal'[i] = journal[i]
  BY <1>1, <1>3, Stores
<1>5. staging'[i] = staging[i]
  BY <1>1, <1>3, StagingMoves DEF PreparePayload, PublishPayload, RemoveStaging,
       DiscardPrivate, FilesType
<1>6. quarantine'[i] = quarantine[i]
  BY <1>1, <1>3, QuarantineMoves DEF Quarantine, DeleteQuarantine, FilesType
<1>7. ~Traced(i)'
  BY <1>1, <1>3, TracedGrows DEF Fresh
<1>8. ASSUME NEW x \in Workers PROVE op'[x] # i
  <2>1. CASE x # w
    BY <1>1, <1>3, <2>1, OthersKeepTheirMemory DEF Same
  <2>2. CASE x = w
    <3>1. ~(\E request \in Requests : Begin(w, i, request))
      BY <1>1 DEF Begin, FilesType, ActivityType
    <3>2. ~TakeUpCancellation(w, i)
      BY <1>2 DEF TakeUpCancellation, Controlled
    <3>3. ~Resume(w, i)
      BY <1>3 DEF Resume, Fresh, NoJournal
    <3> QED BY <1>1, <1>3, <2>2, <3>1, <3>2, <3>3, OpComes
  <2> QED BY <2>1, <2>2
<1> QED BY <1>3, <1>4, <1>5, <1>6, <1>7, <1>8 DEF Fresh

\* Whatever lies in private staging, its journal says so: the journal is stored
\* before the files are made and deleted after them (Recorded, its third and
\* fourth parts).
LEMMA StagingStaysRecorded ==
    ASSUME Sound, NEW w \in Workers, StepOf(w), NEW i \in Ids
    PROVE  /\ staging'[i] # "none" => journal'[i].kind = "install"
           /\ staging'[i] = "payload" => journal'[i].phase = "prepared" \/ Private(journal'[i])
<1>1. /\ FilesType /\ MemoryType /\ Control(w) /\ Fits(w) /\ Recorded(i) /\ AllRecorded
  BY DEF Sound, AllControl, AllFits, AllRecorded
<1>2. CASE journal'[i] # journal[i]
  <2>1. /\ i = op[w] /\ staging'[i] = staging[i]
        /\ \/ journal'[i] = NoJournal /\ staging[i] = "none"
           \/ /\ journal'[i] = draft[w] /\ draft[w].kind # "none"
              /\ (pc[w] = "persisting" /\ Before(w)) \/ draft[w].kind = "remove"
    BY <1>1, <1>2, Stores
  <2>2. CASE staging[i] = "none"
    BY <2>1, <2>2
  <2>3. CASE staging[i] # "none"
    <3>1. journal[i].kind = "install" /\ (staging[i] = "payload" => journal[i].phase = "prepared" \/ Private(journal[i]))
      BY <1>1, <2>3 DEF Recorded
    <3>2. draft[w].kind = "install" /\ pc[w] = "persisting" /\ Before(w) /\ journal'[i] = draft[w]
      BY <1>1, <2>1, <2>3, <3>1 DEF Fits
    <3>3. CASE staging[i] = "payload"
      <4>1. Shape(i, draft[w])
        BY <1>1, <2>1, <3>2 DEF Control, DraftFits, Idling
      <4>2. draft[w].phase = "prepared" \/ Private(draft[w])
        BY <2>1, <3>1, <3>2, <3>3, <4>1, DistinctValues
           DEF Before, Fresh, Private, IsPrivate, DueCleanup, Shape, NoJournal
      <4> QED BY <2>1, <3>2, <4>2
    <3> QED BY <2>1, <3>2, <3>3
  <2> QED BY <2>2, <2>3
<1>3. CASE journal'[i] = journal[i]
  <2>1. CASE staging'[i] = staging[i]
    BY <1>1, <1>3, <2>1 DEF Recorded
  <2>2. CASE i = op[w] /\ PreparePayload(w)
    <3>1. pc[w] = "preparing"
      BY <2>2 DEF PreparePayload, Running
    <3>2. journal[i] = draft[w] /\ IsPrivate(draft[w])
      BY <1>1, <2>2, <3>1 DEF Control, DraftFits, Idling, Locked, Fits, IsPrivate
    <3> QED BY <1>3, <3>2 DEF Private, IsPrivate
  <2>3. CASE i = op[w] /\ PublishPayload(w)
    <3>1. pc[w] = "publishing" /\ staging'[i] = "spent"
      BY <1>1, <2>3 DEF PublishPayload, At, FilesType
    <3>2. journal[i] = draft[w] /\ draft[w].kind = "install"
      BY <1>1, <2>3, <3>1 DEF Control, DraftFits, Idling, Locked, Fits
    <3> QED BY <1>3, <3>1, <3>2
  <2>4. CASE i = op[w] /\ (RemoveStaging(w) \/ DiscardPrivate(w))
    BY <1>1, <2>4 DEF RemoveStaging, DiscardPrivate, FilesType
  <2> QED BY <1>1, <2>1, <2>2, <2>3, <2>4, StagingMoves DEF PreparePayload, PublishPayload,
       RemoveStaging,
          DiscardPrivate, FilesType
<1> QED BY <1>2, <1>3

\* Whatever a removal has moved aside, its journal lists.
LEMMA QuarantineStaysRecorded ==
    ASSUME Sound, NEW w \in Workers, StepOf(w), NEW i \in Ids, quarantine'[i] # {}
    PROVE  journal'[i].kind = "remove" /\ quarantine'[i] \subseteq journal'[i].removed
<1>1. /\ FilesType /\ MemoryType /\ Control(w) /\ Fits(w) /\ Recorded(i) /\ AllRecorded
  BY DEF Sound, AllControl, AllFits, AllRecorded
<1>2. CASE journal'[i] # journal[i]
  <2>1. i = op[w] /\ quarantine'[i] = quarantine[i] /\ journal'[i] = draft[w] /\ draft[w].kind # "none"
    BY <1>1, <1>2, Stores
  <2>2. journal[i].kind = "remove" /\ quarantine[i] \subseteq journal[i].removed
    BY <1>1, <2>1 DEF Recorded
  <2> QED BY <1>1, <2>1, <2>2 DEF Fits
<1>3. CASE journal'[i] = journal[i] /\ quarantine'[i] = quarantine[i]
  BY <1>1, <1>3 DEF Recorded
<1>4. CASE journal'[i] = journal[i] /\ quarantine'[i] # quarantine[i]
  <2>1. i = op[w] /\ Quarantine(w)
    BY <1>1, <1>4, QuarantineMoves DEF Quarantine, DeleteQuarantine, FilesType
  <2>2. pc[w] = "quarantining" /\ op[w] # NoId
    BY <1>1, <2>1 DEF Quarantine, At, Control, Idling
  <2>3. journal[i].kind = "remove" /\ journal[i].removed = draft[w].removed
    BY <1>1, <2>1, <2>2 DEF Control, DraftFits, Fits, Locked
  <2>4. quarantine'[i] \subseteq quarantine[i] \cup draft[w].removed
    BY <1>1, <2>1 DEF Quarantine, FilesType
  <2> QED BY <1>1, <1>4, <2>3, <2>4 DEF Recorded
<1> QED BY <1>2, <1>3, <1>4

\* An install has a build, and its version is at the path of that build.
LEMMA BuildsStayRecorded ==
    ASSUME Sound, NEW w \in Workers, StepOf(w), NEW i \in Ids
    PROVE  /\ journal'[i].kind = "install" => build'[i] \in Builds
           /\ \A b \in Builds : version'[b] = i => build'[i] = b
<1>1. /\ FilesType /\ MemoryType /\ Control(w) /\ Fits(w) /\ Recorded(i) /\ AllRecorded
  BY DEF Sound, AllControl, AllFits, AllRecorded
<1>2. CASE journal'[i] # journal[i]
  <2>1. UNCHANGED <<build, version>> /\ i = op[w] /\ journal'[i] \in {draft[w], NoJournal}
    BY <1>1, <1>2, Stores
  <2> QED BY <1>1, <2>1 DEF Fits, Recorded, NoJournal
<1>3. CASE StartInstall(w)
  <2>1. /\ build' = [build EXCEPT ![op[w]] = want[w].build] /\ UNCHANGED <<version, journal>>
        /\ pc[w] = "choosing" /\ want[w].kind = "install"
    BY <1>3 DEF StartInstall, Choosing, Serving, Running
  <2>2. Fresh(op[w]) /\ want[w].build \in Builds /\ op[w] \in Ids
    BY <1>1, <2>1, RequestsHaveBuilds DEF Fits, Control, Idling, MemoryType
  <2> QED BY <1>1, <2>1, <2>2 DEF Recorded, Fresh, NoJournal, FilesType, Traced, Published
<1>4. CASE PublishPayload(w)
  <2>1. version' = [version EXCEPT ![build[op[w]]] = op[w]] /\ UNCHANGED <<build, journal>>
    BY <1>4 DEF PublishPayload
  <2> QED BY <1>1, <2>1 DEF Recorded, FilesType
<1>5. CASE Quarantine(w)
  <2>1. UNCHANGED <<build, journal>> /\ \A b \in Builds : version'[b] \in {version[b], NoId}
    BY <1>1, <1>5 DEF Quarantine, FilesType
  <2> QED BY <1>1, <2>1, DistinctValues DEF Recorded, FilesType
<1> QED BY <1>1, <1>2, <1>3, <1>4, <1>5, VersionsMove, BuildMoves DEF Recorded

\* Publishing: the operation was nowhere before it, not even in the list of
\* a removal, and its journal says prepared.
LEMMA PublishingIsNew ==
    ASSUME Sound, NEW w \in Workers, PublishPayload(w)
    PROVE  /\ op[w] \in Ids /\ ~Removing(op[w]) /\ op[w] \notin inv.registered
           /\ journal[op[w]] = draft[w] /\ draft[w].kind = "install" /\ draft[w].phase = "prepared"
           /\ build[op[w]] \in Builds
           /\ UNCHANGED <<inv, build, quarantine, journal>>
<1>1. pc[w] = "publishing"
  BY DEF PublishPayload, At
<1>2. /\ Control(w) /\ Fits(w) /\ op[w] \in Ids
  BY <1>1 DEF Sound, AllControl, AllFits, Control, Idling, MemoryType
<1>3. journal[op[w]] = draft[w] /\ draft[w].kind = "install" /\ draft[w].phase = "prepared" /\ build[op[w]] \in Builds
  BY <1>1, <1>2, DistinctValues DEF Control, DraftFits, Fits, Locked
<1>4. Recorded(op[w])
  BY <1>2 DEF Sound, AllRecorded
<1> QED BY <1>2, <1>3, <1>4 DEF Recorded, PublishPayload

\* A version the library knows of is not private any more.
LEMMA TracedStaysRecorded ==
    ASSUME Sound, NEW w \in Workers, StepOf(w), NEW i \in Ids, Traced(i)'
    PROVE  /\ build'[i] \in Builds /\ staging'[i] # "payload"
           /\ journal'[i].kind = "install" => ~Private(journal'[i])
<1>1. /\ FilesType /\ MemoryType /\ Control(w) /\ Fits(w) /\ Recorded(i) /\ AllRecorded
  BY DEF Sound, AllControl, AllFits, AllRecorded
<1>2. CASE PublishPayload(w) /\ i = op[w]
  <2>1. staging'[i] = "spent"
    BY <1>1, <1>2, PublishingIsNew DEF PublishPayload, FilesType
  <2> QED BY <1>2, <2>1, PublishingIsNew DEF Private, IsPrivate, DueCleanup
<1>3. CASE Traced(i)
  <2>1. /\ build[i] \in Builds /\ staging[i] # "payload"
        /\ journal[i].kind = "install" => ~Private(journal[i])
    BY <1>1, <1>3 DEF Recorded
  <2>2. build'[i] \in Builds
    <3>1. CASE StartInstall(w)
      <4>1. build' = [build EXCEPT ![op[w]] = want[w].build] /\ want[w].kind = "install"
        BY <3>1 DEF StartInstall, Choosing, Serving
      <4>2. want[w].build \in Builds
        BY <1>1, <4>1, RequestsHaveBuilds DEF MemoryType
      <4> QED BY <1>1, <2>1, <4>1, <4>2 DEF FilesType
    <3> QED BY <2>1, <3>1, BuildMoves
  <2>3. staging'[i] # "payload"
    <3>1. CASE PreparePayload(w) /\ i = op[w]
      <4>1. pc[w] = "preparing"
        BY <3>1 DEF PreparePayload, Running
      <4>2. journal[i] = draft[w] /\ IsPrivate(draft[w])
        BY <1>1, <3>1, <4>1 DEF Control, DraftFits, Idling, Locked, Fits, IsPrivate
      <4> QED BY <2>1, <4>2 DEF Private, IsPrivate
    <3> QED BY <1>1, <2>1, <3>1, StagingMoves DEF PreparePayload, PublishPayload,
         RemoveStaging, DiscardPrivate, FilesType
  <2>4. ASSUME journal'[i].kind = "install" PROVE ~Private(journal'[i])
    <3>1. CASE journal'[i] = journal[i]
      BY <2>1, <2>4, <3>1
    <3>2. CASE journal'[i] # journal[i]
      <4>1. i = op[w] /\ journal'[i] = draft[w] /\ pc[w] = "persisting" /\ Before(w)
        BY <1>1, <2>4, <3>2, Stores DEF NoJournal
      <4> QED BY <1>3, <2>1, <2>4, <4>1, DistinctValues DEF Before, Fresh, Private, IsPrivate,
           DueCleanup
    <3> QED BY <3>1, <3>2
  <2> QED BY <2>2, <2>3, <2>4
<1> QED BY <1>1, <1>2, <1>3, TracedGrows

\* An install whose journal says prepared has no row yet, and no removal
\* lists it.
LEMMA PreparedStaysUntraced ==
    ASSUME Sound, NEW w \in Workers, StepOf(w), NEW i \in Ids, i \in inv'.registered \/ Removing(i)'
    PROVE  ~(journal'[i].kind = "install" /\ journal'[i].phase = "prepared")
<1>1. /\ FilesType /\ MemoryType /\ Control(w) /\ Fits(w) /\ Recorded(i) /\ AllRecorded
  BY DEF Sound, AllControl, AllFits, AllRecorded
<1>2. CASE RegisterPublished(w) /\ i = draft[w].install
  <2>1. pc[w] = "registering" /\ UNCHANGED journal
    BY <1>2 DEF RegisterPublished, At
  <2>2. i = op[w] /\ journal[i] = draft[w] /\ draft[w].phase = "payload_published"
    BY <1>1, <1>2, <2>1 DEF Control, DraftFits, Shape, NoJournal, Idling, Locked, Fits
  <2> QED BY <2>1, <2>2
<1>3. CASE i \in inv.registered \/ Removing(i)
  <2>1. ~(journal[i].kind = "install" /\ journal[i].phase = "prepared") /\ Traced(i)
    BY <1>1, <1>3 DEF Recorded, Traced
  <2>2. CASE journal'[i] # journal[i] /\ journal'[i].kind = "install" /\ journal'[i].phase = "prepared"
    <3>1. i = op[w] /\ journal'[i] = draft[w] /\ pc[w] = "persisting" /\ Before(w)
      BY <1>1, <2>2, Stores DEF NoJournal
    <3>2. IsPrivate(journal[i])
      BY <2>2, <3>1 DEF Before
    <3> QED BY <1>1, <2>1, <3>2 DEF Recorded, Private, IsPrivate
  <2> QED BY <2>1, <2>2
<1>4. i \in inv'.registered \/ i \in inv.registered \/ Removing(i)
  BY <1>1, RemovingGrows
<1>5. CASE RegisterRetained(w) /\ i = draft[w].install
  BY <1>1, <1>3, <1>5 DEF RegisterRetained, Running, Fits
<1> QED BY <1>1, <1>2, <1>3, <1>4, <1>5, RegisteredGrows

\* What is in a quarantine is not at its path too.
LEMMA QuarantinedStayUnpublished ==
    ASSUME Sound, NEW w \in Workers, StepOf(w), NEW i \in Ids, NEW k \in quarantine'[i]
    PROVE  ~Published(k)'
<1>1. /\ FilesType /\ MemoryType /\ Control(w) /\ Fits(w) /\ Recorded(i) /\ AllRecorded
  BY DEF Sound, AllControl, AllFits, AllRecorded
<1>2. CASE Quarantine(w) /\ k \notin quarantine[i]
  <2>1. version' = [version EXCEPT ![build[k]] = NoId] /\ k \in draft[w].removed
    <3>1. PICK n \in draft[w].removed \ quarantine[op[w]] :
             /\ version' = [version EXCEPT ![build[n]] = NoId]
             /\ quarantine' = [quarantine EXCEPT ![op[w]] = quarantine[op[w]] \cup {n}]
      BY <1>2 DEF Quarantine
    <3>2. k = n
      BY <1>1, <1>2, <3>1 DEF FilesType
    <3> QED BY <3>1, <3>2
  <2>2. k \in Ids
    BY <1>1, <2>1 DEF MemoryType, Journal
  <2>3. \A b \in Builds : version[b] = k => build[k] = b
    BY <1>1, <2>2 DEF AllRecorded, Recorded
  <2> QED BY <1>1, <2>1, <2>2, <2>3, DistinctValues DEF Published, FilesType
<1>3. CASE k \in quarantine[i]
  <2>1. ~Published(k) /\ k \in journal[i].removed /\ k \in Ids
    BY <1>1, <1>3 DEF Recorded, FilesType
  <2>2. Removing(k)
    BY <2>1 DEF Removing
  <2> QED BY <1>1, <2>1, <2>2, PublishedGrows, PublishingIsNew
<1>4. k \in quarantine[i] \/ Quarantine(w)
  BY <1>1, QuarantineMoves DEF DeleteQuarantine, FilesType
<1> QED BY <1>2, <1>3, <1>4

\* What a removal has deleted does not come back.
LEMMA GoneStays ==
    ASSUME Sound, NEW w \in Workers, StepOf(w), NEW j \in Journal, Gone(j),
           \A i \in j.removed : Removing(i)
    PROVE  Gone(j)'
<1>1. /\ FilesType /\ MemoryType /\ Control(w) /\ Fits(w) /\ AllRecorded
  BY DEF Sound, AllControl, AllFits, AllRecorded
<1>2. SUFFICES ASSUME NEW i \in j.removed, i \notin inv.registered, ~Published(i), Removing(i)
               PROVE  i \notin inv'.registered /\ ~Published(i)'
  BY DEF Gone
<1>3. i \in Ids
  BY DEF Journal
<1>4. ~Published(i)'
  BY <1>1, <1>2, <1>3, PublishedGrows, PublishingIsNew
<1>5. CASE RegisterRetained(w) /\ i = draft[w].install
  BY <1>1, <1>2, <1>5 DEF RegisterRetained, Running, Fits
<1>6. CASE RegisterPublished(w) /\ i = draft[w].install
  <2>1. At(w, "registering") /\ (mode[w] = "recover" => Live(op[w]))
    BY <1>6 DEF RegisterPublished
  <2>2. mode[w] = "run" \/ mode[w] = "recover"
    BY <1>1, <2>1 DEF At, Control, CancelSteps, MemoryType
  <2>3. op[w] = i /\ draft[w].kind = "install" /\ draft[w].phase = "payload_published"
    BY <1>1, <1>6, <2>1 DEF At, Control, DraftFits, Idling, Shape, NoJournal
  <2>4. Live(i) /\ build[i] \in Builds
    BY <1>1, <2>1, <2>2, <2>3 DEF At, Fits
  <2> QED BY <1>2, <2>4 DEF Live, Published
<1> QED BY <1>1, <1>2, <1>4, <1>5, <1>6, RegisteredGrows

\* Every step keeps what the journal of an operation says of it.
LEMMA RecordedStays ==
    ASSUME Sound, NEW w \in Workers, StepOf(w), NEW i \in Ids
    PROVE  Recorded(i)'
<1>1. /\ FilesType /\ MemoryType /\ Control(w) /\ Fits(w) /\ Recorded(i) /\ AllRecorded /\ Gone(draft[w])
  BY DEF Sound, AllControl, AllFits, AllRecorded, AllGone
<1>2. Shape(i, journal'[i])
  BY <1>1, ShapesStay DEF Recorded
<1>3. Gone(journal[i])'
  <2>1. Gone(journal[i]) /\ journal[i] \in Journal /\ \A k \in journal[i].removed : Removing(k)
    BY <1>1 DEF Recorded, FilesType, Removing
  <2>2. Gone(draft[w]) /\ draft[w] \in Journal /\ \A k \in draft[w].removed : Removing(k)
    BY <1>1 DEF MemoryType, Removing
  <2>3. journal'[i] \in {journal[i], draft[w], NoJournal}
    BY <1>1, Stores
  <2>4. \A j \in Journal : Gone(j) /\ (\A k \in j.removed : Removing(k)) =>
          (j.kind = "remove" /\ j.phase \in {"metadata_committed", "cleanup_pending"} =>
              \A k \in j.removed : k \notin inv'.registered /\ ~Published(k)')
    BY GoneStays DEF Gone
  <2> QED BY <2>1, <2>2, <2>3, <2>4 DEF Gone, NoJournal
<1> QED BY <1>2, <1>3, UnusedStaysFresh, StagingStaysRecorded, QuarantineStaysRecorded,
     BuildsStayRecorded,
        TracedStaysRecorded, PreparedStaysUntraced, QuarantinedStayUnpublished DEF Recorded

\* Where a worker's journal in memory comes from.
LEMMA DraftComes ==
    ASSUME MemoryType, NEW w \in Workers, StepOf(w)
    PROVE  \/ draft'[w] \in {draft[w], NoJournal}
           \/ \E i \in Ids : (TakeUpCancellation(w, i) \/ Resume(w, i)) /\ draft'[w] = journal[i]
           \/ ReuseStaged(w) \/ BeginActivation(w) \/ StartInstall(w) \/ BeginRemoval(w) \/ ReuseRetained(w)
           \/ SealPayload(w) \/ RetainCleanup(w) \/ AcceptPublished(w) \/ PublishPayload(w)
           \/ RegisterPublished(w) \/ SwitchPointers(w) \/ FinishQuarantine(w) \/ Deregister(w)
           \/ RetainPrivate(w)
<1> USE DEF MemoryType, Hold, Idle, memory, durable, files
<1>1. CASE TryLockPort(w) \/ StopCancelled(w) \/ KeepActive(w) \/ PreparePayload(w) \/
        FailPrivately(w) \/ RollBack(w) \/ FailSealed(w) \/ FailActivation(w) \/ FailRemoval(w) \/
        UnlockPort(w) \/ Rejournal(w) \/
        (\E i \in Ids, request \in Requests : Begin(w, i, request))
  BY <1>1 DEF TryLockPort, StopCancelled, KeepActive, PreparePayload, FailPrivately, RollBack,
        FailSealed, FailActivation, FailRemoval, UnlockPort, Rejournal, Begin
<1>2. CASE Persist(w) \/ Retire(w) \/ RemoveStaging(w) \/ DiscardPrivate(w) \/ Quarantine(w) \/
        DeleteQuarantine(w) \/ StartRecovery(w) \/ ListJournals(w) \/ InventoryJournals(w) \/
        (\E i \in Ids : SkipCancellation(w, i)) \/ (\E i \in Ids : SkipJournal(w, i))
  BY <1>2 DEF Persist, Retire, RemoveStaging, DiscardPrivate, Quarantine, DeleteQuarantine,
        StartRecovery, ListJournals, InventoryJournals, SkipCancellation, SkipJournal
<1>3. CASE Refuse(w) \/ RegisterRetained(w) \/ Finish(w) \/ AbandonRecovery(w) \/ EndRecovery(w) \/
        LeaveForReview(w) \/ Settle(w) \/ Crash(w)
  BY <1>3 DEF Refuse, RegisterRetained, Finish, AbandonRecovery, EndRecovery, LeaveForReview,
       Settle,
        Crash
<1>4. CASE \E i \in Ids : TakeUpCancellation(w, i) \/ Resume(w, i)
  BY <1>4 DEF TakeUpCancellation, Resume
<1> QED BY ONLY StepOf(w), <1>1, <1>2, <1>3, <1>4 DEF StepOf, Own, Transact, Recover

\* What a removal has in memory as deleted is not in the library.
LEMMA DraftsStayGone ==
    ASSUME Sound, NEW w \in Workers, StepOf(w), NEW x \in Workers
    PROVE  Gone(draft[x])'
<1>1. /\ FilesType /\ MemoryType /\ Control(w) /\ Fits(w) /\ AllRecorded /\ AllGone
  BY DEF Sound, AllControl, AllFits
<1>2. \A j \in Journal : Gone(j) /\ (\A k \in j.removed : Removing(k)) =>
          (j.kind = "remove" /\ j.phase \in {"metadata_committed", "cleanup_pending"} =>
              \A k \in j.removed : k \notin inv'.registered /\ ~Published(k)')
  BY GoneStays DEF Gone
<1>3. Gone(draft[x]) /\ draft[x] \in Journal /\ \A k \in draft[x].removed : Removing(k)
  BY <1>1 DEF MemoryType, Removing, AllGone
<1>4. CASE draft'[x] = draft[x]
  BY <1>2, <1>3, <1>4 DEF Gone
<1>5. CASE x # w
  BY <1>1, <1>4, <1>5, OthersKeepTheirMemory DEF Same
<1>6. ASSUME x = w, draft'[w].kind = "remove", draft'[w].phase \in {"metadata_committed", "cleanup_pending"},
             draft'[w] # draft[w]
      PROVE  Gone(draft[x])'
  <2>1. CASE \E i \in Ids : draft'[w] = journal[i]
    <3>1. PICK i \in Ids : draft'[w] = journal[i]
      BY <2>1
    <3>2. Gone(journal[i]) /\ journal[i] \in Journal /\ \A k \in journal[i].removed : Removing(k)
      BY <1>1 DEF AllRecorded, Recorded, FilesType, Removing
    <3> QED BY <1>2, <1>6, <3>1, <3>2 DEF Gone
  <2>2. CASE RetainCleanup(w)
    <3>1. /\ draft' = [draft EXCEPT ![w].phase = "cleanup_pending"]
          /\ pc[w] \in {"cleaning", "deleting"}
          /\ UNCHANGED <<inv, version>>
      BY <2>2 DEF RetainCleanup, InMemory, durable
    <3>2. draft'[w].kind = draft[w].kind /\ draft'[w].removed = draft[w].removed
      BY <1>1, <3>1 DEF MemoryType, Journal
    <3>3. draft[w].phase \in {"metadata_committed", "cleanup_pending"}
      BY <1>1, <3>1 DEF Control, DraftFits, Idling
    <3> QED BY <1>3, <1>6, <3>1, <3>2, <3>3 DEF Gone, Published
  <2>3. CASE Deregister(w)
    <3>1. /\ draft' = [draft EXCEPT ![w].phase = "metadata_committed"] /\ pc[w] = "deregistering"
          /\ RetainedOutputs(op[w], draft[w]) /\ inv' = NoInventory /\ UNCHANGED version
      BY <2>3 DEF Deregister, InMemory, files, RemovePort, At
    <3>2. draft'[w].removed = draft[w].removed /\ draft[w].removed \subseteq Ids
      BY <1>1, <3>1 DEF MemoryType, Journal
    <3>3. op[w] \in Ids /\ draft[w].phase = "payload_published"
      BY <1>1, <3>1 DEF Control, DraftFits, Idling, MemoryType
    <3>4. \A k \in draft[w].removed : k \in quarantine[op[w]]
      BY <3>1, <3>3 DEF RetainedOutputs
    <3>5. \A k \in draft[w].removed : ~Published(k)
      BY <1>1, <3>3, <3>4 DEF AllRecorded, Recorded
    <3> QED BY <1>6, <3>1, <3>2, <3>5 DEF Gone, Published, NoInventory
  <2>4. CASE FinishQuarantine(w)
    BY <1>1, <1>6, <2>4 DEF FinishQuarantine, InMemory, MemoryType, Journal
  <2>5. CASE ReuseStaged(w) \/ BeginActivation(w) \/ StartInstall(w) \/ BeginRemoval(w)
    BY <1>1, <1>6, <2>5 DEF ReuseStaged, BeginActivation, StartInstall, BeginRemoval, Hold,
         Begun, MemoryType
  <2>6. CASE ReuseRetained(w) \/ SealPayload(w) \/ AcceptPublished(w) \/ PublishPayload(w)
                              \/ RegisterPublished(w)
             \/ SwitchPointers(w) \/ RetainPrivate(w)
    <3>1. /\ pc[w] \in {"choosing", "sealing", "publishing", "registering", "switching", "discarding", "retiring"}
          /\ pc[w] \in {"discarding", "retiring"} => draft[w].kind = "install"
      BY <2>6 DEF ReuseRetained, SealPayload, AcceptPublished, PublishPayload,
           RegisterPublished, SwitchPointers,
         RetainPrivate, Choosing, Serving, Running, At
    <3>2. draft[w].kind # "remove"
      BY <1>1, <3>1 DEF Control, DraftFits, Idling, IsPrivate, NoJournal
    <3>3. draft'[w].kind = draft[w].kind
      BY <1>1, <2>6 DEF ReuseRetained, SealPayload, AcceptPublished, PublishPayload,
           RegisterPublished, SwitchPointers,
         RetainPrivate, InMemory, MemoryType, Journal
    <3> QED BY <1>6, <3>2, <3>3
  <2>7. draft'[w] # NoJournal
    BY <1>6 DEF NoJournal
  <2> QED BY <1>1, <1>6, <2>1, <2>2, <2>3, <2>4, <2>5, <2>6, <2>7, DraftComes
<1> QED BY <1>4, <1>5, <1>6 DEF Gone

\* An operation is early only because it has just been begun.
LEMMA EarlyComes ==
    ASSUME FilesType, MemoryType, NEW w \in Workers, Control(w), StepOf(w),
           \A i \in Ids : Shape(i, journal[i]), Early(w)'
    PROVE  Early(w) \/ \E i \in Ids, request \in Requests : Begin(w, i, request)
<1> USE DEF MemoryType, Early, Goto, Idle, memory, durable
<1>1. CASE Refuse(w) \/ StopCancelled(w) \/ KeepActive(w) \/ RegisterRetained(w) \/
        PreparePayload(w) \/ FailPrivately(w) \/ RollBack(w) \/ FailSealed(w) \/
        FailActivation(w) \/ FailRemoval(w) \/ UnlockPort(w) \/ Rejournal(w) \/ Finish(w)
  BY <1>1 DEF Refuse, StopCancelled, KeepActive, RegisterRetained, PreparePayload, FailPrivately,
        RollBack, FailSealed, FailActivation, FailRemoval, UnlockPort, Rejournal, Finish
<1>2. CASE Retire(w) \/ RemoveStaging(w) \/ DiscardPrivate(w) \/ DeleteQuarantine(w) \/
        StartRecovery(w) \/ ListJournals(w) \/ AbandonRecovery(w) \/ InventoryJournals(w) \/
        LeaveForReview(w) \/ Settle(w) \/ EndRecovery(w) \/
        (\E i \in Ids : TakeUpCancellation(w, i)) \/ Crash(w)
  BY <1>2 DEF Retire, RemoveStaging, DiscardPrivate, DeleteQuarantine, StartRecovery, ListJournals,
        AbandonRecovery, InventoryJournals, LeaveForReview, Settle, EndRecovery,
        TakeUpCancellation, Crash
<1>3. CASE Quarantine(w) \/ (\E i \in Ids : SkipCancellation(w, i)) \/
        (\E i \in Ids : SkipJournal(w, i))
  BY <1>3 DEF Quarantine, SkipCancellation, SkipJournal
<1>4. CASE TryLockPort(w) \/ ReuseStaged(w) \/ BeginActivation(w) \/ StartInstall(w) \/
        BeginRemoval(w) \/ ReuseRetained(w)
  BY <1>4 DEF TryLockPort, ReuseStaged, BeginActivation, StartInstall, BeginRemoval,
       ReuseRetained, Choosing, Serving, Running
<1>5. CASE RetainCleanup(w) \/ AcceptPublished(w) \/ PublishPayload(w) \/ RegisterPublished(w) \/
        SwitchPointers(w) \/ FinishQuarantine(w) \/ Deregister(w) \/ RetainPrivate(w) \/
        SealPayload(w)
  <2>1. \/ \E p \in {"prepared", "payload_published", "metadata_committed", "cleanup_pending"} :
             \/ draft' = [draft EXCEPT ![w].phase = p]
             \/ \E i \in Ids \cup {NoId} : draft' = [draft EXCEPT ![w].phase = p, ![w].install = i]
        \/ pc'[w] = "unlocking"
    BY <1>5 DEF RetainCleanup, AcceptPublished, PublishPayload, RegisterPublished, SwitchPointers,
        FinishQuarantine, Deregister, RetainPrivate, SealPayload, InMemory
  <2>2. pc'[w] \in {"persisting", "unlocking"}
    BY <1>5 DEF RetainCleanup, AcceptPublished, PublishPayload, RegisterPublished, SwitchPointers,
        FinishQuarantine, Deregister, RetainPrivate, SealPayload
  <2> QED BY <2>1, <2>2 DEF Journal
<1>6. CASE Persist(w)
  <2>1. After(draft[w]) \notin {"starting", "choosing", "persisting"}
    BY <1>6, AfterFits DEF Persist, Control, DraftFits, Idling
  <2> QED BY <1>6, <2>1 DEF Persist
<1>7. CASE \E i \in Ids : Resume(w, i)
  <2>1. PICK i \in Ids : Resume(w, i)
    BY <1>7
  <2>2. ResumeAt(journal[i]) \notin {"starting", "choosing", "persisting"}
    BY <2>1, ResumeFits DEF Resume, FilesType, RecoverSteps
  <2> QED BY <2>1, <2>2 DEF Resume
<1> QED BY ONLY StepOf(w), Early(w)', <1>1, <1>2, <1>3, <1>4, <1>5, <1>6, <1>7 DEF StepOf, Own,
     Transact, Recover

\* While it stays at an operation, a worker serves it for the same reason.
LEMMA ModeStays ==
    ASSUME MemoryType, NEW w \in Workers, Control(w), StepOf(w), op[w] # NoId, op'[w] # NoId
    PROVE  mode'[w] = mode[w]
<1> USE DEF MemoryType, Idle, memory, Control, Idling
<1>1. CASE TryLockPort(w) \/ Refuse(w) \/ StopCancelled(w) \/ KeepActive(w) \/ ReuseStaged(w) \/
        ReuseRetained(w) \/ RegisterRetained(w) \/ StartInstall(w) \/ PreparePayload(w) \/
        SealPayload(w) \/ RetainCleanup(w) \/ FailPrivately(w) \/ RetainPrivate(w) \/
        BeginActivation(w) \/ RollBack(w) \/ BeginRemoval(w) \/ FailSealed(w) \/
        FailActivation(w) \/ FailRemoval(w) \/ UnlockPort(w)
  BY <1>1 DEF TryLockPort, Refuse, StopCancelled, KeepActive, ReuseStaged, ReuseRetained,
        RegisterRetained, StartInstall, PreparePayload, SealPayload, RetainCleanup, FailPrivately,
        RetainPrivate, BeginActivation, RollBack, BeginRemoval, FailSealed, FailActivation,
        FailRemoval, UnlockPort
<1>2. CASE Rejournal(w) \/ Persist(w) \/ Retire(w) \/ PublishPayload(w) \/ AcceptPublished(w) \/
        RegisterPublished(w) \/ RemoveStaging(w) \/ DiscardPrivate(w) \/ SwitchPointers(w) \/
        Quarantine(w) \/ FinishQuarantine(w) \/ Deregister(w) \/ DeleteQuarantine(w) \/
        ListJournals(w) \/ LeaveForReview(w) \/ Settle(w) \/
        (\E i \in Ids : SkipCancellation(w, i)) \/ (\E i \in Ids : TakeUpCancellation(w, i)) \/
        (\E i \in Ids : SkipJournal(w, i)) \/ (\E i \in Ids : Resume(w, i))
  BY <1>2 DEF Rejournal, Persist, Retire, PublishPayload, AcceptPublished, RegisterPublished,
        RemoveStaging, DiscardPrivate, SwitchPointers, Quarantine, FinishQuarantine, Deregister,
        DeleteQuarantine, ListJournals, LeaveForReview, Settle, SkipCancellation,
        TakeUpCancellation, SkipJournal, Resume
<1>3. CASE (\E i \in Ids, request \in Requests : Begin(w, i, request)) \/ Finish(w) \/ Crash(w) \/
        AbandonRecovery(w) \/ EndRecovery(w) \/ StartRecovery(w) \/ InventoryJournals(w)
  BY <1>3 DEF Begin, Finish, Crash, AbandonRecovery, EndRecovery, StartRecovery,
       InventoryJournals, At
<1> QED BY ONLY StepOf(w), <1>1, <1>2, <1>3 DEF StepOf, Own, Transact, Recover

\* A journal is of the same kind, for the same versions, as long as it is one.
LEMMA KindStays ==
    ASSUME FilesType, MemoryType, NEW w \in Workers, Control(w), StepOf(w), op[w] # NoId, ~Early(w),
           draft'[w].kind # "none"
    PROVE  draft'[w].kind = draft[w].kind /\ draft'[w].removed = draft[w].removed
<1>1. CASE draft'[w] = draft[w]
  BY <1>1
<1>2. CASE ReuseStaged(w) \/ BeginActivation(w) \/ StartInstall(w) \/ BeginRemoval(w)
                          \/ ReuseRetained(w)
  BY <1>2 DEF ReuseStaged, BeginActivation, StartInstall, BeginRemoval, ReuseRetained,
       Choosing, Serving, Running, Early
<1>3. CASE \/ SealPayload(w) \/ RetainCleanup(w) \/ AcceptPublished(w) \/ PublishPayload(w)
           \/ RegisterPublished(w)
           \/ SwitchPointers(w) \/ FinishQuarantine(w) \/ Deregister(w) \/ RetainPrivate(w)
  <2>1. \E p \in Phases, i \in Ids \cup {NoId} :
          \/ UNCHANGED draft
          \/ draft' = [draft EXCEPT ![w].phase = p]
          \/ draft' = [draft EXCEPT ![w].phase = p, ![w].install = op[w]]
    BY <1>3 DEF SealPayload, RetainCleanup, AcceptPublished, PublishPayload, RegisterPublished,
         SwitchPointers,
       FinishQuarantine, Deregister, RetainPrivate, InMemory, Phases
  <2>2. draft[w] \in Journal /\ draft \in [Workers -> Journal]
    BY DEF MemoryType
  <2> QED BY <2>1, <2>2 DEF Journal
<1>4. ~(\E i \in Ids : TakeUpCancellation(w, i) \/ Resume(w, i))
  BY DEF TakeUpCancellation, Resume, At, Control, Idling
<1> QED BY <1>1, <1>2, <1>3, <1>4, DraftComes DEF NoJournal

\* When a recovery takes up the operation of a live owner, it is past its
\* beginning, and they agree on what is removed.
LEMMA PairsStay ==
    ASSUME Sound, NEW w \in Workers, StepOf(w)
    PROVE  Pairs'
<1>1. /\ FilesType /\ MemoryType /\ Control(w) /\ Fits(w) /\ AllRecorded /\ \A i \in Ids : Shape(i, journal[i])
  BY DEF Sound, AllControl, AllFits, AllRecorded, Recorded
<1>2. ASSUME NEW x \in Workers \ {w}, op'[w] = op'[x], op'[w] # NoId
      PROVE  /\ ~Early(w)' /\ ~Early(x)' /\ ~(mode'[w] # "recover" /\ mode'[x] # "recover")
             /\ draft'[w].kind # "none" /\ draft'[x].kind # "none" =>
                  draft'[w].kind = draft'[x].kind /\ draft'[w].removed = draft'[x].removed
  <2>1. Same(x) /\ Control(x) /\ Fits(x) /\ op[x] \in Ids /\ (Early(x)' <=> Early(x))
    BY <1>1, <1>2, OthersKeepTheirMemory DEF Same, Sound, AllControl, AllFits, MemoryType, Early
  <2> DEFINE i == op[x]
  <2>2. op'[w] = i /\ i \in Ids
    BY <1>2, <2>1 DEF Same
  <2>3. ~(\E request \in Requests : Begin(w, i, request))
    <3>1. activity[i].status # "unused"
      BY <1>1, <2>2 DEF AllRecorded, Recorded
    <3> QED BY <3>1 DEF Begin
  <2>4. \A k \in Ids : op'[w] # k => ~(\E request \in Requests : Begin(w, k, request))
    BY <1>1 DEF Begin, MemoryType
  <2>5. ~Early(w)' \/ Early(w)
    BY <1>1, <2>2, <2>3, <2>4, EarlyComes
  <2>6. \A k \in Ids : journal[k].kind # "none" /\ op[x] = k => ~Early(x)
    BY <2>1 DEF Fits, Before, Early, Fresh, NoJournal
  <2>7. CASE op[w] = i
    <3>1. /\ ~Early(w) /\ ~Early(x) /\ ~(mode[w] # "recover" /\ mode[x] # "recover")
          /\ draft[w].kind # "none" /\ draft[x].kind # "none" =>
               draft[w].kind = draft[x].kind /\ draft[w].removed = draft[x].removed
      BY <1>2, <2>1, <2>7, DistinctValues DEF Sound, Pairs
    <3>2. mode'[w] = mode[w]
      BY <1>1, <1>2, <2>1, <2>7, DistinctValues, ModeStays
    <3>3. draft'[w].kind # "none" => draft'[w].kind = draft[w].kind /\ draft'[w].removed = draft[w].removed
      BY <1>1, <2>1, <2>7, <3>1, DistinctValues, KindStays
    <3> QED BY <2>1, <2>5, <3>1, <3>2, <3>3 DEF Same
  <2>8. ASSUME draft[x].kind # "none", journal[i].kind # "none"
        PROVE  journal[i].kind = draft[x].kind /\ journal[i].removed = draft[x].removed
    <3>1. Shape(i, journal[i]) /\ Shape(i, draft[x])
      BY <1>1, <2>1, <2>8, DistinctValues DEF Control, DraftFits
    <3>2. journal[i].kind = draft[x].kind
      BY <2>1, <2>8 DEF Fits
    <3>3. journal[i].kind = "remove" => journal[i].removed = draft[x].removed
      BY <2>1, <2>8 DEF Fits
    <3>4. \A j \in Journal : Shape(op[x], j) /\ j.kind \notin {"none", "remove"} => j.removed = {}
      BY DEF Shape, NoJournal
    <3>5. journal[i] \in Journal /\ draft[x] \in Journal
      BY <1>1, <2>1 DEF FilesType, MemoryType
    <3> QED BY <2>8, <3>1, <3>2, <3>3, <3>4, <3>5
  <2>9. CASE TakeUpCancellation(w, i)
    <3>1. /\ pc[w] = "cancelling" /\ ~ActivityHeld(i) /\ mode'[w] = mode[w]
          /\ \/ draft'[w] = journal[i] /\ IsPrivate(journal[i])
             \/ draft'[w] = draft[w]
      BY <1>1, <2>9 DEF TakeUpCancellation, At, Hold, MemoryType
    <3>2. mode[w] = "cancel" /\ draft[w].kind = "none" /\ ~Early(w)
      BY <1>1, <3>1 DEF Control, RunSteps, RecoverSteps, Locked, Idling, MemoryType, NoJournal,
           Early
    <3>3. mode[x] = "recover"
      BY <2>1, <3>1 DEF ActivityHeld
    <3>4. ~Early(x)
      BY <2>1, <3>3 DEF Control, RecoverSteps, Early
    <3> QED BY <2>1, <2>5, <2>8, <3>1, <3>2, <3>3, <3>4 DEF Same, IsPrivate
  <2>10. CASE Resume(w, i)
    <3>1. pc[w] = "recovering" /\ mode'[w] = mode[w] /\ draft'[w] = journal[i] /\ journal[i].kind # "none"
      BY <1>1, <2>10 DEF Resume, At, Hold, MemoryType
    <3>2. mode[w] = "recover" /\ ~Early(w)
      BY <1>1, <3>1 DEF Control, RunSteps, CancelSteps, Locked, Idling, MemoryType, Early
    <3>3. ~Early(x)
      BY <2>1, <2>2, <2>6, <3>1
    <3> QED BY <2>1, <2>5, <2>8, <3>1, <3>2, <3>3 DEF Same
  <2> QED BY <1>1, <2>2, <2>3, <2>7, <2>9, <2>10, OpComes
<1>3. ASSUME NEW x \in Workers \ {w}, NEW y \in Workers \ {w}, x # y, op'[x] = op'[y], op'[x] # NoId
      PROVE  /\ ~Early(x)' /\ ~(mode'[x] # "recover" /\ mode'[y] # "recover")
             /\ draft'[x].kind # "none" /\ draft'[y].kind # "none" =>
                  draft'[x].kind = draft'[y].kind /\ draft'[x].removed = draft'[y].removed
  <2>1. Same(x) /\ Same(y)
    BY <1>1, OthersKeepTheirMemory
  <2>2. op[x] = op[y] /\ op[x] # NoId /\ (Early(x)' <=> Early(x))
    BY <1>3, <2>1 DEF Same, Early
  <2>3. /\ ~Early(x) /\ ~(mode[x] # "recover" /\ mode[y] # "recover")
        /\ draft[x].kind # "none" /\ draft[y].kind # "none" =>
             draft[x].kind = draft[y].kind /\ draft[x].removed = draft[y].removed
    BY <1>3, <2>2 DEF Sound, Pairs
  <2> QED BY <2>1, <2>2, <2>3 DEF Same
<1> QED BY <1>2, <1>3 DEF Pairs, Early

\* Only a worker that holds the lock of the port writes files or rows.  A
\* failed removal writes its journal after it has let go of it.
LEMMA WritesAreLocked ==
    ASSUME NEW w \in Workers, StepOf(w), pc[w] \notin Locked
    PROVE  /\ UNCHANGED <<inv, build, version, staging, quarantine>>
           /\ UNCHANGED journal \/ Rejournal(w)
<1>1. CASE Rejournal(w)
  BY <1>1 DEF Rejournal, files
<1>2. CASE Writes(w)
  BY <1>1, <1>2 DEF Writes, StartInstall, Persist, Retire, FailSealed, FailActivation,
       PreparePayload,
     RemoveStaging, DiscardPrivate, PublishPayload, RegisterRetained, RegisterPublished,
          SwitchPointers, RollBack,
     Deregister, Quarantine, DeleteQuarantine, Choosing, Serving, Running, At, Locked
<1> QED BY <1>1, <1>2, QuietOrWrites DEF Quiet

\* An operation that has written nothing still has not, unless its own
\* worker writes.
LEMMA FreshStays ==
    ASSUME Sound, NEW w \in Workers, StepOf(w), NEW i \in Ids, Fresh(i),
           i # op[w] \/ UNCHANGED <<journal, staging, quarantine>>
    PROVE  Fresh(i)'
<1>1. /\ FilesType /\ MemoryType /\ Control(w) /\ Fits(w) /\ AllRecorded
  BY DEF Sound, AllControl, AllFits
<1>2. journal'[i] = journal[i]
  BY <1>1, Stores
<1>3. staging'[i] = staging[i]
  BY <1>1, StagingMoves DEF PreparePayload, PublishPayload, RemoveStaging, DiscardPrivate, FilesType
<1>4. quarantine'[i] = quarantine[i]
  BY <1>1, QuarantineMoves DEF Quarantine, DeleteQuarantine, FilesType
<1>5. ~Traced(i)'
  BY <1>1, TracedGrows DEF Fresh, PublishPayload
<1> QED BY <1>2, <1>3, <1>4, <1>5 DEF Fresh

\* What a step leaves to the other workers: the lock keeps them from each
\* other, except for the journal of a failed removal.
LEMMA OthersFit ==
    ASSUME Sound, NEW w \in Workers, StepOf(w), NEW x \in Workers \ {w}
    PROVE  Fits(x)'
<1>1. /\ FilesType /\ MemoryType /\ Control(w) /\ Fits(w) /\ AllRecorded /\ Control(x) /\ Fits(x) /\ Pairs
  BY DEF Sound, AllControl, AllFits
<1>2. Same(x)
  BY <1>1, OthersKeepTheirMemory
<1>3. ASSUME pc[x] \in Locked
      PROVE  /\ UNCHANGED <<inv, build, version, staging, quarantine>>
             /\ UNCHANGED journal \/ Rejournal(w)
  <2>1. pc[w] \notin Locked
    BY <1>1, <1>3 DEF Control
  <2> QED BY <2>1, WritesAreLocked
<1>4. op[x] = op[w] /\ op[x] # NoId =>
        /\ ~Early(w) /\ ~Early(x)
        /\ draft[w].kind # "none" /\ draft[x].kind # "none" =>
             draft[w].kind = draft[x].kind /\ draft[w].removed = draft[x].removed
  BY <1>1 DEF Pairs
<1>5. ASSUME Early(x) PROVE Fresh(op[x])'
  <2>1. op[x] \in Ids /\ Fresh(op[x])
    BY <1>1, <1>5 DEF Early, Control, Idling, MemoryType, Fits, Before
  <2>2. op[x] # op[w]
    BY <1>4, <1>5, <2>1, DistinctValues
  <2> QED BY <1>2, <2>1, <2>2, FreshStays DEF Same
<1>6. ASSUME op[x] \in Ids, journal'[op[x]] # journal[op[x]]
      PROVE  /\ op[x] = op[w] /\ ~Early(x)
             /\ \/ journal'[op[x]] = NoJournal
                \/ /\ journal'[op[x]] = draft[w] /\ draft[w].kind # "none"
                   /\ draft[x].kind # "none" =>
                        draft[w].kind = draft[x].kind /\ draft[w].removed = draft[x].removed
  BY <1>1, <1>4, <1>6, Stores, DistinctValues
<1>7. ASSUME pc[x] \in Locked, op[x] \in Ids, journal'[op[x]] # journal[op[x]]
      PROVE  /\ journal'[op[x]] = draft[w] /\ draft[w].kind = "remove" /\ ~Early(x)
             /\ draft[x].kind # "none" => draft[x].kind = "remove"
  <2>1. Rejournal(w)
    BY <1>3, <1>7
  <2>2. draft[w].kind = "remove" /\ journal'[op[w]] \in {journal[op[w]], draft[w]} /\ op[w] \in Ids
    BY <1>1, <2>1 DEF Rejournal, Running, Put, Control, DraftFits, Idling, MemoryType, FilesType
  <2> QED BY <1>6, <1>7, <2>2 DEF NoJournal
<1>8. pc[x] = "persisting" => Before(x)'
  <2>1. SUFFICES ASSUME pc[x] = "persisting" PROVE Before(x)'
    OBVIOUS
  <2>2. /\ op[x] \in Ids /\ Before(x) /\ UNCHANGED staging /\ draft[x].kind # "none"
    BY <1>1, <1>3, <2>1 DEF Control, Idling, MemoryType, Fits, Locked, DraftFits
  <2>3. CASE journal'[op[x]] = journal[op[x]]
    <3>1. draft[x].phase = "preparing" => Fresh(op[x])'
      BY <1>5, <2>1 DEF Early
    <3> QED BY <1>2, <2>2, <2>3, <3>1 DEF Before, Same
  <2>4. CASE journal'[op[x]] # journal[op[x]]
    BY <1>2, <1>7, <2>1, <2>2, <2>4 DEF Before, Same, Locked, Early
  <2> QED BY <2>3, <2>4
<1>9. pc[x] \in {"starting", "choosing"} => Fresh(op[x])'
  BY <1>5 DEF Early
<1>10. pc[x] = "reusing" => draft[x].install \in inv'.registered
  BY <1>1, <1>3 DEF Fits, Locked
<1>11. pc[x] \in Locked \ {"choosing", "reusing", "persisting"} =>
         IF draft[x].kind = "remove" THEN journal'[op[x]].kind = "remove" ELSE journal'[op[x]] = draft[x]
  <2>1. SUFFICES ASSUME pc[x] \in Locked \ {"choosing", "reusing", "persisting"}
                 PROVE  IF draft[x].kind = "remove" THEN journal'[op[x]].kind = "remove"
                                                    ELSE journal'[op[x]] = draft[x]
    OBVIOUS
  <2>2. op[x] \in Ids /\ draft[x].kind # "none"
    BY <1>1, <2>1 DEF Control, Idling, Locked, MemoryType, DraftFits, IsPrivate, Private, DueCleanup
  <2> QED BY <1>1, <1>7, <2>1, <2>2 DEF Fits
<1>12. /\ mode[x] = "run" /\ pc[x] \in {"persisting", "registering"} =>
            (draft[x].kind = "install" /\ draft[x].phase = "payload_published" => Live(op[x])')
       /\ mode[x] = "run" /\ pc[x] \in {"persisting", "quarantining"} =>
            (draft[x].kind = "remove" /\ draft[x].phase = "preparing" =>
               \A i \in draft[x].removed \ quarantine'[op[x]] : Live(i)')
       /\ pc[x] = "retiring" => staging'[op[x]] = "none" /\ quarantine'[op[x]] = {}
  BY <1>1, <1>2, <1>3 DEF Fits, Locked, Live, Same
<1>13. draft[x].kind # "none" =>
          /\ journal'[op[x]].kind \in {"none", draft[x].kind}
          /\ journal'[op[x]].kind = "remove" => journal'[op[x]].removed = draft[x].removed
  <2>1. SUFFICES ASSUME draft[x].kind # "none"
                 PROVE  /\ journal'[op[x]].kind \in {"none", draft[x].kind}
                        /\ journal'[op[x]].kind = "remove" => journal'[op[x]].removed = draft[x].removed
    OBVIOUS
  <2>2. op[x] \in Ids
    BY <1>1, <2>1 DEF Control, MemoryType, NoJournal
  <2> QED BY <1>1, <1>6, <2>1, <2>2 DEF Fits, NoJournal
<1>14. draft[x].kind = "install" => build'[op[x]] \in Builds
  <2>1. SUFFICES ASSUME draft[x].kind = "install" PROVE build'[op[x]] \in Builds
    OBVIOUS
  <2>2. op[x] \in Ids
    BY <1>1, <2>1 DEF Control, MemoryType, NoJournal
  <2>3. CASE StartInstall(w)
    <3>1. build' = [build EXCEPT ![op[w]] = want[w].build] /\ pc[w] = "choosing"
      BY <2>3 DEF StartInstall, Choosing, Serving, Running
    <3>2. op[x] # op[w]
      BY <1>4, <2>2, <3>1, DistinctValues DEF Early
    <3> QED BY <1>1, <2>1, <2>2, <3>1, <3>2 DEF Fits, FilesType
  <2> QED BY <1>1, <2>1, <2>3, BuildMoves DEF Fits
<1> QED BY <1>2, <1>8, <1>9, <1>10, <1>11, <1>12, <1>13, <1>14 DEF Fits, Same

\* What a worker must find when it goes on.  Outside the lock that is little.
LEMMA RestFits ==
    ASSUME NEW w \in Workers, pc'[w] \notin Locked \cup {"starting"}, draft'[w].kind = "none"
    PROVE  Fits(w)'
BY DEF Fits, Locked

\* Outside the lock it keeps its journal in memory.
LEMMA EndingFits ==
    ASSUME FilesType, MemoryType, NEW w \in Workers, Control(w), Fits(w), StepOf(w),
           pc'[w] \notin Locked \cup {"starting"}, draft'[w] = draft[w], op'[w] = op[w]
    PROVE  Fits(w)'
<1>1. CASE draft[w].kind = "none"
  BY <1>1, RestFits
<1>2. CASE draft[w].kind # "none"
  <2>1. op[w] \in Ids
    BY <1>2 DEF Control, MemoryType, NoJournal
  <2>2. journal'[op[w]] \in {journal[op[w]], draft[w], NoJournal}
    BY <2>1, JournalMoves DEF Put, FilesType
  <2>3. /\ journal'[op[w]].kind \in {"none", draft[w].kind}
        /\ journal'[op[w]].kind = "remove" => journal'[op[w]].removed = draft[w].removed
    BY <1>2, <2>2 DEF Fits, NoJournal
  <2>4. draft[w].kind = "install" => build'[op[w]] \in Builds
    <3>1. CASE StartInstall(w)
      BY <1>2, <2>1, <3>1 DEF StartInstall, Goto, Locked, MemoryType
    <3> QED BY <3>1, BuildMoves DEF Fits
  <2> QED BY <2>3, <2>4 DEF Fits, Locked
<1> QED BY <1>1, <1>2

\* A worker that goes on under the lock, with its journal as it is stored.
LEMMA GoingOnFits ==
    ASSUME MemoryType, NEW w \in Workers, Fits(w), op'[w] = op[w], draft'[w] = draft[w],
           pc[w] \in Locked \ {"choosing", "reusing", "persisting"},
           pc'[w] \in {"sealing", "discarding", "retiring"}, UNCHANGED <<journal, build>>,
           pc'[w] = "retiring" => staging'[op[w]] = "none" /\ quarantine'[op[w]] = {}
    PROVE  Fits(w)'
BY DEF Fits, Locked

\* Before the first journal of an operation is stored.
LEMMA EarlyFits ==
    ASSUME Sound, NEW w \in Workers, StepOf(w), pc[w] = "choosing", op'[w] = op[w], pc'[w] = "persisting",
           UNCHANGED <<journal, staging, quarantine>>, mode'[w] = mode[w], draft'[w].phase = "preparing",
           draft'[w].kind = "install" => build'[op[w]] \in Builds,
           draft'[w].kind = "remove" => \A i \in draft'[w].removed : Live(i)'
    PROVE  Fits(w)'
<1>1. /\ FilesType /\ MemoryType /\ Control(w) /\ Fits(w)
  BY DEF Sound, AllControl, AllFits
<1>2. op[w] \in Ids /\ Fresh(op[w])
  BY <1>1 DEF Control, MemoryType, Fits, Idling
<1>3. Fresh(op[w])'
  BY <1>2, FreshStays
<1>4. journal'[op'[w]] = NoJournal
  BY <1>2 DEF Fresh
<1>5. Before(w)'
  BY <1>3 DEF Before
<1> QED BY <1>4, <1>5 DEF Fits, Locked, NoJournal

\* A worker that has moved its journal on in memory, and will store it next.
LEMMA PersistingFits ==
    ASSUME FilesType, MemoryType, NEW w \in Workers, Fits(w), op'[w] = op[w], mode'[w] = mode[w], pc'[w] = "persisting",
           draft[w].kind # "none", draft'[w].kind = draft[w].kind, draft'[w].removed = draft[w].removed,
           draft'[w].phase # "preparing", UNCHANGED <<journal, build>>, Before(w)',
           mode[w] = "run" /\ draft[w].kind = "install" /\ draft'[w].phase = "payload_published" => Live(op[w])'
    PROVE  Fits(w)'
<1>1. /\ journal'[op'[w]] = journal[op[w]] /\ build'[op'[w]] = build[op[w]]
  OBVIOUS
<1> QED BY <1>1 DEF Fits, Locked

\* What a worker counts on at its next step, it has established by this one.
LEMMA OwnFits ==
    ASSUME Sound, NEW w \in Workers, StepOf(w)
    PROVE  Fits(w)'
<1>1. /\ FilesType /\ MemoryType /\ Control(w) /\ Fits(w) /\ AllRecorded
  BY DEF Sound, AllControl, AllFits
<1> USE DEF MemoryType, Goto, Hold, InMemory, Running, At, Idle, memory, durable, files
<1>2. CASE Refuse(w) \/ RegisterRetained(w) \/ Finish(w) \/ AbandonRecovery(w) \/ EndRecovery(w) \/
        LeaveForReview(w) \/ Settle(w) \/ Crash(w)
  <2>1. pc'[w] \notin Locked \cup {"starting"} /\ draft'[w] = NoJournal
    BY <1>1, <1>2 DEF Refuse, RegisterRetained, Finish, AbandonRecovery, EndRecovery,
         LeaveForReview, Settle,
        Crash, Locked
  <2> QED BY <2>1, RestFits DEF NoJournal
<1>3. CASE StartRecovery(w) \/ ListJournals(w) \/ InventoryJournals(w) \/
        (\E i \in Ids : SkipCancellation(w, i)) \/ (\E i \in Ids : SkipJournal(w, i)) \/
        KeepActive(w) \/ RollBack(w) \/ UnlockPort(w) \/ Rejournal(w) \/ FailSealed(w) \/
        FailActivation(w) \/ FailRemoval(w) \/ Retire(w)
  <2>1. pc'[w] \notin Locked \cup {"starting"} /\ draft'[w] = draft[w] /\ op'[w] = op[w]
    BY <1>1, <1>3 DEF StartRecovery, ListJournals, InventoryJournals, SkipCancellation,
         SkipJournal, KeepActive,
        RollBack, UnlockPort, Rejournal, FailSealed, FailActivation, FailRemoval, Retire, Locked
  <2> QED BY <1>1, <2>1, EndingFits
<1>4. CASE \E i \in Ids, request \in Requests : Begin(w, i, request)
  <2>1. PICK i \in Ids, request \in Requests : Begin(w, i, request)
    BY <1>4
  <2>2. /\ pc'[w] = "starting" /\ op'[w] = i /\ draft'[w] = draft[w] /\ pc[w] = "rest"
        /\ UNCHANGED <<journal, staging, quarantine>> /\ activity[i].status = "unused"
    BY <1>1, <2>1 DEF Begin
  <2>3. Fresh(i)
    BY <1>1, <2>2 DEF AllRecorded, Recorded
  <2>4. Fresh(i)'
    BY <2>2, <2>3, FreshStays
  <2>5. draft[w] = NoJournal
    BY <1>1, <2>2 DEF Control, Idling
  <2> QED BY <2>2, <2>4, <2>5 DEF Fits, NoJournal, Locked
<1>5. CASE TryLockPort(w)
  <2>1. /\ pc'[w] = "choosing" /\ op'[w] = op[w] /\ draft'[w] = draft[w] /\ pc[w] = "starting"
        /\ UNCHANGED <<journal, staging, quarantine>>
    BY <1>1, <1>5 DEF TryLockPort
  <2>2. draft[w] = NoJournal /\ op[w] \in Ids /\ Fresh(op[w])
    BY <1>1, <2>1 DEF Control, DraftFits, Idling, Fits
  <2>3. Fresh(op[w])'
    BY <2>1, <2>2, FreshStays
  <2> QED BY <2>1, <2>2, <2>3 DEF Fits, NoJournal, Locked
<1>6. CASE StopCancelled(w) \/ FailPrivately(w)
  <2>1. CASE pc[w] = "choosing"
    <3>1. pc'[w] = "unlocking" /\ op'[w] = op[w] /\ draft'[w] = draft[w]
      BY <1>1, <1>6, <2>1 DEF StopCancelled, FailPrivately
    <3> QED BY <1>1, <3>1, EndingFits DEF Locked
  <2>2. CASE pc[w] # "choosing"
    <3>1. /\ pc'[w] = "discarding" /\ op'[w] = op[w] /\ draft'[w] = draft[w] /\ pc[w] \in {"preparing", "sealing"}
          /\ UNCHANGED <<journal, build>>
      BY <1>1, <1>6, <2>2 DEF StopCancelled, FailPrivately
    <3> QED BY <1>1, <3>1, GoingOnFits DEF Locked
  <2> QED BY <2>1, <2>2
<1>7. CASE ReuseStaged(w)
  <2>1. CASE want[w].activate
    <3>1. /\ pc[w] = "choosing" /\ op'[w] = op[w] /\ pc'[w] = "persisting" /\ mode'[w] = mode[w]
          /\ UNCHANGED <<journal, staging, quarantine>>
          /\ draft'[w].phase = "preparing" /\ draft'[w].kind = "activate"
      BY <1>1, <1>7, <2>1 DEF ReuseStaged, Choosing, Serving, Begun
    <3> QED BY <3>1, EarlyFits
  <2>2. CASE ~want[w].activate
    <3>1. pc'[w] = "unlocking" /\ op'[w] = op[w] /\ draft'[w] = draft[w]
      BY <1>1, <1>7, <2>2 DEF ReuseStaged
    <3> QED BY <1>1, <3>1, EndingFits DEF Locked
  <2> QED BY <2>1, <2>2
<1>8. CASE StartInstall(w) \/ BeginActivation(w) \/ BeginRemoval(w)
  <2>1. /\ pc[w] = "choosing" /\ op'[w] = op[w] /\ pc'[w] = "persisting" /\ mode'[w] = mode[w]
        /\ UNCHANGED <<journal, staging, quarantine>> /\ draft'[w].phase = "preparing"
    BY <1>1, <1>8 DEF StartInstall, BeginActivation, BeginRemoval, Choosing, Serving, Begun
  <2>2. draft'[w].kind = "install" => build'[op[w]] \in Builds
    <3>1. CASE StartInstall(w)
      <4>1. build' = [build EXCEPT ![op[w]] = want[w].build] /\ want[w].kind = "install"
        BY <3>1 DEF StartInstall, Choosing, Serving
      <4>2. want[w].build \in Builds /\ op[w] \in Ids
        BY <1>1, <2>1, <4>1, RequestsHaveBuilds DEF Control, Idling
      <4> QED BY <1>1, <4>1, <4>2 DEF FilesType
    <3>2. CASE BeginActivation(w) \/ BeginRemoval(w)
      BY <1>1, <3>2 DEF BeginActivation, BeginRemoval, Begun
    <3> QED BY <1>8, <3>1, <3>2
  <2>3. draft'[w].kind = "remove" => \A i \in draft'[w].removed : Live(i)'
    BY <1>1, <1>8 DEF StartInstall, BeginActivation, BeginRemoval, Begun, Live
  <2> QED BY <2>1, <2>2, <2>3, EarlyFits
<1>9. CASE ReuseRetained(w)
  <2>1. PICK i \in inv.registered : draft' = [draft EXCEPT ![w].install = i]
    BY <1>9 DEF ReuseRetained
  <2>2. /\ pc[w] = "choosing" /\ pc'[w] = "reusing" /\ op'[w] = op[w] /\ UNCHANGED inv
    BY <1>1, <1>9 DEF ReuseRetained, Choosing, Serving
  <2>3. draft[w] = NoJournal
    BY <1>1, <2>2 DEF Control, DraftFits, Idling
  <2>4. draft'[w].install = i /\ draft'[w].kind = "none"
    BY <1>1, <2>1, <2>3 DEF NoJournal
  <2> QED BY <2>2, <2>4 DEF Fits, Locked
<1>10. CASE PreparePayload(w)
  <2>1. pc[w] = "preparing" /\ pc'[w] = "sealing" /\ op'[w] = op[w] /\ draft'[w] = draft[w] /\ UNCHANGED <<journal, build>>
    BY <1>1, <1>10 DEF PreparePayload
  <2> QED BY <1>1, <2>1, GoingOnFits DEF Locked

<1>11. CASE RemoveStaging(w)
  <2>1. /\ pc[w] = "cleaning" /\ pc'[w] = "retiring" /\ op'[w] = op[w] /\ draft'[w] = draft[w]
        /\ UNCHANGED <<journal, build, quarantine>> /\ staging' = [staging EXCEPT ![op[w]] = "none"]
    BY <1>1, <1>11 DEF RemoveStaging
  <2>2. op[w] \in Ids /\ draft[w].kind = "install"
    BY <1>1, <2>1 DEF Control, DraftFits, Idling, Private, IsPrivate, DueCleanup
  <2>3. journal[op[w]].kind = "install"
    BY <1>1, <2>1, <2>2 DEF Fits, Locked
  <2>4. staging'[op[w]] = "none" /\ quarantine'[op[w]] = {}
    BY <1>1, <2>1, <2>2, <2>3 DEF AllRecorded, Recorded, FilesType
  <2> QED BY <1>1, <2>1, <2>4, GoingOnFits DEF Locked
<1>12. CASE DiscardPrivate(w)
  <2>1. /\ pc[w] = "discarding" /\ pc'[w] = "retiring" /\ op'[w] = op[w] /\ draft'[w] = draft[w]
        /\ UNCHANGED <<journal, build, quarantine>> /\ staging' = [staging EXCEPT ![op[w]] = "none"]
    BY <1>1, <1>12 DEF DiscardPrivate
  <2>2. op[w] \in Ids /\ draft[w].kind = "install"
    BY <1>1, <2>1 DEF Control, DraftFits, Idling, Private, IsPrivate, DueCleanup
  <2>3. journal[op[w]].kind = "install"
    BY <1>1, <2>1, <2>2 DEF Fits, Locked
  <2>4. staging'[op[w]] = "none" /\ quarantine'[op[w]] = {}
    BY <1>1, <2>1, <2>2, <2>3 DEF AllRecorded, Recorded, FilesType
  <2> QED BY <1>1, <2>1, <2>4, GoingOnFits DEF Locked
<1>13. CASE DeleteQuarantine(w)
  <2>1. /\ pc[w] = "deleting" /\ pc'[w] = "retiring" /\ op'[w] = op[w] /\ draft'[w] = draft[w]
        /\ UNCHANGED <<journal, build, staging>> /\ quarantine' = [quarantine EXCEPT ![op[w]] = {}]
    BY <1>1, <1>13 DEF DeleteQuarantine
  <2>2. op[w] \in Ids /\ draft[w].kind = "remove"
    BY <1>1, <2>1 DEF Control, DraftFits, Idling
  <2>3. journal[op[w]].kind = "remove"
    BY <1>1, <2>1, <2>2 DEF Fits, Locked
  <2>4. staging'[op[w]] = "none" /\ quarantine'[op[w]] = {}
    BY <1>1, <2>1, <2>2, <2>3 DEF AllRecorded, Recorded, FilesType
  <2> QED BY <1>1, <2>1, <2>4, GoingOnFits DEF Locked
<1>14. CASE SealPayload(w)
  <2>1. /\ pc[w] = "sealing" /\ pc'[w] = "persisting" /\ op'[w] = op[w] /\ mode'[w] = mode[w]
        /\ draft' = [draft EXCEPT ![w].phase = "prepared", ![w].install = op[w]] /\ UNCHANGED <<journal, build>>
    BY <1>1, <1>14 DEF SealPayload
  <2>2. draft[w] \in Journal /\ op[w] \in Ids /\ draft[w].kind = "install" /\ IsPrivate(draft[w])
    BY <1>1, <2>1 DEF Control, DraftFits, Idling, IsPrivate
  <2>3. /\ draft'[w].kind = draft[w].kind /\ draft'[w].removed = draft[w].removed
        /\ draft'[w].phase = "prepared"
    BY <1>1, <2>1, <2>2 DEF Journal
  <2>4. Before(w)'
    <3>1. journal[op[w]] = draft[w]
      BY <1>1, <2>1, <2>2 DEF Fits, Locked
    <3> QED BY <2>1, <2>2, <2>3, <3>1 DEF Before
  <2> QED BY <1>1, <2>1, <2>2, <2>3, <2>4, PersistingFits
<1>15. CASE RetainCleanup(w)
  <2>1. /\ pc[w] \in {"cleaning", "deleting"} /\ pc'[w] = "persisting" /\ op'[w] = op[w] /\ mode'[w] = mode[w]
        /\ draft' = [draft EXCEPT ![w].phase = "cleanup_pending"] /\ UNCHANGED <<journal, build>>
    BY <1>1, <1>15 DEF RetainCleanup
  <2>2. /\ draft[w] \in Journal /\ op[w] \in Ids /\ draft[w].kind \in {"install", "remove"}
        /\ draft[w].kind = "install" =>
             draft[w].install = op[w] /\ draft[w].phase \in {"metadata_committed", "cleanup_pending"}
    BY <1>1, <2>1, DistinctValues DEF Control, DraftFits, Idling, Shape, NoJournal
  <2>3. /\ draft'[w].kind = draft[w].kind /\ draft'[w].removed = draft[w].removed
        /\ draft'[w].phase = "cleanup_pending" /\ draft'[w].install = draft[w].install
    BY <1>1, <2>1, <2>2 DEF Journal
  <2>4. Before(w)'
    <3>1. CASE draft[w].kind = "install"
      <4>1. journal[op[w]] = draft[w]
        BY <1>1, <2>1, <3>1 DEF Fits, Locked
      <4> QED BY <2>1, <2>2, <2>3, <3>1, <4>1, DistinctValues DEF Before, Private, IsPrivate,
           DueCleanup
    <3>2. CASE draft[w].kind = "remove"
      <4>1. journal[op[w]].kind = "remove"
        BY <1>1, <2>1, <3>2 DEF Fits, Locked
      <4> QED BY <2>1, <2>2, <2>3, <3>2, <4>1 DEF Before
    <3> QED BY <2>2, <3>1, <3>2
  <2> QED BY <1>1, <2>1, <2>2, <2>3, <2>4, PersistingFits
<1>16. CASE RetainPrivate(w)
  <2>1. CASE outcome[w] = "cancelled"
    <3>1. pc'[w] = "unlocking" /\ op'[w] = op[w] /\ draft'[w] = draft[w]
      BY <1>1, <1>16, <2>1 DEF RetainPrivate
    <3> QED BY <1>1, <3>1, EndingFits DEF Locked
  <2>2. CASE outcome[w] # "cancelled"
    <3>1. /\ pc[w] \in {"discarding", "retiring"} /\ pc'[w] = "persisting" /\ op'[w] = op[w] /\ mode'[w] = mode[w]
          /\ draft' = [draft EXCEPT ![w].phase = "cleanup_pending"] /\ UNCHANGED <<journal, build>>
          /\ draft[w].kind = "install" /\ draft[w].phase = "preparing"
      BY <1>1, <1>16, <2>2 DEF RetainPrivate
    <3>2. draft[w] \in Journal /\ op[w] \in Ids /\ draft[w].install = NoId
      BY <1>1, <3>1 DEF Control, DraftFits, Idling, Shape, NoJournal
    <3>3. /\ draft'[w].kind = draft[w].kind /\ draft'[w].removed = draft[w].removed
          /\ draft'[w].phase = "cleanup_pending" /\ draft'[w].install = draft[w].install
      BY <1>1, <3>1, <3>2 DEF Journal
    <3>4. Before(w)'
      <4>1. journal[op[w]] = draft[w]
        BY <1>1, <3>1 DEF Fits, Locked
      <4> QED BY <3>1, <3>2, <3>3, <4>1 DEF Before, IsPrivate
    <3> QED BY <1>1, <3>1, <3>2, <3>3, <3>4, PersistingFits
  <2> QED BY <2>1, <2>2
<1>17. CASE PublishPayload(w)
  <2>1. /\ pc[w] = "publishing" /\ pc'[w] = "persisting" /\ op'[w] = op[w] /\ mode'[w] = mode[w]
        /\ draft' = [draft EXCEPT ![w].phase = "payload_published"] /\ UNCHANGED <<journal, build>>
        /\ staging' = [staging EXCEPT ![op[w]] = "spent"] /\ version' = [version EXCEPT ![build[op[w]]] = op[w]]
    BY <1>1, <1>17 DEF PublishPayload
  <2>2. /\ draft[w] \in Journal /\ op[w] \in Ids /\ draft[w].kind = "install" /\ draft[w].phase = "prepared"
        /\ journal[op[w]] = draft[w] /\ build[op[w]] \in Builds
    BY <1>1, <1>17, PublishingIsNew
  <2>3. /\ draft'[w].kind = draft[w].kind /\ draft'[w].removed = draft[w].removed
        /\ draft'[w].phase = "payload_published"
    BY <1>1, <2>1, <2>2 DEF Journal
  <2>4. Before(w)'
    BY <1>1, <2>1, <2>2, <2>3 DEF Before, FilesType
  <2>5. Live(op[w])'
    BY <1>1, <2>1, <2>2 DEF Live, FilesType
  <2> QED BY <1>1, <2>1, <2>2, <2>3, <2>4, <2>5, PersistingFits
<1>18. CASE AcceptPublished(w)
  <2>1. /\ pc[w] = "publishing" /\ pc'[w] = "persisting" /\ op'[w] = op[w] /\ mode'[w] = mode[w]
        /\ draft' = [draft EXCEPT ![w].phase = "payload_published"] /\ UNCHANGED <<journal, build>>
        /\ mode[w] = "recover" /\ staging[op[w]] # "payload" /\ UNCHANGED staging
    BY <1>1, <1>18 DEF AcceptPublished
  <2>2. /\ draft[w] \in Journal /\ op[w] \in Ids /\ draft[w].kind = "install" /\ draft[w].phase = "prepared"
    BY <1>1, <2>1, DistinctValues DEF Control, DraftFits, Idling, Shape, NoJournal
  <2>3. /\ draft'[w].kind = draft[w].kind /\ draft'[w].removed = draft[w].removed
        /\ draft'[w].phase = "payload_published" /\ draft'[w].install = draft[w].install
    BY <1>1, <2>1, <2>2 DEF Journal
  <2>4. Before(w)'
    <3>1. journal[op[w]] = draft[w]
      BY <1>1, <2>1, <2>2 DEF Fits, Locked
    <3> QED BY <2>1, <2>2, <2>3, <3>1 DEF Before
  <2> QED BY <1>1, <2>1, <2>2, <2>3, <2>4, PersistingFits
<1>19. CASE RegisterPublished(w)
  <2>1. /\ pc[w] = "registering" /\ pc'[w] = "persisting" /\ op'[w] = op[w] /\ mode'[w] = mode[w]
        /\ draft' = [draft EXCEPT ![w].phase = "metadata_committed"] /\ UNCHANGED <<journal, build>>
    BY <1>1, <1>19 DEF RegisterPublished
  <2>2. /\ draft[w] \in Journal /\ op[w] \in Ids /\ draft[w].kind = "install" /\ draft[w].phase = "payload_published"
    BY <1>1, <2>1, DistinctValues DEF Control, DraftFits, Idling, Shape, NoJournal
  <2>3. /\ draft'[w].kind = draft[w].kind /\ draft'[w].removed = draft[w].removed
        /\ draft'[w].phase = "metadata_committed" /\ draft'[w].install = draft[w].install
    BY <1>1, <2>1, <2>2 DEF Journal
  <2>4. Before(w)'
    <3>1. journal[op[w]] = draft[w]
      BY <1>1, <2>1, <2>2 DEF Fits, Locked
    <3> QED BY <2>1, <2>2, <2>3, <3>1 DEF Before
  <2> QED BY <1>1, <2>1, <2>2, <2>3, <2>4, PersistingFits
<1>20. CASE SwitchPointers(w)
  <2>1. /\ pc[w] = "switching" /\ pc'[w] = "persisting" /\ op'[w] = op[w] /\ mode'[w] = mode[w]
        /\ draft' = [draft EXCEPT ![w].phase = "metadata_committed"] /\ UNCHANGED <<journal, build>>
    BY <1>1, <1>20 DEF SwitchPointers
  <2>2. /\ draft[w] \in Journal /\ op[w] \in Ids /\ draft[w].kind = "activate"
    BY <1>1, <2>1, DistinctValues DEF Control, DraftFits, Idling, Shape, NoJournal
  <2>3. /\ draft'[w].kind = draft[w].kind /\ draft'[w].removed = draft[w].removed
        /\ draft'[w].phase = "metadata_committed" /\ draft'[w].install = draft[w].install
    BY <1>1, <2>1, <2>2 DEF Journal
  <2>4. Before(w)'
    <3>1. journal[op[w]] = draft[w]
      BY <1>1, <2>1, <2>2 DEF Fits, Locked
    <3> QED BY <2>1, <2>2, <2>3, <3>1 DEF Before
  <2> QED BY <1>1, <2>1, <2>2, <2>3, <2>4, PersistingFits
<1>21. CASE FinishQuarantine(w)
  <2>1. /\ pc[w] = "quarantining" /\ pc'[w] = "persisting" /\ op'[w] = op[w] /\ mode'[w] = mode[w]
        /\ draft' = [draft EXCEPT ![w].phase = "payload_published"] /\ UNCHANGED <<journal, build>>
    BY <1>1, <1>21 DEF FinishQuarantine
  <2>2. /\ draft[w] \in Journal /\ op[w] \in Ids /\ draft[w].kind = "remove"
    BY <1>1, <2>1, DistinctValues DEF Control, DraftFits, Idling, Shape, NoJournal
  <2>3. /\ draft'[w].kind = draft[w].kind /\ draft'[w].removed = draft[w].removed
        /\ draft'[w].phase = "payload_published" /\ draft'[w].install = draft[w].install
    BY <1>1, <2>1, <2>2 DEF Journal
  <2>4. Before(w)'
    <3>1. journal[op[w]].kind = "remove"
      BY <1>1, <2>1, <2>2 DEF Fits, Locked
    <3> QED BY <2>1, <2>2, <2>3, <3>1 DEF Before
  <2> QED BY <1>1, <2>1, <2>2, <2>3, <2>4, PersistingFits
<1>22. CASE Deregister(w)
  <2>1. /\ pc[w] = "deregistering" /\ pc'[w] = "persisting" /\ op'[w] = op[w] /\ mode'[w] = mode[w]
        /\ draft' = [draft EXCEPT ![w].phase = "metadata_committed"] /\ UNCHANGED <<journal, build>>
    BY <1>1, <1>22 DEF Deregister
  <2>2. /\ draft[w] \in Journal /\ op[w] \in Ids /\ draft[w].kind = "remove"
    BY <1>1, <2>1, DistinctValues DEF Control, DraftFits, Idling, Shape, NoJournal
  <2>3. /\ draft'[w].kind = draft[w].kind /\ draft'[w].removed = draft[w].removed
        /\ draft'[w].phase = "metadata_committed" /\ draft'[w].install = draft[w].install
    BY <1>1, <2>1, <2>2 DEF Journal
  <2>4. Before(w)'
    <3>1. journal[op[w]].kind = "remove"
      BY <1>1, <2>1, <2>2 DEF Fits, Locked
    <3> QED BY <2>1, <2>2, <2>3, <3>1 DEF Before
  <2> QED BY <1>1, <2>1, <2>2, <2>3, <2>4, PersistingFits
<1>23. CASE Quarantine(w)
  <2>1. /\ pc[w] = "quarantining" /\ UNCHANGED <<pc, mode, op, draft, journal, build>>
    BY <1>23 DEF Quarantine
  <2>2. PICK k \in draft[w].removed \ quarantine[op[w]] :
           /\ version' = [version EXCEPT ![build[k]] = NoId]
           /\ quarantine' = [quarantine EXCEPT ![op[w]] = quarantine[op[w]] \cup {k}]
    BY <1>23 DEF Quarantine
  <2>3. op[w] \in Ids /\ draft[w].kind = "remove" /\ draft[w].phase = "preparing" /\ draft[w].removed \subseteq Ids
    BY <1>1, <2>1 DEF Control, DraftFits, Idling, Journal
  <2>4. ASSUME mode[w] = "run", NEW i \in draft[w].removed \ quarantine'[op[w]]
        PROVE  Live(i)'
    <3>1. Live(i) /\ Live(k) /\ i # k /\ build[i] \in Builds /\ i \in Ids
      <4>1. i \in draft[w].removed \ quarantine[op[w]] /\ i # k
        BY <1>1, <2>2, <2>3, <2>4 DEF FilesType
      <4>2. Live(i) /\ Live(k)
        BY <1>1, <2>1, <2>2, <2>3, <2>4, <4>1 DEF Fits
      <4>3. Traced(i) /\ i \in Ids
        BY <2>3, <2>4 DEF Traced, Removing
      <4> QED BY <1>1, <4>1, <4>2, <4>3 DEF AllRecorded, Recorded
    <3> QED BY <1>1, <2>1, <2>2, <3>1 DEF Live, FilesType
  <2> QED BY <1>1, <2>1, <2>3, <2>4 DEF Fits, Locked
<1>24. CASE Persist(w)
  <2> DEFINE s == After(draft[w])
  <2>1. /\ pc[w] = "persisting" /\ pc'[w] = s /\ journal' = [journal EXCEPT ![op[w]] = draft[w]]
        /\ UNCHANGED <<mode, op, draft, build, version, staging, quarantine>>
    BY <1>1, <1>24 DEF Persist, Put
  <2>2. op[w] \in Ids /\ draft[w] \in Journal /\ draft[w].kind # "none" /\ Shape(op[w], draft[w])
    BY <1>1, <2>1 DEF Control, DraftFits, Idling
  <2>3. DraftFits(s, op[w], draft[w]) /\ s \notin {"starting", "choosing", "reusing", "persisting"}
    BY <2>2, AfterFits
  <2>4. journal'[op[w]] = draft[w]
    BY <1>1, <2>1, <2>2 DEF FilesType
  <2> HIDE DEF s
  <2>5. s = "retiring" => staging[op[w]] = "none" /\ quarantine[op[w]] = {}
    <3>1. s = "retiring" => draft[w].kind = "activate"
      BY <2>2 DEF s, After, InstallStep, RemovalStep, Shape, NoJournal
    <3>2. journal[op[w]].kind \in {"none", draft[w].kind}
      BY <1>1, <2>2 DEF Fits
    <3> QED BY <1>1, <2>2, <3>1, <3>2 DEF AllRecorded, Recorded
  <2>6. s = "registering" => draft[w].kind = "install" /\ draft[w].phase = "payload_published"
    BY <2>3 DEF DraftFits
  <2>7. s = "quarantining" => draft[w].kind = "remove" /\ draft[w].phase = "preparing"
    BY <2>3 DEF DraftFits
  <2> QED BY <1>1, <2>1, <2>2, <2>3, <2>4, <2>5, <2>6, <2>7 DEF Fits, Locked, Live
<1>25. CASE \E i \in Ids : TakeUpCancellation(w, i)
  <2>1. PICK i \in Ids : TakeUpCancellation(w, i)
    BY <1>25
  <2>2. CASE pc'[w] = "settling" /\ draft'[w] = draft[w]
    <3>1. draft[w].kind = "none"
      BY <1>1, <2>1 DEF TakeUpCancellation, Control, Idling, NoJournal
    <3> QED BY <2>2, <3>1, RestFits DEF Locked
  <2>3. CASE pc'[w] = "discarding"
    <3>1. op'[w] = i /\ draft'[w] = journal[i] /\ UNCHANGED <<journal, build>> /\ IsPrivate(journal[i])
      BY <1>1, <2>1, <2>3 DEF TakeUpCancellation
    <3>2. build[i] \in Builds
      BY <1>1, <3>1 DEF AllRecorded, Recorded, IsPrivate
    <3> QED BY <2>3, <3>1, <3>2 DEF Fits, Locked, IsPrivate
  <2> QED BY <1>1, <2>1, <2>2, <2>3 DEF TakeUpCancellation
<1>26. CASE \E i \in Ids : Resume(w, i)
  <2>1. PICK i \in Ids : Resume(w, i)
    BY <1>26
  <2> DEFINE s == ResumeAt(journal[i])
  <2>2. /\ pc[w] = "recovering" /\ pc'[w] = s /\ op'[w] = i /\ draft'[w] = journal[i] /\ mode'[w] = mode[w]
        /\ UNCHANGED <<journal, build, version, staging, quarantine>> /\ journal[i].kind # "none"
    BY <1>1, <2>1 DEF Resume
  <2>3. mode[w] = "recover"
    BY <1>1, <2>2 DEF Control, RunSteps, CancelSteps, Locked, Idling
  <2>4. Recorded(i) /\ journal[i] \in Journal
    BY <1>1 DEF AllRecorded, FilesType
  <2>5. DraftFits(s, i, journal[i]) /\ s \notin {"starting", "choosing", "reusing", "persisting"}
    BY <2>2, <2>4, ResumeFits DEF Recorded, RecoverSteps
  <2>6. s = "retiring" => journal[i].kind = "activate"
    BY <2>2, <2>4 DEF Recorded, ResumeAt, IsPrivate, DueCleanup, After, InstallStep,
         RemovalStep, Shape, NoJournal
  <2>7. /\ s = "retiring" => staging[i] = "none" /\ quarantine[i] = {}
        /\ journal[i].kind = "install" => build[i] \in Builds
    BY <2>4, <2>6 DEF Recorded
  <2> HIDE DEF s
  <2> QED BY <2>2, <2>3, <2>5, <2>7 DEF Fits, Locked
<1> QED BY ONLY StepOf(w), <1>2, <1>3, <1>4, <1>5, <1>6, <1>7, <1>8, <1>9, <1>10, <1>11, <1>12,
     <1>13, <1>14, <1>15,
        <1>16, <1>17, <1>18, <1>19, <1>20, <1>21, <1>22, <1>23, <1>24, <1>25, <1>26 DEF StepOf, Own, Transact, Recover

\* Every step of a worker keeps the files and the records in order.
LEMMA SoundStep ==
    ASSUME Sound, NEW w \in Workers, StepOf(w)
    PROVE  Sound'
<1>1. /\ FilesType /\ MemoryType /\ Control(w) /\ \A i \in Ids : Shape(i, journal[i])
  BY DEF Sound, AllControl, AllRecorded, Recorded
<1>2. FilesType'
  BY <1>1, FilesStep
<1>3. MemoryType'
  BY <1>1, MemoryStep
<1>4. AllControl'
  <2>1. Control(w)'
    BY <1>1, OwnControl
  <2>2. ASSUME NEW x \in Workers \ {w} PROVE Control(x)'
    <3>1. Control(x) /\ Same(x) /\ (lock' = lock \/ lock \in {Nobody, w})
      BY <1>1, OthersKeepTheirMemory DEF Sound, AllControl
    <3> QED BY <1>1, <3>1, OthersKeepControl
  <2> QED BY <2>1, <2>2 DEF AllControl
<1>5. AllFits'
  BY OwnFits, OthersFit DEF AllFits
<1>6. AllGone'
  BY DraftsStayGone DEF AllGone
<1>7. AllRecorded'
  BY RecordedStays DEF AllRecorded
<1> QED BY <1>2, <1>3, <1>4, <1>5, <1>6, <1>7, PairsStay DEF Sound

\* A request to cancel changes no file, no row and no journal.
LEMMA CalmStep ==
    ASSUME Sound, UNCHANGED <<lock, inv, build, version, staging, quarantine, journal, memory>>, FilesType',
           \A i \in Ids : activity'[i].status = activity[i].status
    PROVE  Sound'
<1>1. MemoryType'
  BY DEF Sound, MemoryType, memory
<1>2. AllControl'
  BY DEF Sound, AllControl, Control, memory
<1>3. Pairs'
  BY DEF Sound, Pairs, Early, memory
<1>4. \A i \in Ids : (Traced(i)' <=> Traced(i)) /\ (Published(i)' <=> Published(i)) /\ (Removing(i)' <=> Removing(i))
                     /\ (Fresh(i)' <=> Fresh(i)) /\ (Live(i)' <=> Live(i))
  BY DEF Traced, Published, Removing, Fresh, Live, memory
<1>5. AllGone'
  BY DEF Sound, AllGone, Gone, Published, memory
<1>6. AllRecorded'
  <2>1. SUFFICES ASSUME NEW i \in Ids PROVE Recorded(i)'
    BY DEF AllRecorded
  <2>2. Recorded(i)
    BY DEF Sound, AllRecorded
  <2>3. Gone(journal[i])'
    BY <2>2 DEF Recorded, Gone, Published
  <2>4. \A k \in quarantine[i] : ~Published(k)'
    BY <2>2 DEF Recorded, Published
  <2> QED BY <1>4, <2>2, <2>3, <2>4 DEF Recorded, memory
<1>7. AllFits'
  <2>1. SUFFICES ASSUME NEW w \in Workers PROVE Fits(w)'
    BY DEF AllFits
  <2>2. Fits(w) /\ Control(w)
    BY DEF Sound, AllFits, AllControl
  <2>3. Fits(w)' <=> Fits(w)
    BY DEF Fits, Before, Fresh, Traced, Published, Removing, Live, memory
  <2> QED BY <2>2, <2>3
<1> QED BY <1>1, <1>2, <1>3, <1>5, <1>6, <1>7 DEF Sound

\* An empty library is in order.
LEMMA SoundInit == Init => Sound
<1>1. SUFFICES ASSUME Init PROVE Sound
  OBVIOUS
<1> USE DistinctValues
<1>2. FilesType
  <2>1. [status |-> "unused", window |-> "closed", requested |-> FALSE] \in ActivityType
    BY DEF ActivityType, Statuses
  <2>2. inv \in InventoryType
    BY <1>1 DEF Init, NoInventory, InventoryType
  <2> QED BY <1>1, <2>1, <2>2, NoJournalType DEF Init, FilesType
<1>3. MemoryType
  BY <1>1, NoJournalType DEF Init, MemoryType, RequestType, Outcomes, Steps
<1>4. AllControl
  BY <1>1 DEF Init, AllControl, Control, Locked, Idling
<1>5. Pairs
  BY <1>1 DEF Init, Pairs
<1>6. AllFits
  BY <1>1 DEF Init, AllFits, Fits, NoJournal, Locked
<1>7. AllGone
  BY <1>1 DEF Init, AllGone, Gone, NoJournal
<1>8. ASSUME NEW i \in Ids PROVE Recorded(i)
  <2>1. ~Traced(i) /\ ~Published(i) /\ ~Removing(i)
    BY <1>1 DEF Init, Traced, Published, Removing, NoJournal, NoInventory
  <2> QED BY <1>1, <2>1 DEF Init, Recorded, Fresh, Shape, Gone, NoJournal, Published, Traced
<1> QED BY <1>2, <1>3, <1>4, <1>5, <1>6, <1>7, <1>8 DEF Sound, AllRecorded

\* Every step is a worker's, or a request to cancel, or none.
LEMMA NextSteps ==
    ASSUME [Next]_vars
    PROVE  \/ \E w \in Workers : StepOf(w)
           \/ \E i \in Ids : RequestCancellation(i)
           \/ UNCHANGED vars
BY DEF Next, StepOf

\* A request to cancel writes nothing but itself.
LEMMA RequestsAreCalm ==
    ASSUME Sound, (\E i \in Ids : RequestCancellation(i)) \/ UNCHANGED vars
    PROVE  /\ UNCHANGED <<lock, inv, build, version, staging, quarantine, journal, memory, retired>>
           /\ FilesType' /\ \A i \in Ids : activity'[i].status = activity[i].status
<1>1. FilesType
  BY DEF Sound
<1>2. CASE UNCHANGED vars
  BY <1>1, <1>2 DEF vars, durable, FilesType
<1>3. CASE \E i \in Ids : RequestCancellation(i)
  <2>1. PICK i \in Ids : RequestCancellation(i)
    BY <1>3
  <2>2. activity' = [activity EXCEPT ![i].requested = TRUE]
        /\ UNCHANGED <<lock, inv, build, version, staging, quarantine, journal, memory, retired>>
    BY <2>1 DEF RequestCancellation, files
  <2>3. activity' \in [Ids -> ActivityType]
    BY <1>1, <2>2, ActivityTypes DEF FilesType
  <2>4. \A k \in Ids : activity'[k].status = activity[k].status
    BY <1>1, <2>2 DEF FilesType, ActivityType
  <2> QED BY <1>1, <2>2, <2>3, <2>4 DEF FilesType
<1> QED BY <1>2, <1>3

-----------------------------------------------------------------------------
(* Requests to cancel.                                                     *)

\* What a step does to the rest of an activity.
LEMMA WindowMoves ==
    ASSUME FilesType, MemoryType, NEW w \in Workers, Control(w), StepOf(w), NEW i \in Ids
    PROVE  /\ activity'[i].requested = activity[i].requested
           /\ \/ activity'[i].window = activity[i].window
              \/ \E request \in Requests :
                   /\ Begin(w, i, request)
                   /\ request.kind # "install" => activity'[i].window = "closed"
              \/ /\ i = op[w] /\ ClosePreparation(i) /\ Cancellable(i) /\ ~activity[i].requested
                 /\ activity'[i].window = "finishing"
              \/ /\ i = op[w] /\ (Finish(w) \/ Settle(w))
                 /\ activity[i].status = "running" /\ activity'[i].status # "running"
                 /\ activity'[i].window = "closed"
<1>1. activity[i] \in ActivityType
  BY DEF FilesType
<1>2. CASE (ReuseStaged(w) \/ ReuseRetained(w) \/ SealPayload(w)) /\ ClosePreparation(op[w])
  <2>1. ~Cancelled(op[w])
    BY <1>2 DEF ReuseStaged, ReuseRetained, SealPayload, Choosing
  <2> QED BY <1>1, <1>2, <2>1 DEF ClosePreparation, Cancelled, Cancellable, FilesType, ActivityType
<1>3. CASE Finish(w) \/ Settle(w)
  <2>1. UNCHANGED activity \/ \E s \in {"succeeded", "failed", "cancelled"} : FinishActivity(op[w], s)
    BY <1>3 DEF Finish, Settle
  <2> QED BY <1>1, <1>3, <2>1 DEF FinishActivity, FilesType, ActivityType
<1>4. CASE \E k \in Ids, request \in Requests : Begin(w, k, request)
  <2>1. PICK k \in Ids, request \in Requests : Begin(w, k, request)
    BY <1>4
  <2>2. /\ activity' = [activity EXCEPT ![k].status = "running",
                ![k].window = IF request.kind = "install" THEN "preparing" ELSE "closed"]
        /\ activity[k] \in ActivityType
    BY <2>1 DEF Begin, FilesType
  <2>3. CASE k # i
    BY <1>1, <2>2, <2>3 DEF FilesType
  <2>4. CASE k = i
    <3>1. activity'[i] = [activity[i] EXCEPT !.status = "running",
                            !.window = IF request.kind = "install" THEN "preparing" ELSE "closed"]
      BY <2>2, <2>4 DEF FilesType
    <3>2. /\ activity'[i].requested = activity[i].requested
          /\ request.kind # "install" => activity'[i].window = "closed"
      BY <1>1, <3>1 DEF ActivityType
    <3> QED BY <2>1, <2>4, <3>2
  <2> QED BY <2>3, <2>4
<1> QED BY <1>1, <1>2, <1>3, <1>4, ActivityMoves

\* A worker that runs an operation has begun it, and still serves the same
\* request.
LEMMA RunStays ==
    ASSUME FilesType, MemoryType, NEW w \in Workers, Control(w), StepOf(w), mode'[w] = "run"
    PROVE  \/ \E i \in Ids, request \in Requests : Begin(w, i, request)
           \/ /\ mode[w] = "run" /\ want'[w] = want[w] /\ op'[w] = op[w]
              /\ pc'[w] \in Locked \cup {"starting"} => pc[w] \in Locked \cup {"starting"}
<1> USE DEF MemoryType, Goto, Idle, memory, durable, Running, At, Locked
<1>1. CASE TryLockPort(w) \/ Refuse(w) \/ StopCancelled(w) \/ KeepActive(w) \/ ReuseStaged(w) \/
        ReuseRetained(w) \/ RegisterRetained(w) \/ StartInstall(w) \/ PreparePayload(w) \/
        SealPayload(w)
  BY <1>1 DEF TryLockPort, Refuse, StopCancelled, KeepActive, ReuseStaged, ReuseRetained,
        RegisterRetained, StartInstall, PreparePayload, SealPayload, Choosing, Serving
<1>2. CASE RetainCleanup(w) \/ FailPrivately(w) \/ RetainPrivate(w) \/ BeginActivation(w) \/
        RollBack(w) \/ BeginRemoval(w) \/ FailSealed(w) \/ FailActivation(w) \/ FailRemoval(w)
  BY <1>2 DEF RetainCleanup, FailPrivately, RetainPrivate, BeginActivation, RollBack, BeginRemoval,
        FailSealed, FailActivation, FailRemoval, Choosing, Serving
<1>3. CASE UnlockPort(w) \/ Rejournal(w)
  BY <1>3 DEF UnlockPort, Rejournal
<1>4. CASE Persist(w) \/ Retire(w) \/ PublishPayload(w) \/ AcceptPublished(w) \/
        RegisterPublished(w) \/ RemoveStaging(w) \/ DiscardPrivate(w) \/ SwitchPointers(w) \/
        Quarantine(w) \/ FinishQuarantine(w) \/ Deregister(w) \/ DeleteQuarantine(w)
  BY <1>4 DEF Persist, Retire, PublishPayload, AcceptPublished, RegisterPublished, RemoveStaging,
        DiscardPrivate, SwitchPointers, Quarantine, FinishQuarantine, Deregister, DeleteQuarantine
<1>5. CASE StartRecovery(w) \/ ListJournals(w) \/ AbandonRecovery(w) \/ InventoryJournals(w) \/
        LeaveForReview(w) \/ Settle(w) \/ EndRecovery(w) \/
        (\E i \in Ids : SkipCancellation(w, i)) \/ (\E i \in Ids : TakeUpCancellation(w, i)) \/
        (\E i \in Ids : SkipJournal(w, i)) \/ (\E i \in Ids : Resume(w, i)) \/ Finish(w) \/
        Crash(w)
  <2>1. mode[w] # "run" \/ mode'[w] = "none"
    BY <1>5 DEF StartRecovery, ListJournals, AbandonRecovery, InventoryJournals,
         LeaveForReview, Settle,
          EndRecovery, SkipCancellation, TakeUpCancellation, SkipJournal, Resume, Finish,
               Crash, Control, RunSteps
  <2>2. mode'[w] \in {mode[w], "none", "cancel", "recover"}
    BY <1>5 DEF StartRecovery, ListJournals, AbandonRecovery, InventoryJournals,
         LeaveForReview, Settle,
          EndRecovery, SkipCancellation, TakeUpCancellation, SkipJournal, Resume, Finish, Crash
  <2> QED BY <2>1, <2>2
<1> QED BY ONLY StepOf(w), <1>1, <1>2, <1>3, <1>4, <1>5 DEF StepOf, Own, Transact, Recover

\* How a worker comes to report that something was cancelled.
LEMMA CancelledComes ==
    ASSUME FilesType, MemoryType, NEW w \in Workers, Control(w), StepOf(w), outcome'[w] = "cancelled"
    PROVE  \/ outcome[w] = "cancelled" /\ op'[w] = op[w]
           \/ op'[w] = op[w] /\ op[w] \in Ids /\ activity[op[w]].requested
           \/ op'[w] \in Ids /\ activity[op'[w]].requested
<1> USE DEF MemoryType, Idle, Result, memory, durable
<1>1. CASE TryLockPort(w) \/ KeepActive(w) \/ ReuseStaged(w) \/ ReuseRetained(w) \/
        RegisterRetained(w) \/ StartInstall(w) \/ PreparePayload(w) \/ SealPayload(w) \/
        RetainCleanup(w) \/ RetainPrivate(w) \/ BeginActivation(w) \/ RollBack(w) \/
        BeginRemoval(w) \/ UnlockPort(w) \/ Rejournal(w) \/ Persist(w) \/ Retire(w) \/
        PublishPayload(w)
  BY <1>1 DEF TryLockPort, KeepActive, ReuseStaged, ReuseRetained, RegisterRetained, StartInstall,
        PreparePayload, SealPayload, RetainCleanup, RetainPrivate, BeginActivation, RollBack,
        BeginRemoval, UnlockPort, Rejournal, Persist, Retire, PublishPayload
<1>2. CASE AcceptPublished(w) \/ RegisterPublished(w) \/ RemoveStaging(w) \/ DiscardPrivate(w) \/
        SwitchPointers(w) \/ Quarantine(w) \/ FinishQuarantine(w) \/ Deregister(w) \/
        DeleteQuarantine(w) \/ StartRecovery(w) \/ ListJournals(w) \/ InventoryJournals(w) \/
        (\E i \in Ids : SkipCancellation(w, i)) \/ (\E i \in Ids : SkipJournal(w, i))
  BY <1>2 DEF AcceptPublished, RegisterPublished, RemoveStaging, DiscardPrivate, SwitchPointers,
        Quarantine, FinishQuarantine, Deregister, DeleteQuarantine, StartRecovery, ListJournals,
        InventoryJournals, SkipCancellation, SkipJournal
<1>3. CASE (\E i \in Ids, request \in Requests : Begin(w, i, request)) \/ Finish(w) \/ Crash(w) \/
        AbandonRecovery(w) \/ EndRecovery(w) \/ LeaveForReview(w) \/ Settle(w) \/ Refuse(w) \/
        FailPrivately(w) \/ FailSealed(w) \/ FailActivation(w) \/ FailRemoval(w)
  BY <1>3 DEF Begin, Finish, Crash, AbandonRecovery, EndRecovery, LeaveForReview, Settle, Refuse,
        FailPrivately, FailSealed, FailActivation, FailRemoval
<1>4. CASE StopCancelled(w)
  BY <1>4 DEF StopCancelled, Cancelled, Control, Idling
<1>5. CASE \E i \in Ids : TakeUpCancellation(w, i) \/ Resume(w, i)
  BY <1>5 DEF TakeUpCancellation, Resume
<1> QED BY ONLY StepOf(w), <1>1, <1>2, <1>3, <1>4, <1>5 DEF StepOf, Own, Transact, Recover

\* While a cancellation may still be asked for, or has been, the operation
\* has only private work.
LEMMA UnsealedStays ==
    ASSUME Settled, NEW w \in Workers, StepOf(w), NEW i \in Ids, Unsealed(i),
           activity'[i].requested \/ activity'[i].window = "preparing",
           ~\E request \in Requests : Begin(w, i, request)
    PROVE  Unsealed(i)'
<1>1. /\ FilesType /\ MemoryType /\ Control(w) /\ Fits(w) /\ AllRecorded /\ Sound /\ Asked(i) /\ Asking(w)
  BY DEF Settled, Sound, AllControl, AllFits, AllAsked, AllAsking
<1>2. op[w] = i => /\ draft[w].kind = "none" \/ Private(draft[w])
                   /\ pc[w] \notin {"publishing", "registering", "cleaning", "deleting", "switching",
                                    "quarantining", "deregistering"}
  BY <1>1, DistinctValues DEF Unsealed, Control, DraftFits, Private, IsPrivate, DueCleanup
<1>3. i \notin inv'.registered
  <2>1. CASE RegisterRetained(w) /\ i = draft[w].install
    BY <1>1, <2>1 DEF RegisterRetained, Running, Fits, Unsealed
  <2>2. CASE RegisterPublished(w) /\ i = draft[w].install
    <3>1. pc[w] = "registering" /\ op[w] = i
      BY <1>1, <2>2, DistinctValues DEF RegisterPublished, At, Control, DraftFits, Shape,
           NoJournal, Idling
    <3> QED BY <1>2, <3>1
  <2> QED BY <1>1, <2>1, <2>2, RegisteredGrows DEF Unsealed
<1>4. ~Published(i)'
  BY <1>1, <1>2, PublishedGrows DEF Unsealed, PublishPayload, At
<1>5. journal'[i].kind = "none" \/ Private(journal'[i])
  BY <1>1, <1>2, Stores DEF Unsealed, NoJournal
<1>6. ASSUME op'[w] = i PROVE draft'[w].kind = "none" \/ Private(draft'[w])
  <2>1. CASE draft'[w] = NoJournal
    BY <2>1 DEF NoJournal
  <2>2. CASE \E k \in Ids : TakeUpCancellation(w, k) \/ Resume(w, k)
    <3>1. PICK k \in Ids : TakeUpCancellation(w, k) \/ Resume(w, k)
      BY <2>2
    <3>2. k = i /\ (draft'[w] = journal[i] \/ draft'[w] = draft[w]) /\ pc[w] \in Idling
      BY <1>1, <1>6, <3>1 DEF TakeUpCancellation, Resume, Hold, MemoryType, At, Idling
    <3>3. draft[w].kind = "none"
      BY <1>1, <3>2 DEF Control, NoJournal
    <3> QED BY <3>2, <3>3 DEF Unsealed
  <2>3. CASE op[w] = i
    <3>1. mode[w] = "run" /\ pc[w] \in Locked => activity[i].status = "running"
      BY <1>1, <2>3 DEF Asking
    <3>2. ~((ReuseStaged(w) \/ SealPayload(w)) /\ ClosePreparation(op[w]) /\ ~Cancelled(op[w]))
      <4>1. SUFFICES ASSUME ReuseStaged(w) \/ SealPayload(w), ClosePreparation(op[w]), ~Cancelled(op[w]) PROVE FALSE
        OBVIOUS
      <4>2. mode[w] = "run" /\ pc[w] \in Locked
        BY <4>1 DEF ReuseStaged, SealPayload, Choosing, Serving, Running, Locked
      <4>3. activity[i] \in ActivityType
        BY <1>1 DEF FilesType
      <4>4. CASE Cancellable(i)
        <5>1. ~activity[i].requested /\ activity' = [activity EXCEPT ![i].window = "finishing"]
          BY <2>3, <4>1, <4>4 DEF ClosePreparation, Cancelled
        <5>2. activity'[i].requested = activity[i].requested /\ activity'[i].window = "finishing"
          BY <1>1, <4>3, <5>1 DEF FilesType, ActivityType
        <5> QED BY <5>1, <5>2
      <4>5. CASE ~Cancellable(i)
        <5>1. UNCHANGED activity
          BY <2>3, <4>1, <4>5 DEF ClosePreparation
        <5> QED BY <1>1, <3>1, <4>2, <4>5, <5>1 DEF Cancellable, Asked
      <4> QED BY <4>4, <4>5
    <3>3. CASE ReuseStaged(w) \/ SealPayload(w)
      BY <3>2, <3>3 DEF ReuseStaged, SealPayload, Choosing
    <3>4. ~(BeginActivation(w) \/ BeginRemoval(w))
      <4>1. SUFFICES ASSUME BeginActivation(w) \/ BeginRemoval(w) PROVE FALSE
        OBVIOUS
      <4>2. mode[w] = "run" /\ pc[w] \in Locked /\ want[w].kind # "install" /\ UNCHANGED activity
        BY <4>1 DEF BeginActivation, BeginRemoval, Serving, Running, Locked, durable
      <4>3. activity[i].window = "closed"
        BY <1>1, <2>3, <4>2 DEF Asking
      <4> QED BY <1>1, <3>1, <4>2, <4>3 DEF Asked
    <3>5. CASE StartInstall(w)
      BY <1>1, <3>5 DEF StartInstall, Hold, Begun, MemoryType, Private, IsPrivate
    <3>6. CASE ReuseRetained(w)
      <4>1. PICK k \in inv.registered : draft' = [draft EXCEPT ![w].install = k]
        BY <3>6 DEF ReuseRetained
      <4>2. pc[w] = "choosing"
        BY <3>6 DEF ReuseRetained, Choosing, Serving, Running
      <4>3. draft[w] = NoJournal
        BY <1>1, <2>3, <4>2, DistinctValues DEF Control, DraftFits
      <4> QED BY <1>1, <4>1, <4>3 DEF MemoryType, NoJournal
    <3>7. CASE RetainPrivate(w)
      <4>1. draft[w].kind = "install" /\ draft[w].phase = "preparing" /\ draft[w].install = NoId /\ draft[w] \in Journal
        BY <1>1, <2>3, <3>7, DistinctValues DEF RetainPrivate, Control, DraftFits, Shape,
             NoJournal, MemoryType
      <4>2. draft'[w] \in {draft[w], [draft[w] EXCEPT !.phase = "cleanup_pending"]}
        BY <1>1, <3>7 DEF RetainPrivate, InMemory, MemoryType
      <4> QED BY <4>1, <4>2 DEF Private, IsPrivate, DueCleanup, Journal
    <3>8. ~(RetainCleanup(w) \/ AcceptPublished(w) \/ PublishPayload(w) \/ RegisterPublished(w) \/ SwitchPointers(w)
            \/ FinishQuarantine(w) \/ Deregister(w))
      BY <1>2, <2>3 DEF RetainCleanup, AcceptPublished, PublishPayload, RegisterPublished,
           SwitchPointers,
         FinishQuarantine, Deregister, At
    <3>9. CASE draft'[w] = draft[w]
      BY <1>2, <2>3, <3>9
    <3> QED BY <1>1, <2>1, <2>2, <3>3, <3>4, <3>5, <3>6, <3>7, <3>8, <3>9, DraftComes
  <2> QED BY <1>1, <1>6, <2>2, <2>3, OpComes
<1>7. ASSUME NEW x \in Workers, op'[x] = i PROVE draft'[x].kind = "none" \/ Private(draft'[x])
  BY <1>1, <1>6, <1>7, OthersKeepTheirMemory DEF Same, Unsealed
<1> QED BY <1>3, <1>4, <1>5, <1>7 DEF Unsealed

\* An operation that has just begun has no work at all.
LEMMA BegunUnsealed ==
    ASSUME Sound, NEW w \in Workers, NEW i \in Ids, NEW request \in Requests, Begin(w, i, request)
    PROVE  Unsealed(i)'
<1>1. /\ FilesType /\ MemoryType /\ Control(w) /\ Recorded(i) /\ activity[i].status = "unused" /\ pc[w] = "rest"
      /\ UNCHANGED <<inv, version, journal, draft>> /\ op' = [op EXCEPT ![w] = i]
  BY DEF Sound, AllControl, AllRecorded, Begin, files
<1>2. Fresh(i) /\ \A x \in Workers : op[x] # i
  BY <1>1 DEF Recorded
<1>3. draft[w] = NoJournal
  BY <1>1 DEF Control, Idling
<1>4. \A x \in Workers : op'[x] = i => draft'[x].kind = "none"
  BY <1>1, <1>2, <1>3 DEF MemoryType, NoJournal
<1> QED BY <1>1, <1>2, <1>4 DEF Unsealed, Fresh, Traced, Published, NoJournal

\* A request finds private work, or finds the window closed: sealing an
\* install closes it in the statement that looks for a request.
LEMMA AskedStays ==
    ASSUME Settled, NEW w \in Workers, StepOf(w), NEW i \in Ids
    PROVE  Asked(i)'
<1>1. /\ FilesType /\ MemoryType /\ Control(w) /\ Sound /\ Asked(i) /\ Asking(w)
  BY DEF Settled, Sound, AllControl, AllAsked, AllAsking
<1>2. activity'[i].requested = activity[i].requested
  BY <1>1, WindowMoves
<1>3. activity'[i].status = "unused" => activity[i].status = "unused"
  BY <1>1, StatusMoves
<1>4. ASSUME activity'[i].status = "cancelled", activity[i].status # "cancelled"
      PROVE  activity[i].requested
  <2>1. activity[i].status = "running" /\ i = op[w] /\ (Finish(w) \/ Settle(w))
    BY <1>1, <1>4, StatusMoves
  <2>2. outcome[w] = "cancelled" \/ Cancelled(i)
    <3>1. CASE Finish(w)
      <4>1. UNCHANGED activity \/
            FinishActivity(i, CASE outcome[w] = "error" -> "failed"
                                [] outcome[w] = "cancelled" -> "cancelled"
                                [] outcome[w] = "ok" /\ Cancelled(i) -> "cancelled"
                                [] OTHER -> "succeeded")
        BY <2>1, <3>1 DEF Finish
      <4>2. CASE outcome[w] # "cancelled" /\ ~Cancelled(i)
        <5>1. UNCHANGED activity \/ FinishActivity(i, "failed") \/ FinishActivity(i, "succeeded")
          BY <4>1, <4>2
        <5> QED BY <1>1, <1>4, <2>1, <5>1 DEF FinishActivity, FilesType
      <4> QED BY <4>2
    <3>2. CASE Settle(w)
      <4>1. FinishActivity(i, CASE outcome[w] = "ok" -> "succeeded"
                               [] outcome[w] = "cancelled" -> "cancelled"
                               [] OTHER -> "failed")
        BY <2>1, <3>2 DEF Settle
      <4>2. CASE outcome[w] # "cancelled"
        <5>1. FinishActivity(i, "failed") \/ FinishActivity(i, "succeeded")
          BY <4>1, <4>2
        <5> QED BY <1>1, <1>4, <2>1, <5>1 DEF FinishActivity, FilesType
      <4> QED BY <4>2
    <3> QED BY <2>1, <3>1, <3>2
  <2> QED BY <1>1, <2>1, <2>2 DEF Asking, Cancelled
<1>5. ASSUME activity'[i].requested \/ activity'[i].window = "preparing"
      PROVE  Unsealed(i)'
  <2>1. CASE \E request \in Requests : Begin(w, i, request)
    BY <1>1, <2>1, BegunUnsealed
  <2>2. CASE ~\E request \in Requests : Begin(w, i, request)
    <3>1. activity[i].requested \/ activity[i].window = "preparing"
      BY <1>1, <1>5, <2>2, WindowMoves
    <3>2. Unsealed(i)
      BY <1>1, <3>1 DEF Asked
    <3> QED BY <1>5, <2>2, <3>2, UnsealedStays
  <2> QED BY <2>1, <2>2
<1>6. ASSUME activity'[i].requested, activity'[i].status = "running"
      PROVE  activity'[i].window = "preparing"
  <2>1. activity[i].requested /\ activity[i].status = "running"
    BY <1>1, <1>2, <1>6, StatusMoves DEF Asked
  <2>2. activity[i].window = "preparing"
    BY <1>1, <2>1 DEF Asked
  <2>3. ~\E request \in Requests : Begin(w, i, request)
    BY <2>1 DEF Begin
  <2> QED BY <1>1, <1>6, <2>1, <2>2, <2>3, WindowMoves
<1> QED BY <1>1, <1>2, <1>3, <1>4, <1>5, <1>6 DEF Asked

\* Every request is for something.
LEMMA RequestsAreOf ==
    ASSUME NEW r \in Requests
    PROVE  r.kind # "none"
BY KnownWorkload DEF Requests

\* A worker reports as cancelled only what was asked to stop.
LEMMA AskingStays ==
    ASSUME Settled, NEW w \in Workers, StepOf(w)
    PROVE  Asking(w)'
<1>1. /\ FilesType /\ MemoryType /\ Control(w) /\ Sound /\ Asking(w) /\ AllRecorded /\ AllAsked
  BY DEF Settled, Sound, AllControl, AllAsking
<1>o. op[w] \in Ids \cup {NoId} /\ op'[w] \in Ids \cup {NoId}
  <2>1. MemoryType'
    BY SoundStep, <1>1 DEF Sound
  <2> QED BY <1>1, <2>1 DEF MemoryType
<1>2. outcome'[w] = "cancelled" => op'[w] # NoId /\ activity'[op'[w]].requested
  <2>1. outcome'[w] = "cancelled" => op'[w] \in Ids /\ activity[op'[w]].requested
    BY <1>1, <1>o, CancelledComes DEF Asking
  <2> QED BY <1>1, <2>1, WindowMoves, DistinctValues
<1>3. CASE \E i \in Ids, request \in Requests : Begin(w, i, request)
  <2>1. PICK i \in Ids, request \in Requests : Begin(w, i, request)
    BY <1>3
  <2>2. /\ op'[w] = i /\ want'[w] = request /\ pc'[w] = "starting" /\ mode'[w] = "run"
        /\ activity[i].status = "unused"
    BY <1>1, <2>1 DEF Begin, MemoryType, Goto
  <2>3. activity'[i].status = "running" /\ (request.kind # "install" => activity'[i].window = "closed")
    <3>1. /\ activity' = [activity EXCEPT ![i].status = "running",
                ![i].window = IF request.kind = "install" THEN "preparing" ELSE "closed"]
          /\ activity[i] \in ActivityType
      BY <1>1, <2>1 DEF Begin, FilesType
    <3>2. activity'[i] = [activity[i] EXCEPT !.status = "running",
                !.window = IF request.kind = "install" THEN "preparing" ELSE "closed"]
      BY <1>1, <3>1 DEF FilesType
    <3> QED BY <3>1, <3>2 DEF ActivityType
  <2> QED BY <1>2, <2>2, <2>3, RequestsAreOf DEF Asking
<1>4. CASE ~\E i \in Ids, request \in Requests : Begin(w, i, request)
  <2>1. ASSUME mode'[w] = "run"
        PROVE  /\ mode[w] = "run" /\ want'[w] = want[w] /\ op'[w] = op[w] /\ op[w] \in Ids
               /\ pc'[w] \in Locked \cup {"starting"} => pc[w] \in Locked \cup {"starting"}
    BY <1>1, <1>4, <2>1, RunStays DEF Control, RunSteps, Locked, Idling, MemoryType
  <2>2. mode'[w] = "run" /\ pc'[w] \in Locked \cup {"starting"} => activity'[op'[w]].status = "running"
    <3>1. SUFFICES ASSUME mode'[w] = "run", pc'[w] \in Locked \cup {"starting"}
                   PROVE  activity'[op'[w]].status = "running"
      OBVIOUS
    <3>2. activity[op[w]].status = "running" /\ pc[w] \in Locked \cup {"starting"}
      BY <1>1, <2>1, <3>1 DEF Asking
    <3>3. ~(Finish(w) \/ Settle(w))
      BY <3>2 DEF Finish, Settle, Running, At, Locked
    <3> QED BY <1>1, <2>1, <3>1, <3>2, <3>3, StatusMoves
  <2>3. op'[w] # NoId /\ pc'[w] # "starting" => activity'[op'[w]].status # "unused"
    <3>1. SUFFICES ASSUME op'[w] \in Ids PROVE activity'[op'[w]].status # "unused"
      BY <1>o
    <3>2. CASE op[w] = op'[w]
      <4>1. pc[w] = "starting" => mode[w] = "run"
        BY <1>1, <3>1, <3>2 DEF Control, CancelSteps, RecoverSteps, MemoryType
      <4>2. activity[op[w]].status # "unused"
        BY <1>1, <3>1, <3>2, <4>1, DistinctValues DEF Asking
      <4> QED BY <1>1, <3>1, <3>2, <4>2, StatusMoves
    <3>3. CASE TakeUpCancellation(w, op'[w])
      <4>1. activity[op'[w]].status # "unused"
        BY <3>3 DEF TakeUpCancellation, Controlled
      <4> QED BY <1>1, <3>1, <4>1, StatusMoves
    <3>4. CASE Resume(w, op'[w])
      <4>1. activity[op'[w]].status # "unused"
        BY <1>1, <3>1, <3>4 DEF Resume, AllRecorded, Recorded, Fresh, NoJournal
      <4> QED BY <1>1, <3>1, <4>1, StatusMoves
    <3> QED BY <1>1, <1>4, <3>1, <3>2, <3>3, <3>4, OpComes
  <2>4. mode'[w] = "run" /\ want'[w].kind # "install" => activity'[op'[w]].window = "closed"
    <3>1. SUFFICES ASSUME mode'[w] = "run", want'[w].kind # "install"
                   PROVE  activity'[op'[w]].window = "closed"
      OBVIOUS
    <3>2. activity[op[w]].window = "closed"
      BY <1>1, <2>1, <3>1 DEF Asking
    <3> QED BY <1>1, <1>4, <2>1, <3>1, <3>2, WindowMoves DEF Cancellable
  <2> QED BY <1>1, <1>2, <2>1, <2>2, <2>3, <2>4 DEF Asking
<1> QED BY <1>3, <1>4

\* No other worker ends the activity of a live one: recovery finishes only
\* activities whose lock nobody holds, and the journals it takes up meanwhile
\* have their outcome counted only if there is none yet.
LEMMA OthersAsking ==
    ASSUME Settled, NEW w \in Workers, StepOf(w), NEW x \in Workers \ {w}
    PROVE  Asking(x)'
<1>1. /\ FilesType /\ MemoryType /\ Control(w) /\ Control(x) /\ Asking(x) /\ AllRecorded /\ Same(x) /\ Pairs
  BY OthersKeepTheirMemory DEF Settled, Sound, AllControl, AllAsking
<1>2. op[x] = NoId \/ op[x] \in Ids
  BY <1>1 DEF MemoryType
<1>3. op[x] \in Ids => activity[op[x]].status # "unused"
  BY <1>1, DistinctValues DEF AllRecorded, Recorded
<1>4. op[x] \in Ids => ~\E request \in Requests : Begin(w, op[x], request)
  BY <1>3 DEF Begin
<1>5. outcome'[x] = "cancelled" => op'[x] # NoId /\ activity'[op'[x]].requested
  BY <1>1, <1>2, WindowMoves DEF Asking, Same
<1>6. ASSUME mode[x] = "run", pc[x] \in Locked \cup {"starting"}
      PROVE  activity'[op[x]].status = "running"
  <2>1. op[x] \in Ids /\ activity[op[x]].status = "running"
    BY <1>1, <1>2, <1>6 DEF Control, Idling, Locked, Asking
  <2>2. ~(op[x] = op[w] /\ (Finish(w) \/ Settle(w)))
    <3>1. SUFFICES ASSUME op[x] = op[w], Finish(w) \/ Settle(w) PROVE FALSE
      OBVIOUS
    <3>2. mode[w] = "recover" /\ ~Early(x)
      BY <1>1, <1>6, <2>1, <3>1, DistinctValues DEF Pairs
    <3>3. Settle(w) /\ pc[w] = "settling"
      BY <3>1, <3>2 DEF Finish, Running, Settle, At
    <3>4. lock = w
      BY <1>1, <3>2, <3>3 DEF Control
    <3> QED BY <1>1, <1>6, <3>2, <3>4 DEF Control, Early
  <2> QED BY <1>1, <2>1, <2>2, StatusMoves
<1>7. op[x] \in Ids => activity'[op[x]].status # "unused"
  BY <1>1, <1>3, StatusMoves
<1>8. ASSUME mode[x] = "run", want[x].kind # "install"
      PROVE  activity'[op[x]].window = "closed"
  <2>1. op[x] \in Ids /\ activity[op[x]].window = "closed"
    BY <1>1, <1>2, <1>8 DEF Control, RunSteps, Locked, Idling, Asking
  <2> QED BY <1>1, <1>4, <2>1, WindowMoves DEF Cancellable
<1> QED BY <1>1, <1>2, <1>5, <1>6, <1>7, <1>8 DEF Same, Asking

\* Every step of a worker keeps the invariant.
LEMMA SettledStep ==
    ASSUME Settled, NEW w \in Workers, StepOf(w)
    PROVE  Settled'
<1>1. Sound'
  BY SoundStep DEF Settled
<1>2. AllAsked'
  BY AskedStays DEF AllAsked
<1>3. AllAsking'
  BY AskingStays, OthersAsking DEF AllAsking
<1> QED BY <1>1, <1>2, <1>3 DEF Settled

\* A request is accepted as long as the window for it is open.
LEMMA SettledCalm ==
    ASSUME Settled, (\E i \in Ids : RequestCancellation(i)) \/ UNCHANGED vars
    PROVE  Settled'
<1>1. /\ Sound' /\ FilesType
      /\ UNCHANGED <<lock, inv, build, version, staging, quarantine, journal, memory>>
      /\ \A i \in Ids : activity'[i].status = activity[i].status
  BY RequestsAreCalm, CalmStep DEF Settled, Sound
<1>2. ASSUME NEW i \in Ids
      PROVE  /\ activity'[i].window = activity[i].window
             /\ \/ activity'[i].requested = activity[i].requested
                \/ activity'[i].requested /\ Cancellable(i)
  <2>1. CASE UNCHANGED vars
    BY <2>1 DEF vars, durable
  <2>2. CASE \E k \in Ids : RequestCancellation(k)
    <3>1. PICK k \in Ids : RequestCancellation(k)
      BY <2>2
    <3>2. activity' = [activity EXCEPT ![k].requested = TRUE] /\ Cancellable(k)
      BY <3>1 DEF RequestCancellation
    <3> QED BY <1>1, <3>2, ZenonT(30) DEF FilesType, ActivityType
  <2> QED BY <2>1, <2>2
<1>3. ASSUME NEW i \in Ids PROVE Asked(i)'
  <2>1. Asked(i)
    BY DEF Settled, AllAsked
  <2>2. Unsealed(i)' <=> Unsealed(i)
    BY <1>1 DEF Unsealed, Published, memory
  <2> QED BY <1>1, <1>2, <2>1, <2>2 DEF Asked, Cancellable
<1>4. ASSUME NEW w \in Workers PROVE Asking(w)'
  <2>1. Asking(w) /\ op[w] \in Ids \cup {NoId} /\ Control(w)
    BY DEF Settled, AllAsking, Sound, MemoryType, AllControl
  <2>2. UNCHANGED <<pc, mode, op, want, draft, outcome>>
    BY <1>1 DEF memory
  <2>3. mode[w] = "run" => op[w] \in Ids
    BY <2>1 DEF Control, RunSteps, Locked, Idling
  <2> QED BY <1>1, <1>2, <2>1, <2>2, <2>3 DEF Asking, Cancellable
<1> QED BY <1>1, <1>3, <1>4 DEF Settled, AllAsked, AllAsking

\* An empty library satisfies the invariant.
LEMMA SettledInit == Init => Settled
<1>1. SUFFICES ASSUME Init PROVE Settled
  OBVIOUS
<1>2. Sound
  BY <1>1, SoundInit
<1>3. AllAsked
  BY <1>1 DEF Init, AllAsked, Asked
<1>4. AllAsking
  BY <1>1 DEF Init, AllAsking, Asking
<1> QED BY <1>2, <1>3, <1>4 DEF Settled

\* The invariant is inductive.
LEMMA SettledNext ==
    ASSUME Settled, [Next]_vars
    PROVE  Settled'
BY NextSteps, SettledStep, SettledCalm

\* The inductive invariant.
THEOREM StaysSettled == Spec => []Settled
<1>1. Settled /\ [Next]_vars => Settled'
  BY SettledNext
<1> QED BY <1>1, SettledInit, PTL DEF Spec

=============================================================================
