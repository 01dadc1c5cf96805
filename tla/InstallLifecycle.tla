-------------------------- MODULE InstallLifecycle --------------------------
(***************************************************************************)
(* The versions of one port in a Portcove library: how they are installed, *)
(* activated, rolled back and removed by several workers (threads of the   *)
(* desktop, runs of the command line), and how the work of a worker that   *)
(* died is cancelled, finished or undone by the next one that starts.      *)
(*                                                                         *)
(* A version lives in three places that no transaction spans: its files    *)
(* (private staging, the version path, a removal's quarantine), its row    *)
(* and pointers in the database, and the journal of the operation that     *)
(* moves it.  Files, rows and journals are therefore written one at a      *)
(* time here, and a worker may stop between any two writes.                *)
(*                                                                         *)
(* One identifier names an operation, its activity, its journal, and, when *)
(* the operation installs something, the installed version.                *)
(***************************************************************************)
CONSTANTS
    Ids,        \* identifiers (UUIDs), each begun at most once
    Builds,     \* release artifacts; a version path is named by its digest
    Workers,    \* threads and processes
    Nobody,     \* the port lock is free
    NoId,       \* a pointer or a path that holds nothing
    NoBuild,    \* the build of an operation that installs nothing
    Workload,   \* the operations workers may begin; "stage" is an install that
                \* leaves the active version alone, "cancel" a request to stop
    Faults      \* the kinds of work whose writes and renames may fail

ASSUME DistinctValues ==
    /\ NoId \notin Ids
    /\ NoBuild \notin Builds
    /\ Nobody \notin Workers
ASSUME KnownWorkload ==
    /\ Workload \subseteq {"install", "stage", "cancel", "activate", "rollback", "remove"}
    /\ Faults \subseteq {"install", "activate", "remove", "activity"}

VARIABLES
    (* the database and the files *)
    lock,        \* who holds the port lock
    inv,         \* install rows of the port and its pointers
    build,       \* [Ids -> the artifact this identifier installs]
    version,     \* [Builds -> the installation whose files are at that path]
    staging,     \* [Ids -> what the private staging directory holds]
    quarantine,  \* [Ids -> the versions a removal has moved aside]
    journal,     \* [Ids -> the lifecycle journal of that operation]
    activity,    \* [Ids -> status, cancellation window, request]
    (* each worker's memory *)
    service,     \* whether it has a service, that is, has once recovered
    pc, mode,    \* what it does next, and why
    op,          \* the operation it works on
    want,        \* the request it serves
    draft,       \* the journal as it has it in memory
    outcome,     \* how its operation is going to end
    todo,        \* identifiers its recovery still has to visit
    seen,        \* what recovery saw of each journal when it listed them
    (* history *)
    retired      \* operations whose journal has been deleted

durable == <<inv, build, version, staging, quarantine, journal, activity>>
files   == <<build, version, staging, quarantine>>
memory  == <<service, pc, mode, op, want, draft, outcome, todo, seen>>
vars    == <<lock, durable, memory, retired>>

-----------------------------------------------------------------------------
(* Values *)

Phases == {"none", "preparing", "prepared", "payload_published",
           "metadata_committed", "cleanup_pending"}

Journal == [kind: {"none", "install", "activate", "remove"}, phase: Phases,
            install: Ids \cup {NoId}, activate: BOOLEAN, removed: SUBSET Ids]

NoJournal == [kind |-> "none", phase |-> "none", install |-> NoId,
              activate |-> FALSE, removed |-> {}]

Begun(kind, i, activate, removed) ==
    [kind |-> kind, phase |-> "preparing", install |-> i,
     activate |-> activate, removed |-> removed]

NoInventory == [registered |-> {}, active |-> NoId, previous |-> NoId,
                staged |-> NoId]

NoRequest == [kind |-> "none", build |-> NoBuild, activate |-> FALSE]

Steps == {"off", "rest",
          "starting", "choosing", "preparing", "sealing",
          "persisting", "publishing", "registering", "cleaning", "reusing",
          "switching", "quarantining", "deregistering", "deleting",
          "discarding", "retiring", "unlocking", "rejournaling", "finishing",
          "listing", "cancelling", "inventory", "recovering", "resuming",
          "settling"}

-----------------------------------------------------------------------------
(* The database transactions on the install rows *)

(* Regression: registering the active version again. *)
RegisterInstallAgain(v, i, activate) ==
    [registered |-> v.registered \cup {i},
     active     |-> IF activate THEN i ELSE v.active,
     previous   |-> IF activate THEN v.active ELSE v.previous,
     staged     |-> IF activate THEN NoId ELSE i]

(* The row is inserted, and is made active or the only staged one.  The    *)
(* version that was active becomes the one rollback returns to.            *)
RegisterInstall(v, i, activate) ==
    [registered |-> v.registered \cup {i},
     active     |-> IF activate THEN i ELSE v.active,
     previous   |-> IF activate /\ v.active # i THEN v.active ELSE v.previous,
     staged     |-> IF activate THEN NoId ELSE i]

ActivateStaged(v) ==
    [v EXCEPT !.active   = v.staged,
              !.previous = IF v.active = v.staged THEN v.previous ELSE v.active,
              !.staged   = NoId]

SwapPrevious(v) == [v EXCEPT !.active = v.previous, !.previous = v.active]

(* Every row of the port goes, whichever operation wrote it. *)
RemovePort == NoInventory

-----------------------------------------------------------------------------
(* Files.  The manifest at a version path names the installation it is of, *)
(* so a path that holds another one fails verification.                    *)

Live(i) == version[build[i]] = i
Vacant(b) == version[b] = NoId

(* require_retained_outputs: each recorded version is at its path or in    *)
(* the quarantine, as the phase allows, and never at both.                 *)
RetainedOutputs(r, j) ==
    \A i \in j.removed :
        \/ j.phase = "preparing" /\ Live(i) /\ i \notin quarantine[r]
        \/ Vacant(build[i]) /\ i \in quarantine[r]
        \/ /\ j.phase \in {"metadata_committed", "cleanup_pending"}
           /\ Vacant(build[i]) /\ i \notin quarantine[r]

-----------------------------------------------------------------------------
(* Activities.  An owner holds the lock of its activity until it finishes, *)
(* so that a live worker is never taken for a dead one.                    *)

ActivityHeld(i) == \E w \in Workers : op[w] = i /\ mode[w] # "recover"

Cancellable(i) == activity[i].status = "running" /\ activity[i].window = "preparing"
Cancelled(i) == Cancellable(i) /\ activity[i].requested

(* close_preparation: one conditional UPDATE, so a request either comes    *)
(* first and wins or finds the window closed.                              *)
ClosePreparation(i) ==
    activity' = IF Cancellable(i)
                THEN [activity EXCEPT ![i].window = "finishing"] ELSE activity

FinishActivityAgain(i, status) ==  \* regression
    activity' = [activity EXCEPT ![i] = [status |-> status, window |-> "closed",
                                         requested |-> @.requested]]

FinishActivityUnknown(i, status) ==  \* regression
    activity' = [activity EXCEPT ![i].status =
                   IF status = "failed" THEN "error" ELSE status]

FinishActivity(i, status) ==
    activity' = IF activity[i].status = "running"
                THEN [activity EXCEPT ![i] = [status |-> status,
                        window |-> "closed", requested |-> @.requested]]
                ELSE activity

-----------------------------------------------------------------------------
(* Workers *)

Put(i, j) == journal' = [journal EXCEPT ![i] = j]
Goto(w, step) == pc' = [pc EXCEPT ![w] = step]
Hold(w, j) == draft' = [draft EXCEPT ![w] = j]
Result(w, o) == outcome' = [outcome EXCEPT ![w] = o]
InMemory(w, phase) == draft' = [draft EXCEPT ![w].phase = phase]
Released(w) == IF lock = w THEN Nobody ELSE lock

MayFail(w) == draft[w].kind \in Faults

At(w, step) == pc[w] = step
Running(w, step) == mode[w] = "run" /\ pc[w] = step
Serving(w, kind, step) == Running(w, step) /\ want[w].kind = kind

(* Where an operation goes on from once its journal is stored, and where   *)
(* recovery takes it up from the stored phase.                             *)
InstallStep(phase) ==
    CASE phase = "preparing"          -> "preparing"
      [] phase = "prepared"           -> "publishing"
      [] phase = "payload_published"  -> "registering"
      [] phase = "metadata_committed" -> "cleaning"
      [] OTHER                        -> "unlocking"

ActivationStep(phase) ==
    CASE phase = "preparing"          -> "switching"
      [] phase = "metadata_committed" -> "retiring"

RemovalStepDeleting(phase) ==  \* regression: files before rows
    CASE phase = "preparing"          -> "quarantining"
      [] phase = "payload_published"  -> "deleting"
      [] OTHER                        -> "unlocking"

RemovalStepForgetting(phase) ==  \* regression: the journal before the files
    CASE phase = "preparing"          -> "quarantining"
      [] phase = "payload_published"  -> "deregistering"
      [] phase = "metadata_committed" -> "retiring"
      [] OTHER                        -> "unlocking"

RemovalStep(phase) ==
    CASE phase = "preparing"          -> "quarantining"
      [] phase = "payload_published"  -> "deregistering"
      [] phase = "metadata_committed" -> "deleting"
      [] OTHER                        -> "unlocking"

After(j) == CASE j.kind = "install"  -> InstallStep(j.phase)
              [] j.kind = "activate" -> ActivationStep(j.phase)
              [] j.kind = "remove"   -> RemovalStep(j.phase)

Init ==
    /\ lock = Nobody
    /\ inv = NoInventory
    /\ build = [i \in Ids |-> NoBuild]
    /\ version = [b \in Builds |-> NoId]
    /\ staging = [i \in Ids |-> "none"]
    /\ quarantine = [i \in Ids |-> {}]
    /\ journal = [i \in Ids |-> NoJournal]
    /\ activity = [i \in Ids |-> [status |-> "unused", window |-> "closed",
                                  requested |-> FALSE]]
    /\ service = [w \in Workers |-> FALSE]
    /\ pc = [w \in Workers |-> "off"]
    /\ mode = [w \in Workers |-> "none"]
    /\ op = [w \in Workers |-> NoId]
    /\ want = [w \in Workers |-> NoRequest]
    /\ draft = [w \in Workers |-> NoJournal]
    /\ outcome = [w \in Workers |-> "none"]
    /\ todo = [w \in Workers |-> {}]
    /\ seen = [w \in Workers |-> [i \in Ids |-> "absent"]]
    /\ retired = {}

-----------------------------------------------------------------------------
(* Beginning an operation *)

(* The activity row is written and its cancellation window opened. *)
Begin(w, i, request) ==
    /\ pc[w] = "rest"
    /\ activity[i].status = "unused"
    /\ activity' = [activity EXCEPT ![i].status = "running",
                      ![i].window = IF request.kind = "install"
                                    THEN "preparing" ELSE "closed"]
    /\ mode' = [mode EXCEPT ![w] = "run"]
    /\ op' = [op EXCEPT ![w] = i]
    /\ want' = [want EXCEPT ![w] = request]
    /\ Result(w, "ok")
    /\ Goto(w, "starting")
    /\ UNCHANGED <<lock, inv, files, journal, service, draft, todo, seen, retired>>

TryLockPort(w) ==
    /\ Running(w, "starting")
    /\ lock = Nobody
    /\ lock' = w
    /\ Goto(w, "choosing")
    /\ UNCHANGED <<durable, service, mode, op, want, draft, outcome, todo, seen, retired>>

(* Anything that fails before the operation has a journal, a busy port     *)
(* among it, just ends the operation.                                      *)
Refuse(w) ==
    /\ mode[w] = "run"
    /\ \/ pc[w] \in {"starting", "choosing", "reusing"}
       \/ pc[w] = "persisting" /\ draft[w].phase = "preparing" /\ MayFail(w)
    /\ Hold(w, NoJournal)
    /\ Result(w, "error")
    /\ Goto(w, "unlocking")
    /\ UNCHANGED <<lock, durable, service, mode, op, want, todo, seen, retired>>

(* A checkpoint of an install that finds a request to cancel it. *)
StopCancelled(w) ==
    /\ mode[w] = "run"
    /\ pc[w] \in {"choosing", "preparing", "sealing"}
    /\ Cancelled(op[w])
    /\ Result(w, "cancelled")
    /\ Goto(w, IF pc[w] = "choosing" THEN "unlocking" ELSE "discarding")
    /\ UNCHANGED <<lock, durable, service, mode, op, want, draft, todo, seen, retired>>

-----------------------------------------------------------------------------
(* Installing: what to do with the release that was resolved *)

(* An active version whose manifest cannot be read refuses every install.  *)
Choosing(w) ==
    /\ Serving(w, "install", "choosing")
    /\ ~Cancelled(op[w])
    /\ inv.active # NoId => Live(inv.active)

Wanted(w, i) == i \in inv.registered /\ build[i] = want[w].build

KeepActive(w) ==
    /\ Choosing(w)
    /\ Wanted(w, inv.active)
    /\ Goto(w, "unlocking")
    /\ UNCHANGED <<lock, durable, service, mode, op, want, draft, outcome, todo, seen, retired>>

ReuseStaged(w) ==
    /\ Choosing(w)
    /\ ~Wanted(w, inv.active) /\ Wanted(w, inv.staged) /\ Live(inv.staged)
    /\ ClosePreparation(op[w])
    /\ IF want[w].activate
       THEN Hold(w, Begun("activate", inv.staged, FALSE, {})) /\ Goto(w, "persisting")
       ELSE UNCHANGED draft /\ Goto(w, "unlocking")
    /\ UNCHANGED <<lock, inv, files, journal, service, mode, op, want, outcome, todo, seen, retired>>

ReuseRetained(w) ==
    /\ Choosing(w)
    /\ ~Wanted(w, inv.active) /\ ~Wanted(w, inv.staged)
    /\ \E i \in inv.registered :
         /\ Wanted(w, i) /\ Live(i)
         /\ draft' = [draft EXCEPT ![w].install = i]
    /\ ClosePreparation(op[w])
    /\ Goto(w, "reusing")
    /\ UNCHANGED <<lock, inv, files, journal, service, mode, op, want, outcome, todo, seen, retired>>

RegisterRetained(w) ==
    /\ Running(w, "reusing")
    /\ inv' = RegisterInstall(inv, draft[w].install, want[w].activate)
    /\ Hold(w, NoJournal)
    /\ Goto(w, "unlocking")
    /\ UNCHANGED <<lock, files, journal, activity, service, mode, op, want, outcome, todo, seen, retired>>

(* The path of the new version has to be vacant.  The journal binds the    *)
(* staging directory and that path before either is touched.               *)
StartInstall(w) ==
    /\ Choosing(w)
    /\ \A i \in inv.registered : ~Wanted(w, i)
    /\ Vacant(want[w].build)
    /\ build' = [build EXCEPT ![op[w]] = want[w].build]
    /\ Hold(w, Begun("install", NoId, want[w].activate, {}))
    /\ Goto(w, "persisting")
    /\ UNCHANGED <<lock, inv, version, staging, quarantine, journal, activity,
                   service, mode, op, want, outcome, todo, seen, retired>>

-----------------------------------------------------------------------------
(* Journals: every stored phase is written by this action *)

Persist(w) ==
    /\ pc[w] = "persisting"
    /\ Put(op[w], draft[w])
    /\ Goto(w, After(draft[w]))
    /\ UNCHANGED <<lock, inv, files, activity, service, mode, op, want, draft, outcome, todo, seen, retired>>

Retire(w) ==
    /\ pc[w] = "retiring"
    /\ Put(op[w], NoJournal)
    /\ retired' = retired \cup {op[w]}
    /\ Goto(w, IF mode[w] = "run" THEN "unlocking" ELSE "settling")
    /\ UNCHANGED <<lock, inv, files, activity, service, mode, op, want, draft, outcome, todo, seen>>

-----------------------------------------------------------------------------
(* The install transaction, run by its owner or taken up by recovery *)

PreparePayload(w) ==
    /\ Running(w, "preparing")
    /\ staging' = [staging EXCEPT ![op[w]] = "payload"]
    /\ Goto(w, "sealing")
    /\ UNCHANGED <<lock, inv, build, version, quarantine, journal, activity,
                   service, mode, op, want, draft, outcome, todo, seen, retired>>

(* Regression: the payload is published before the journal says prepared. *)
SealPayloadUnstored(w) ==
    /\ Running(w, "sealing")
    /\ ~Cancelled(op[w])
    /\ ClosePreparation(op[w])
    /\ draft' = [draft EXCEPT ![w].phase = "prepared", ![w].install = op[w]]
    /\ Goto(w, "publishing")
    /\ UNCHANGED <<lock, inv, files, journal, service, mode, op, want, outcome, todo, seen, retired>>

(* Regression: a request to cancel is still accepted once it is sealed. *)
SealPayloadOpen(w) ==
    /\ Running(w, "sealing")
    /\ ~Cancelled(op[w])
    /\ draft' = [draft EXCEPT ![w].phase = "prepared", ![w].install = op[w]]
    /\ Goto(w, "persisting")
    /\ UNCHANGED <<lock, inv, files, journal, activity, service, mode, op, want, outcome, todo, seen, retired>>

(* begin_publication and then the in-memory half of recording the verified *)
(* install.                                                                *)
SealPayload(w) ==
    /\ Running(w, "sealing")
    /\ ~Cancelled(op[w])
    /\ ClosePreparation(op[w])
    /\ draft' = [draft EXCEPT ![w].phase = "prepared", ![w].install = op[w]]
    /\ Goto(w, "persisting")
    /\ UNCHANGED <<lock, inv, files, journal, service, mode, op, want, outcome, todo, seen, retired>>

PublishPayload(w) ==
    /\ At(w, "publishing")
    /\ staging[op[w]] = "payload"
    /\ Vacant(build[op[w]])
    /\ version' = [version EXCEPT ![build[op[w]]] = op[w]]
    /\ staging' = [staging EXCEPT ![op[w]] = "spent"]
    /\ InMemory(w, "payload_published")
    /\ Goto(w, "persisting")
    /\ UNCHANGED <<lock, inv, build, quarantine, journal, activity,
                   service, mode, op, want, outcome, todo, seen, retired>>

(* Recovery finds the rename done although the journal does not say so. *)
AcceptPublished(w) ==
    /\ At(w, "publishing") /\ mode[w] = "recover"
    /\ staging[op[w]] # "payload"
    /\ ~Vacant(build[op[w]])
    /\ InMemory(w, "payload_published")
    /\ Goto(w, "persisting")
    /\ UNCHANGED <<lock, durable, service, mode, op, want, outcome, todo, seen, retired>>

RegisterPublished(w) ==
    /\ At(w, "registering")
    /\ mode[w] = "recover" => Live(op[w])
    /\ inv' = RegisterInstall(inv, draft[w].install, draft[w].activate)
    /\ InMemory(w, "metadata_committed")
    /\ Goto(w, "persisting")
    /\ UNCHANGED <<lock, files, journal, activity, service, mode, op, want, outcome, todo, seen, retired>>

RemoveStaging(w) ==
    /\ At(w, "cleaning")
    /\ staging' = [staging EXCEPT ![op[w]] = "none"]
    /\ Goto(w, "retiring")
    /\ UNCHANGED <<lock, inv, build, version, quarantine, journal, activity,
                   service, mode, op, want, draft, outcome, todo, seen, retired>>

(* Files that cannot be deleted now are left to a later recovery, and the  *)
(* operation still succeeds.                                               *)
RetainCleanup(w) ==
    /\ mode[w] = "run" /\ pc[w] \in {"cleaning", "deleting"}
    /\ MayFail(w)
    /\ InMemory(w, "cleanup_pending")
    /\ Goto(w, "persisting")
    /\ UNCHANGED <<lock, durable, service, mode, op, want, outcome, todo, seen, retired>>

(* Before publication a failure throws the private work away, files first. *)
FailPrivately(w) ==
    /\ mode[w] = "run" /\ pc[w] \in {"preparing", "sealing"}
    /\ Result(w, "error")
    /\ Goto(w, "discarding")
    /\ UNCHANGED <<lock, durable, service, mode, op, want, draft, todo, seen, retired>>

DiscardPrivate(w) ==
    /\ At(w, "discarding")
    /\ staging' = [staging EXCEPT ![op[w]] = "none"]
    /\ Goto(w, "retiring")
    /\ UNCHANGED <<lock, inv, build, version, quarantine, journal, activity,
                   service, mode, op, want, draft, outcome, todo, seen, retired>>

(* Private work that cannot be deleted: a cancelled install keeps its      *)
(* journal as it is, a failed one records that cleanup is due.             *)
RetainPrivate(w) ==
    /\ mode[w] = "run" /\ pc[w] \in {"discarding", "retiring"}
    /\ draft[w].kind = "install" /\ draft[w].phase = "preparing"
    /\ MayFail(w)
    /\ IF outcome[w] = "cancelled"
       THEN UNCHANGED draft /\ Goto(w, "unlocking")
       ELSE InMemory(w, "cleanup_pending") /\ Goto(w, "persisting")
    /\ UNCHANGED <<lock, durable, service, mode, op, want, outcome, todo, seen, retired>>

-----------------------------------------------------------------------------
(* Activating the staged version, and rolling back *)

BeginActivation(w) ==
    /\ Serving(w, "activate", "choosing")
    /\ inv.staged # NoId
    /\ Live(inv.staged)
    /\ inv.active # NoId => Live(inv.active)
    /\ Hold(w, Begun("activate", inv.staged, FALSE, {}))
    /\ Goto(w, "persisting")
    /\ UNCHANGED <<lock, durable, service, mode, op, want, outcome, todo, seen, retired>>

SwitchPointers(w) ==
    /\ At(w, "switching")
    /\ \/ inv.staged = draft[w].install
       \/ inv.active = draft[w].install /\ mode[w] = "recover"
    /\ mode[w] = "recover" => Live(draft[w].install)
    /\ inv' = IF mode[w] = "recover" /\ inv.active = draft[w].install
              THEN inv ELSE ActivateStaged(inv)
    /\ InMemory(w, "metadata_committed")
    /\ Goto(w, "persisting")
    /\ UNCHANGED <<lock, files, journal, activity, service, mode, op, want, outcome, todo, seen, retired>>

RollBack(w) ==
    /\ Serving(w, "rollback", "choosing")
    /\ inv.previous # NoId
    /\ Live(inv.previous)
    /\ inv.active # NoId => Live(inv.active)
    /\ inv' = SwapPrevious(inv)
    /\ Goto(w, "unlocking")
    /\ UNCHANGED <<lock, files, journal, activity, service, mode, op, want, draft, outcome, todo, seen, retired>>

-----------------------------------------------------------------------------
(* Removing the port *)

(* The reviewed rows, each still verified, are what the journal binds. *)
BeginRemoval(w) ==
    /\ Serving(w, "remove", "choosing")
    /\ inv.registered # {}
    /\ \A i \in inv.registered : Live(i)
    /\ Hold(w, Begun("remove", NoId, FALSE, inv.registered))
    /\ Goto(w, "persisting")
    /\ UNCHANGED <<lock, durable, service, mode, op, want, outcome, todo, seen, retired>>

Quarantine(w) ==
    /\ At(w, "quarantining")
    /\ mode[w] = "recover" => RetainedOutputs(op[w], draft[w])
    /\ \E i \in draft[w].removed \ quarantine[op[w]] :
         /\ ~Vacant(build[i])
         /\ version' = [version EXCEPT ![build[i]] = NoId]
         /\ quarantine' = [quarantine EXCEPT ![op[w]] = @ \cup {i}]
    /\ UNCHANGED <<lock, inv, build, staging, journal, activity, memory, retired>>

FinishQuarantine(w) ==
    /\ At(w, "quarantining")
    /\ mode[w] = "recover" => RetainedOutputs(op[w], draft[w])
    /\ draft[w].removed \subseteq quarantine[op[w]]
    /\ InMemory(w, "payload_published")
    /\ Goto(w, "persisting")
    /\ UNCHANGED <<lock, durable, service, mode, op, want, outcome, todo, seen, retired>>

Deregister(w) ==
    /\ At(w, "deregistering")
    /\ RetainedOutputs(op[w], draft[w])
    /\ inv' = RemovePort
    /\ InMemory(w, "metadata_committed")
    /\ Goto(w, "persisting")
    /\ UNCHANGED <<lock, files, journal, activity, service, mode, op, want, outcome, todo, seen, retired>>

DeleteQuarantine(w) ==
    /\ At(w, "deleting")
    /\ RetainedOutputs(op[w], draft[w])
    /\ quarantine' = [quarantine EXCEPT ![op[w]] = {}]
    /\ Goto(w, "retiring")
    /\ UNCHANGED <<lock, inv, build, version, staging, journal, activity,
                   service, mode, op, want, draft, outcome, todo, seen, retired>>

-----------------------------------------------------------------------------
(* Failing once a journal exists.  The phase in memory may be ahead of the *)
(* stored one: it moves before the write that stores it, which can fail.   *)

MaybePut(w) == UNCHANGED journal \/ Put(op[w], draft[w])

FailSealed(w) ==
    /\ mode[w] = "run" /\ MayFail(w)
    /\ draft[w].kind = "install" /\ draft[w].phase # "preparing"
    /\ pc[w] \in {"persisting", "publishing", "registering", "retiring"}
    /\ MaybePut(w)
    /\ Result(w, "error")
    /\ Goto(w, "unlocking")
    /\ UNCHANGED <<lock, inv, files, activity, service, mode, op, want, draft, todo, seen, retired>>

(* Before the pointers move the activation is simply forgotten. *)
FailActivation(w) ==
    /\ mode[w] = "run" /\ MayFail(w)
    /\ draft[w].kind = "activate"
    /\ \/ pc[w] \in {"switching", "retiring"}
       \/ pc[w] = "persisting" /\ draft[w].phase # "preparing"
    /\ \/ UNCHANGED <<journal, retired>>
       \/ /\ draft[w].phase = "preparing"
          /\ Put(op[w], NoJournal)
          /\ retired' = retired \cup {op[w]}
       \/ /\ draft[w].phase # "preparing"
          /\ Put(op[w], draft[w])
          /\ UNCHANGED retired
    /\ Result(w, "error")
    /\ Goto(w, "unlocking")
    /\ UNCHANGED <<lock, inv, files, activity, service, mode, op, want, draft, todo, seen>>

FailRemoval(w) ==
    /\ mode[w] = "run" /\ MayFail(w)
    /\ draft[w].kind = "remove"
    /\ \/ pc[w] \in {"quarantining", "deregistering", "deleting", "retiring"}
       \/ pc[w] = "persisting" /\ draft[w].phase # "preparing"
    /\ Result(w, "error")
    /\ Goto(w, "unlocking")
    /\ UNCHANGED <<lock, durable, service, mode, op, want, draft, todo, seen, retired>>

-----------------------------------------------------------------------------
(* Ending an operation *)

(* Regression: a failed install writes its journal after the lock, too. *)
UnlockPortInstalling(w) ==
    /\ Running(w, "unlocking")
    /\ lock' = Released(w)
    /\ Goto(w, IF draft[w].kind # "none" /\ outcome[w] = "error"
               THEN "rejournaling" ELSE "finishing")
    /\ UNCHANGED <<durable, service, mode, op, want, draft, outcome, todo, seen, retired>>

(* The port lock goes first.  Only then does a removal that failed after   *)
(* its intent was stored write its journal once more, with the error.      *)
UnlockPort(w) ==
    /\ Running(w, "unlocking")
    /\ lock' = Released(w)
    /\ Goto(w, IF draft[w].kind = "remove" /\ outcome[w] = "error"
               THEN "rejournaling" ELSE "finishing")
    /\ UNCHANGED <<durable, service, mode, op, want, draft, outcome, todo, seen, retired>>

Rejournal(w) ==
    /\ Running(w, "rejournaling")
    /\ \/ Put(op[w], draft[w])
       \/ MayFail(w) /\ UNCHANGED journal
    /\ Goto(w, "finishing")
    /\ UNCHANGED <<lock, inv, files, activity, service, mode, op, want, draft, outcome, todo, seen, retired>>

Idle(w, step) ==
    /\ Goto(w, step)
    /\ mode' = [mode EXCEPT ![w] = "none"]
    /\ op' = [op EXCEPT ![w] = NoId]
    /\ want' = [want EXCEPT ![w] = NoRequest]
    /\ Hold(w, NoJournal)
    /\ Result(w, "none")
    /\ todo' = [todo EXCEPT ![w] = {}]
    /\ seen' = [seen EXCEPT ![w] = [i \in Ids |-> "absent"]]

(* finish_activity: success closes the window first, so that a request     *)
(* that came before it still wins.  The write may fail.                    *)
Finish(w) ==
    /\ Running(w, "finishing")
    /\ \/ FinishActivity(op[w],
            CASE outcome[w] = "error" -> "failed"
              [] outcome[w] = "cancelled" -> "cancelled"
              [] outcome[w] = "ok" /\ Cancelled(op[w]) -> "cancelled"
              [] OTHER -> "succeeded")
       \/ "activity" \in Faults /\ UNCHANGED activity
    /\ Idle(w, "rest")
    /\ UNCHANGED <<lock, inv, files, journal, service, retired>>

RequestCancellation(i) ==
    /\ "cancel" \in Workload
    /\ Cancellable(i) /\ ~activity[i].requested
    /\ activity' = [activity EXCEPT ![i].requested = TRUE]
    /\ UNCHANGED <<lock, inv, files, journal, memory, retired>>

(* A process ends, in the middle of anything or at rest.  The operating    *)
(* system releases its locks.                                              *)
Crash(w) ==
    /\ pc[w] # "off"
    /\ Idle(w, "off")
    /\ service' = [service EXCEPT ![w] = FALSE]
    /\ lock' = Released(w)
    /\ UNCHANGED <<durable, retired>>

-----------------------------------------------------------------------------
(* Recovery: when a service is made, and when a long-lived one looks for   *)
(* work that other processes left behind.  First the activities that were  *)
(* cancellable, then the journals.                                         *)

Controlled(i) == activity[i].status = "running" /\ activity[i].window # "closed"
IsPrivate(j) == j.kind = "install" /\ j.phase = "preparing"
Sight(j) == IF j.kind = "none" THEN "absent"
            ELSE IF IsPrivate(j) THEN "private" ELSE "other"

StartRecovery(w) ==
    /\ pc[w] \in {"off", "rest"}
    /\ mode' = [mode EXCEPT ![w] = "cancel"]
    /\ todo' = [todo EXCEPT ![w] = {i \in Ids : Controlled(i)}]
    /\ Goto(w, "listing")
    /\ UNCHANGED <<lock, durable, service, op, want, draft, outcome, seen, retired>>

ListJournals(w) ==
    /\ At(w, "listing")
    /\ seen' = [seen EXCEPT ![w] = [i \in Ids |->
                  IF i \in todo[w] THEN Sight(journal[i]) ELSE "absent"]]
    /\ Goto(w, "cancelling")
    /\ UNCHANGED <<lock, durable, service, mode, op, want, draft, outcome, todo, retired>>

Visited(w, i) == todo' = [todo EXCEPT ![w] = @ \ {i}]

SkipCancellation(w, i) ==
    /\ At(w, "cancelling") /\ i \in todo[w]
    /\ \/ ActivityHeld(i)
       \/ ~Controlled(i)
       \/ seen[w][i] = "other"
       \/ seen[w][i] = "private" /\ (lock # Nobody \/ journal[i].kind = "none")
    /\ Visited(w, i)
    /\ UNCHANGED <<lock, durable, service, pc, mode, op, want, draft, outcome, seen, retired>>

(* Regression: what was listed as private is not looked at again. *)
TakeUpCancellationListed(w, i) ==
    /\ At(w, "cancelling") /\ i \in todo[w]
    /\ ~ActivityHeld(i) /\ Controlled(i)
    /\ op' = [op EXCEPT ![w] = i]
    /\ Result(w, IF activity[i].requested THEN "cancelled" ELSE "error")
    /\ Visited(w, i)
    /\ \/ /\ seen[w][i] = "private" /\ lock = Nobody
          /\ lock' = w
          /\ Hold(w, journal[i])
          /\ Goto(w, "discarding")
       \/ /\ seen[w][i] = "absent"
          /\ Goto(w, "settling")
          /\ UNCHANGED <<lock, draft>>
    /\ UNCHANGED <<durable, service, mode, want, seen, retired>>

(* An interrupted preparation is discarded under the activity's lock and   *)
(* the port's; an activity that had no journal when they were listed is    *)
(* just finished.                                                          *)
TakeUpCancellation(w, i) ==
    /\ At(w, "cancelling") /\ i \in todo[w]
    /\ ~ActivityHeld(i) /\ Controlled(i)
    /\ op' = [op EXCEPT ![w] = i]
    /\ Result(w, IF activity[i].requested THEN "cancelled" ELSE "error")
    /\ Visited(w, i)
    /\ \/ /\ seen[w][i] = "private" /\ lock = Nobody /\ IsPrivate(journal[i])
          /\ lock' = w
          /\ Hold(w, journal[i])
          /\ Goto(w, "discarding")
       \/ /\ seen[w][i] = "absent"
          /\ Goto(w, "settling")
          /\ UNCHANGED <<lock, draft>>
    /\ UNCHANGED <<durable, service, mode, want, seen, retired>>

(* A private journal that has moved on since it was listed, or a failure,  *)
(* ends the whole recovery; a new service is not made.                     *)
AbandonRecovery(w) ==
    /\ mode[w] = "cancel"
    /\ \/ "activity" \in Faults
       \/ /\ At(w, "cancelling")
          /\ \E i \in todo[w] :
               /\ ~ActivityHeld(i) /\ Controlled(i)
               /\ seen[w][i] = "private" /\ lock = Nobody
               /\ Sight(journal[i]) = "other"
    /\ Idle(w, IF service[w] THEN "rest" ELSE "off")
    /\ lock' = Released(w)
    /\ UNCHANGED <<durable, service, retired>>

InventoryJournals(w) ==
    /\ At(w, "cancelling") /\ todo[w] = {}
    /\ mode' = [mode EXCEPT ![w] = "recover"]
    /\ todo' = [todo EXCEPT ![w] = {i \in Ids : journal[i].kind # "none"}]
    /\ seen' = [seen EXCEPT ![w] = [i \in Ids |-> "absent"]]
    /\ Goto(w, "recovering")
    /\ UNCHANGED <<lock, durable, service, op, want, draft, outcome, retired>>

SkipJournal(w, i) ==
    /\ At(w, "recovering") /\ i \in todo[w]
    /\ lock # Nobody \/ journal[i].kind = "none"
    /\ Visited(w, i)
    /\ UNCHANGED <<lock, durable, service, pc, mode, op, want, draft, outcome, seen, retired>>

DueCleanup(j) == j.kind = "install" /\ j.phase = "cleanup_pending" /\ j.install = NoId

(* Unvalidated private work is no permission to publish: it stays. *)
ResumeAt(j) ==
    CASE IsPrivate(j)   -> "resuming"
      [] DueCleanup(j)  -> "discarding"
      [] j.kind = "install" /\ j.phase = "cleanup_pending" /\ ~DueCleanup(j) -> "cleaning"
      [] j.kind = "remove" /\ j.phase = "cleanup_pending"  -> "deleting"
      [] OTHER          -> After(j)

(* Regression: recovery does not ask for the port lock. *)
ResumeUnlocked(w, i) ==
    /\ At(w, "recovering") /\ i \in todo[w]
    /\ journal[i].kind # "none"
    /\ op' = [op EXCEPT ![w] = i]
    /\ Hold(w, journal[i])
    /\ Result(w, IF DueCleanup(journal[i]) THEN "error" ELSE "ok")
    /\ Goto(w, ResumeAt(journal[i]))
    /\ Visited(w, i)
    /\ UNCHANGED <<lock, durable, service, mode, want, seen, retired>>

(* The list only discovers candidates: what is resumed is the journal as   *)
(* it is under the port lock.                                              *)
Resume(w, i) ==
    /\ At(w, "recovering") /\ i \in todo[w]
    /\ lock = Nobody /\ journal[i].kind # "none"
    /\ lock' = w
    /\ op' = [op EXCEPT ![w] = i]
    /\ Hold(w, journal[i])
    /\ Result(w, IF DueCleanup(journal[i]) THEN "error" ELSE "ok")
    /\ Goto(w, ResumeAt(journal[i]))
    /\ Visited(w, i)
    /\ UNCHANGED <<durable, service, mode, want, seen, retired>>

(* What recovery cannot decide, or fails to do, stays journaled. *)
LeaveForReview(w) ==
    /\ mode[w] = "recover" /\ op[w] # NoId /\ pc[w] # "settling"
    /\ lock' = Released(w)
    /\ op' = [op EXCEPT ![w] = NoId]
    /\ Hold(w, NoJournal)
    /\ Result(w, "none")
    /\ Goto(w, "recovering")
    /\ UNCHANGED <<durable, service, mode, want, todo, seen, retired>>

(* The outcome counts only if the activity has none yet. *)
Settle(w) ==
    /\ At(w, "settling")
    /\ FinishActivity(op[w], CASE outcome[w] = "ok" -> "succeeded"
                               [] outcome[w] = "cancelled" -> "cancelled"
                               [] OTHER -> "failed")
    /\ lock' = Released(w)
    /\ op' = [op EXCEPT ![w] = NoId]
    /\ Hold(w, NoJournal)
    /\ Result(w, "none")
    /\ Goto(w, IF mode[w] = "recover" THEN "recovering" ELSE "cancelling")
    /\ UNCHANGED <<inv, files, journal, service, mode, want, todo, seen, retired>>

EndRecovery(w) ==
    /\ At(w, "recovering") /\ todo[w] = {}
    /\ service' = [service EXCEPT ![w] = TRUE]
    /\ Idle(w, "rest")
    /\ UNCHANGED <<lock, durable, retired>>

-----------------------------------------------------------------------------
Requests ==
    [kind: Workload \cap {"install"}, build: Builds, activate: {TRUE}] \cup
    [kind: {"install" : x \in Workload \cap {"stage"}}, build: Builds, activate: {FALSE}] \cup
    [kind: Workload \cap {"activate", "rollback", "remove"}, build: {NoBuild},
     activate: {FALSE}]

Own(w) ==
    \/ \E i \in Ids, request \in Requests : Begin(w, i, request)
    \/ TryLockPort(w) \/ Refuse(w) \/ StopCancelled(w)
    \/ KeepActive(w) \/ ReuseStaged(w) \/ ReuseRetained(w)
    \/ RegisterRetained(w) \/ StartInstall(w)
    \/ PreparePayload(w) \/ SealPayload(w) \/ RetainCleanup(w)
    \/ FailPrivately(w) \/ RetainPrivate(w)
    \/ BeginActivation(w) \/ RollBack(w) \/ BeginRemoval(w)
    \/ FailSealed(w) \/ FailActivation(w) \/ FailRemoval(w)
    \/ UnlockPort(w) \/ Rejournal(w) \/ Finish(w)

Transact(w) ==
    \/ Persist(w) \/ Retire(w)
    \/ PublishPayload(w) \/ AcceptPublished(w) \/ RegisterPublished(w)
    \/ RemoveStaging(w) \/ DiscardPrivate(w) \/ SwitchPointers(w)
    \/ Quarantine(w) \/ FinishQuarantine(w) \/ Deregister(w)
    \/ DeleteQuarantine(w)

Recover(w) ==
    \/ StartRecovery(w) \/ ListJournals(w) \/ AbandonRecovery(w)
    \/ \E i \in Ids : SkipCancellation(w, i) \/ TakeUpCancellation(w, i)
    \/ InventoryJournals(w)
    \/ \E i \in Ids : SkipJournal(w, i) \/ Resume(w, i)
    \/ LeaveForReview(w) \/ Settle(w) \/ EndRecovery(w)

Next ==
    \/ \E w \in Workers : Own(w) \/ Transact(w) \/ Recover(w) \/ Crash(w)
    \/ \E i \in Ids : RequestCancellation(i)

Spec == Init /\ [][Next]_vars

-----------------------------------------------------------------------------
(* Properties *)

Statuses == {"unused", "running", "succeeded", "failed", "cancelled"}

(* Every variable keeps its type. *)
TypeOK ==
    /\ lock \in Workers \cup {Nobody}
    /\ inv \in [registered: SUBSET Ids, active: Ids \cup {NoId},
                previous: Ids \cup {NoId}, staged: Ids \cup {NoId}]
    /\ build \in [Ids -> Builds \cup {NoBuild}]
    /\ version \in [Builds -> Ids \cup {NoId}]
    /\ staging \in [Ids -> {"none", "payload", "spent"}]
    /\ quarantine \in [Ids -> SUBSET Ids]
    /\ journal \in [Ids -> Journal]
    /\ activity \in [Ids -> [status: Statuses, requested: BOOLEAN,
                             window: {"closed", "preparing", "finishing"}]]
    /\ service \in [Workers -> BOOLEAN]
    /\ pc \in [Workers -> Steps]
    /\ mode \in [Workers -> {"none", "run", "cancel", "recover"}]
    /\ op \in [Workers -> Ids \cup {NoId}]
    /\ want \in [Workers -> Requests \cup {NoRequest}]
    /\ draft \in [Workers -> Journal]
    /\ outcome \in [Workers -> {"none", "ok", "error", "cancelled"}]
    /\ todo \in [Workers -> SUBSET Ids]
    /\ seen \in [Workers -> [Ids -> {"absent", "private", "other"}]]
    /\ retired \subseteq Ids

(* A row never outlives its files: whatever crashed or failed, the version *)
(* of every row is at its path, or in the quarantine of a removal whose    *)
(* journal still lists it.                                                 *)
RegisteredPayloadIsKept ==
    \A i \in inv.registered :
        \/ Live(i)
        \/ \E r \in Ids : i \in quarantine[r] /\ i \in journal[r].removed

(* The pointers name rows, rollback leads somewhere else, and there is no  *)
(* version to return to unless there is one to return from.                *)
PointersAgree ==
    /\ {inv.active, inv.previous, inv.staged} \subseteq inv.registered \cup {NoId}
    /\ inv.previous # NoId => inv.active # NoId /\ inv.active # inv.previous

(* Published files never outlive their record: a version path belongs to a *)
(* row, or to an install whose journal will still write that row.          *)
PublishedFilesHaveAnOwner ==
    \A b \in Builds : version[b] # NoId =>
        \/ version[b] \in inv.registered
        \/ /\ journal[version[b]].install = version[b]
           /\ journal[version[b]].phase \in {"prepared", "payload_published"}

(* Whatever lies in private staging or in a quarantine, a journal accounts *)
(* for it, so that a recovery can find it.                                 *)
PrivateFilesHaveAJournal ==
    \A i \in Ids :
        /\ staging[i] # "none" => journal[i].kind = "install"
        /\ quarantine[i] # {} => /\ journal[i].kind = "remove"
                                 /\ quarantine[i] \subseteq journal[i].removed

(* An install that is reported cancelled is nowhere in the library: it has *)
(* no row and no version path, and no recovery will publish it later.      *)
CancelledIsNeverPublished ==
    \A i \in Ids : activity[i].status = "cancelled" =>
        /\ i \notin inv.registered
        /\ \A b \in Builds : version[b] # i
        /\ journal[i].kind # "none" => IsPrivate(journal[i]) \/ DueCleanup(journal[i])

(* Whoever changes files or rows does it under the port lock, for the step *)
(* its journal records: nobody has discarded, finished or rewritten the    *)
(* operation behind a live worker's back.                                  *)
JournalMatchesStep ==
    \A w \in Workers :
        pc[w] \in {"preparing", "sealing", "publishing", "registering",
                   "cleaning", "switching", "quarantining", "deregistering",
                   "deleting"} =>
            lock = w /\ journal[op[w]] = draft[w]

(* A finished preparation is never thrown away: files may only leave       *)
(* staging unpublished while the journal calls them unvalidated or due for *)
(* cleanup.                                                                *)
SealedWorkIsNotDiscarded ==
    [][\A i \in Ids :
         staging[i] = "payload" /\ staging'[i] = "none" =>
             IsPrivate(journal[i]) \/ DueCleanup(journal[i])]_vars

(* The first terminal outcome of an activity stays. *)
OutcomesAreFinal ==
    [][\A i \in Ids :
         activity[i].status \notin {"unused", "running"} =>
             activity'[i].status = activity[i].status]_vars

(* A journal that was deleted is not created again. *)
RetiredJournalsStayRetired ==
    \A i \in retired : journal[i].kind = "none"

(* A removal deletes the rows that were reviewed and no others. *)
OnlyReviewedRowsAreRemoved ==
    [][\A i \in inv.registered \ inv'.registered :
         \E r \in Ids : i \in journal[r].removed]_vars

=============================================================================
