---------------------------- MODULE LibraryImport ----------------------------
(***************************************************************************)
(* Importing a library from a metadata export and a copy of its content    *)
(* into one new root: import_execution.rs and import_journal.rs, with the  *)
(* lease of library_access.rs and the ordinary open of library.rs.         *)
(*                                                                         *)
(* The journal in the destination is also the gate that keeps ordinary     *)
(* clients out.  A root sees at most one transfer identity: a second start *)
(* is refused by what the first one left.  So a journal is its phase.      *)
(* Commands are processes: each reads the journal before it has the lease, *)
(* works on its own copy of it, and may fail or die between any two steps. *)
(***************************************************************************)
EXTENDS Naturals

CONSTANTS
  Commands,      \* processes that start, resume or abort the import
  Clients,       \* processes that open the destination the ordinary way
  Versions,      \* the application versions in the backup, each with a contract
                 \* that only its own manifest records
  HistoryLimit   \* terminal activities kept, the newest (1000 in the code)

ASSUME HistoryAssumption == HistoryLimit \in Nat \ {0}

VARIABLES
  exists,    \* the destination directory exists
  gate,      \* phase in .portcove-import.json
  archived,  \* recovery/library-import.json exists
  versions,  \* the payloads under the destination's versions/
  user,      \* whose saves are under the destination's user/
  restored,  \* the destination's tables hold the backup's rows
  activity,  \* the import's row in activity_history
  newer,     \* terminal activities that are newer than the import's
  input,     \* the backup that was reviewed
  cmd,       \* each command: its operation, next step and journal
  client,    \* the clients that have the destination open
  removed    \* history: the imported versions a client has removed

destination == <<exists, gate, archived, versions, user, restored>>
history == <<activity, newer>>
vars == <<destination, history, input, cmd, client, removed>>

Phase == {"copying", "verified", "published", "complete", "aborted"}
Published == {"published", "complete"}

Steps ==
  {"idle", "planned", "created", "leased", "observed", "entered", "copying",
   "restored", "verified", "succeeded", "finishing", "archiving", "archived",
   "abort", "abort begun", "abort failed"}

Idle == [op |-> "none", pc |-> "idle", phase |-> "none", new |-> FALSE]

TypeOK ==
  /\ exists \in BOOLEAN
  /\ gate \in Phase \cup {"none"}
  /\ archived \in BOOLEAN
  /\ versions \subseteq Versions
  /\ user \in {"none", "backup", "client"}
  /\ restored \in BOOLEAN
  /\ activity \in {"absent", "running", "succeeded", "failed"}
  /\ newer \in 0..HistoryLimit - 1
  /\ input \in {"reviewed", "edited", "offline"}
  /\ cmd \in [Commands -> [op : {"none", "start", "resume", "abort"}, pc : Steps,
                           phase : Phase \cup {"none"}, new : BOOLEAN]]
  /\ client \subseteq Clients
  /\ removed \subseteq Versions

Init ==
  /\ exists = FALSE
  /\ gate = "none"
  /\ archived = FALSE
  /\ versions = {}
  /\ user = "none"
  /\ restored = FALSE
  /\ activity = "absent"
  /\ newer = 0
  /\ input = "reviewed"
  /\ cmd = [p \in Commands |-> Idle]
  /\ client = {}
  /\ removed = {}

(********************************* Leases **********************************)

Leased == Steps \ {"idle", "planned", "created", "observed"}

HeldExclusively == \E p \in Commands : cmd[p].pc \in Leased

CanLockExclusively == ~HeldExclusively /\ client = {}

(******************************* The journal *******************************)

\* What validating a published journal asks of the destination: the
\* succeeded activity and every imported version with its manifest.
RecordStands == activity = "succeeded" /\ versions = Versions

\* An unpublished journal is validated against the backup instead.
Validates(phase) ==
  IF phase \in Published THEN RecordStands ELSE input # "offline"

\* The journal a recovery reads: the gate, else the archived one.
Journal == IF gate # "none" THEN gate ELSE IF archived THEN "complete" ELSE "none"

Readable == Journal # "none" /\ Validates(Journal)

\* check_open: no gate, or one that is published and validates.
Openable == gate = "none" \/ (gate \in Published /\ Validates(gate))

\* Regression: only the gate is looked at again under the lease.
EmptyWhenReviewed == gate = "none"

EmptyDestination ==
  gate = "none" /\ ~archived /\ versions = {} /\ user = "none" /\ ~restored

\* verify_input: the backup is there and is what was reviewed.
InputAsReviewed == input = "reviewed"

Go(p, step) == cmd' = [cmd EXCEPT ![p].pc = step]

Return(p) == cmd' = [cmd EXCEPT ![p] = Idle]

WriteGate(p, phase, step) ==
  /\ gate' = phase
  /\ cmd' = [cmd EXCEPT ![p].pc = step, ![p].phase = phase]
  /\ UNCHANGED <<exists, archived, versions, user, restored, history, input,
                 client, removed>>

(********************************** Start **********************************)

Plan(p) ==
  /\ cmd[p].pc = "idle"
  /\ InputAsReviewed
  /\ exists => EmptyDestination
  /\ cmd' = [cmd EXCEPT ![p] =
              [op |-> "start", pc |-> "planned", phase |-> "none", new |-> ~exists]]
  /\ UNCHANGED <<destination, history, input, client, removed>>

\* create_dir is exclusive: a directory that appeared since is not claimed.
CreateDestination(p) ==
  /\ cmd[p].pc = "planned"
  /\ cmd[p].new => ~exists
  /\ exists' = TRUE
  /\ Go(p, "created")
  /\ UNCHANGED <<gate, archived, versions, user, restored, history, input,
                 client, removed>>

LockDestination(p) ==
  /\ cmd[p].pc = "created"
  /\ CanLockExclusively
  /\ Go(p, "leased")
  /\ UNCHANGED <<destination, history, input, client, removed>>

\* The emptiness and the backup are looked at again under the lease.
WriteIntent(p) ==
  /\ cmd[p].pc = "leased"
  /\ EmptyDestination
  /\ InputAsReviewed
  /\ WriteGate(p, "copying", "entered")

(******************************** Recovery *********************************)

Observe(p, op) ==
  /\ cmd[p].pc = "idle"
  /\ Readable
  /\ cmd' = [cmd EXCEPT ![p] =
              [op |-> op, pc |-> "observed", phase |-> Journal, new |-> FALSE]]
  /\ UNCHANGED <<destination, history, input, client, removed>>

\* Regression: it acts on what it read before it had the lease.
PhaseBeforeLease(p) == cmd[p].phase

\* The phase a recovery acts on is the one it reads again under the lease.
PhaseUnderLease(p) == Journal

MayAbort(phase) == phase \notin Published

\* An aborted journal ends either command here; so does an abort of a
\* published one.  Refuse is that return.
Recover(p) ==
  /\ cmd[p].pc = "observed"
  /\ CanLockExclusively
  /\ Readable
  /\ PhaseUnderLease(p) # "aborted"
  /\ cmd[p].op = "abort" => MayAbort(PhaseUnderLease(p))
  /\ cmd' = [cmd EXCEPT ![p].phase = PhaseUnderLease(p),
                        ![p].pc = IF cmd[p].op = "abort" THEN "abort" ELSE "entered"]
  /\ UNCHANGED <<destination, history, input, client, removed>>

\* Regression: an abort inserts no row, and then has none to finish.
HasActivityAlready(p) == activity # "absent"

\* ensure_activity: the row is there, or is inserted for a copying journal.
HasActivity(p) == activity # "absent" \/ cmd[p].phase = "copying"

EnsureActivity ==
  /\ activity' = IF activity = "absent" THEN "running" ELSE activity
  /\ UNCHANGED newer

\* Regression: success is recorded after publication, so not before it.
FinishActivityFailing(outcome) ==
  /\ activity \in {"running", outcome}
  /\ activity' = IF outcome = "succeeded" THEN activity ELSE outcome
  /\ UNCHANGED newer

\* finish_activity_once: a running row takes the outcome, an equal one stays.
FinishActivity(outcome) ==
  /\ activity \in {"running", outcome}
  /\ activity' = outcome
  /\ UNCHANGED newer

BeginAbort(p) ==
  /\ cmd[p].pc = "abort"
  /\ HasActivity(p)
  /\ EnsureActivity
  /\ Go(p, "abort begun")
  /\ UNCHANGED <<destination, input, client, removed>>

RecordAbort(p) ==
  /\ cmd[p].pc = "abort begun"
  /\ FinishActivity("failed")
  /\ Go(p, "abort failed")
  /\ UNCHANGED <<destination, input, client, removed>>

WriteAborted(p) ==
  /\ cmd[p].pc = "abort failed"
  /\ gate' = "aborted"
  /\ Return(p)
  /\ UNCHANGED <<exists, archived, versions, user, restored, history, input,
                 client, removed>>

(***************************** Continue import *****************************)

\* A complete journal is only archived, and only if it is still the gate.
ContinueComplete(p) ==
  /\ cmd[p].pc = "entered"
  /\ cmd[p].phase = "complete"
  /\ gate # "none"
  /\ Go(p, "archiving")
  /\ UNCHANGED <<destination, history, input, client, removed>>

\* The outcomes a journal may meet: none yet, or the success it recorded.
MayContinue(p) ==
  \/ activity \in {"absent", "running"}
  \/ activity = "succeeded" /\ cmd[p].phase \in {"verified", "published"}

\* Regression: a published import is verified against the backup again.
MayReplayAlways(phase) == TRUE

\* Old payloads are compared and copied only while nobody could have saved.
MayReplay(phase) == phase # "published"

Enter(p) ==
  /\ cmd[p].pc = "entered"
  /\ cmd[p].phase # "complete"
  /\ HasActivity(p)
  /\ MayContinue(p)
  /\ EnsureActivity
  /\ Go(p, IF MayReplay(cmd[p].phase) THEN "copying" ELSE "finishing")
  /\ UNCHANGED <<destination, input, client, removed>>

\* A file that is already there must be the one in the backup.
CopyVersion(p, v) ==
  /\ cmd[p].pc = "copying"
  /\ InputAsReviewed
  /\ v \notin versions
  /\ versions' = versions \cup {v}
  /\ UNCHANGED <<exists, gate, archived, user, restored, history, input, cmd,
                 client, removed>>

CopyUserData(p) ==
  /\ cmd[p].pc = "copying"
  /\ InputAsReviewed
  /\ user = "none"
  /\ user' = "backup"
  /\ UNCHANGED <<exists, gate, archived, versions, restored, history, input, cmd,
                 client, removed>>

\* Regression: the copy ends, and is checked, without the user data.
CopiedVersions == versions = Versions

CopiedContent == versions = Versions /\ user = "backup"

\* One transaction; a destination that has its rows is only checked.
RestoreMetadata(p) ==
  /\ cmd[p].pc = "copying"
  /\ CopiedContent
  /\ restored' = TRUE
  /\ Go(p, "restored")
  /\ UNCHANGED <<exists, gate, archived, versions, user, history, input, client,
                 removed>>

\* The destination and the backup are both verified again.
WriteVerified(p) ==
  /\ cmd[p].pc = "restored"
  /\ CopiedContent
  /\ InputAsReviewed
  /\ WriteGate(p, "verified", "verified")

RecordSuccess(p) ==
  /\ cmd[p].pc = "verified"
  /\ FinishActivity("succeeded")
  /\ Go(p, "succeeded")
  /\ UNCHANGED <<destination, input, client, removed>>

\* This one write opens the gate.
WritePublished(p) ==
  /\ cmd[p].pc = "succeeded"
  /\ WriteGate(p, "published", "finishing")

WriteComplete(p) ==
  /\ cmd[p].pc = "finishing"
  /\ WriteGate(p, "complete", "archiving")

ArchiveJournal(p) ==
  /\ cmd[p].pc = "archiving"
  /\ archived => Validates("complete")
  /\ archived' = TRUE
  /\ Go(p, "archived")
  /\ UNCHANGED <<exists, gate, versions, user, restored, history, input, client,
                 removed>>

RemoveGate(p) ==
  /\ cmd[p].pc = "archived"
  /\ gate' = "none"
  /\ Return(p)
  /\ UNCHANGED <<exists, archived, versions, user, restored, history, input,
                 client, removed>>

\* Why the next step of a command is refused: it returns with an error, or
\* with what an earlier command already did.
Refused(p) ==
  \/ cmd[p].pc = "planned" /\ cmd[p].new /\ exists
  \/ cmd[p].pc \in {"created", "observed"} /\ ~CanLockExclusively
  \/ cmd[p].pc = "leased" /\ ~(EmptyDestination /\ InputAsReviewed)
  \/ /\ cmd[p].pc = "observed"
     /\ \/ ~Readable
        \/ PhaseUnderLease(p) = "aborted"
        \/ cmd[p].op = "abort" /\ ~MayAbort(PhaseUnderLease(p))
  \/ cmd[p].pc = "entered" /\ IF cmd[p].phase = "complete"
                                THEN gate = "none"
                                ELSE ~(HasActivity(p) /\ MayContinue(p))
  \/ cmd[p].pc = "copying" /\ (~InputAsReviewed \/ user = "client")
  \/ cmd[p].pc = "restored" /\ ~(CopiedContent /\ InputAsReviewed)
  \/ cmd[p].pc = "verified" /\ activity \notin {"running", "succeeded"}
  \/ cmd[p].pc = "abort" /\ ~HasActivity(p)
  \/ cmd[p].pc = "abort begun" /\ activity \notin {"running", "failed"}
  \/ cmd[p].pc = "archiving" /\ archived /\ ~Validates("complete")

Refuse(p) ==
  /\ Refused(p)
  /\ Return(p)
  /\ UNCHANGED <<destination, history, input, client, removed>>

\* The process dies, or a write fails, before its next step; its lease ends.
Crash(p) ==
  /\ cmd[p].pc # "idle"
  /\ Return(p)
  /\ UNCHANGED <<destination, history, input, client, removed>>

(********************************* Clients *********************************)

\* The shared lease is taken before the gate is read and kept while open.
OpenLibrary(c) ==
  /\ c \notin client
  /\ ~HeldExclusively
  /\ Openable
  /\ exists' = TRUE
  /\ client' = client \cup {c}
  /\ UNCHANGED <<gate, archived, versions, user, restored, history, input, cmd,
                 removed>>

CloseLibrary(c) ==
  /\ c \in client
  /\ client' = client \ {c}
  /\ UNCHANGED <<destination, history, input, cmd, removed>>

Save(c) ==
  /\ c \in client
  /\ user' = "client"
  /\ UNCHANGED <<exists, gate, archived, versions, restored, history, input, cmd,
                 client, removed>>

\* A removal ends with the payload, and so its manifest, gone.
RemoveVersion(c, v) ==
  /\ c \in client
  /\ v \in versions
  /\ versions' = versions \ {v}
  /\ removed' = removed \cup {v}
  /\ UNCHANGED <<exists, gate, archived, user, restored, history, input, cmd, client>>

\* Any operation a client finishes; its row may push out the import's.
FinishOtherActivity(c) ==
  /\ c \in client
  /\ activity = "succeeded"
  /\ IF newer + 1 < HistoryLimit
       THEN newer' = newer + 1 /\ UNCHANGED activity
       ELSE activity' = "absent" /\ UNCHANGED newer
  /\ UNCHANGED <<destination, input, cmd, client, removed>>

(******************************* The backup ********************************)

ReviewBegan == gate # "none" \/ \E p \in Commands : cmd[p].pc # "idle"

EditInput ==
  /\ ReviewBegan
  /\ input = "reviewed"
  /\ input' = "edited"
  /\ UNCHANGED <<destination, history, cmd, client, removed>>

Disconnect ==
  /\ input = "reviewed"
  /\ input' = "offline"
  /\ UNCHANGED <<destination, history, cmd, client, removed>>

Reconnect ==
  /\ input = "offline"
  /\ input' = "reviewed"
  /\ UNCHANGED <<destination, history, cmd, client, removed>>

AbortStep(p) == BeginAbort(p) \/ RecordAbort(p) \/ WriteAborted(p)

CopyStep(p) == (\E v \in Versions : CopyVersion(p, v)) \/ CopyUserData(p)

ContinueStep(p) ==
  \/ ContinueComplete(p)
  \/ Enter(p)
  \/ CopyStep(p)
  \/ RestoreMetadata(p)
  \/ WriteVerified(p)
  \/ RecordSuccess(p)
  \/ WritePublished(p)
  \/ WriteComplete(p)
  \/ ArchiveJournal(p)
  \/ RemoveGate(p)

\* What a command does on its own, once it was asked for.
Step(p) ==
  \/ CreateDestination(p) \/ LockDestination(p) \/ WriteIntent(p)
  \/ Recover(p) \/ AbortStep(p) \/ ContinueStep(p)
  \/ Refuse(p)

ClientStep(c) ==
  \/ Save(c)
  \/ \E v \in Versions : RemoveVersion(c, v)
  \/ FinishOtherActivity(c)

Next ==
  \/ \E p \in Commands : Plan(p) \/ Observe(p, "resume") \/ Observe(p, "abort")
  \/ \E p \in Commands : Step(p) \/ Crash(p)
  \/ \E c \in Clients : OpenLibrary(c) \/ CloseLibrary(c) \/ ClientStep(c)
  \/ EditInput \/ Disconnect \/ Reconnect

Spec == Init /\ [][Next]_vars

(******************************** Patience *********************************)

Alone(p) == \A q \in Commands \ {p} : cmd[q].pc = "idle"

\* What stops at some point: crashes, new starts and clients, unplugging, and
\* one recovery command in the way of another.
Disturbance ==
  \/ \E p \in Commands : Plan(p) \/ (Crash(p) /\ ~Refused(p))
  \/ \E p \in Commands : ~Alone(p) /\ (Observe(p, "resume") \/ Observe(p, "abort"))
  \/ \E c \in Clients : OpenLibrary(c)
  \/ Disconnect

\* A user who retries: from some point on nothing disturbs, and both resume and
\* abort are asked for again and again.  Commands run on, clients close, and a
\* backup that is unplugged comes back.
PatientSpec ==
  /\ Spec
  /\ <>[][~Disturbance]_vars
  /\ SF_vars(\E p \in Commands : Observe(p, "resume"))
  /\ SF_vars(\E p \in Commands : Observe(p, "abort"))
  /\ \A p \in Commands : WF_vars(Step(p))
  /\ \A c \in Clients : WF_vars(CloseLibrary(c))
  /\ WF_vars(Reconnect)

(******************************* Properties ********************************)

\* The journal, the activity and the archive tell one story in whatever order
\* abort_library_import and continue_import were cut off: only a success is
\* published, only a recorded failure is aborted, and the archive never runs
\* ahead of the gate it replaces.
OutcomesAgree ==
  /\ gate \in Published => activity # "running" /\ activity # "failed"
  /\ gate = "aborted" => activity = "failed"
  /\ activity = "failed" => gate \notin Published /\ ~archived
  /\ archived => gate \in {"complete", "none"}

\* The whole backup is at the destination, less what clients removed.
Whole == Versions \subseteq versions \cup removed /\ user # "none" /\ restored

\* A client that is past check_open finds the whole backup in a destination
\* that was imported, less only what clients themselves removed.
NothingImportedIsMissing ==
  client # {} /\ (gate # "none" \/ archived) => Whole

\* The import never takes over a library somebody has used: whatever clients
\* saved between the review and the lease, ensure_empty_destination sees it.
ImportNeverMerges == gate \in {"copying", "verified", "aborted"} => user # "client"

\* Once check_open has let clients in, no recovery, however stale the journal
\* it first read, closes the gate on their saves again.
PublicationIsPermanent ==
  [][(gate \in Published) => gate' \in Published \cup {"none"}]_vars

\* A gated destination is opened or given up, wherever recover_import was cut
\* off; the one exception the code leaves is a success that was recorded but
\* not yet published when the backup changed: resume refuses the backup and
\* abort refuses the success.
EveryImportSettles ==
  gate \in {"copying", "verified"} ~>
    \/ gate \notin {"copying", "verified"}
    \/ input = "edited" /\ activity = "succeeded"

\* A published import's bookkeeping ends whatever clients saved meanwhile and
\* whatever became of the backup, as long as its journal still validates.
PublishedImportsFinish ==
  gate \in Published ~> (gate = "none" \/ ~RecordStands)

\* What the documents promise of a published import: it opens, and resuming it
\* needs nothing but its own bookkeeping (ImportJournal::validate).
PublishedLibraryOpens == gate \in Published => Openable

(************************* The inductive invariant *************************)

\* What a command relies on at its next step: the gate is the journal it read,
\* and what it has done so far is still there.
StepIsCurrent(p) ==
  /\ cmd[p].pc \in {"abort", "abort begun", "abort failed", "copying", "restored"} =>
       gate = cmd[p].phase /\ gate \in {"copying", "verified"}
  /\ cmd[p].pc = "abort failed" => activity = "failed"
  /\ cmd[p].pc = "entered" =>
       \/ gate = cmd[p].phase /\ gate \notin {"none", "aborted"}
       \/ gate = "none" /\ cmd[p].phase = "complete"
  /\ cmd[p].pc \in {"copying", "restored", "verified"} =>
       activity \in {"running", "succeeded"}
  /\ cmd[p].pc = "restored" => restored
  /\ cmd[p].pc \in {"verified", "succeeded"} => gate = "verified" /\ Whole
  /\ cmd[p].pc = "succeeded" => activity = "succeeded"
  /\ cmd[p].pc = "finishing" => gate = "published"
  /\ cmd[p].pc \in {"archiving", "archived"} => gate = "complete"
  /\ cmd[p].pc = "archived" => archived

\* A command past its lease is alone, and no client is inside.
LeaseExcludes ==
  /\ \A p, q \in Commands : cmd[p].pc \in Leased /\ cmd[q].pc \in Leased => p = q
  /\ HeldExclusively => client = {}

ClientsAreAdmitted == client # {} => gate \in Published \cup {"none"}

OpenedIsWhole == gate \in Published \/ archived => Whole

ImportInvariant ==
  /\ TypeOK
  /\ LeaseExcludes
  /\ \A p \in Commands : StepIsCurrent(p)
  /\ ClientsAreAdmitted
  /\ OpenedIsWhole
  /\ OutcomesAgree
  /\ ImportNeverMerges

=============================================================================
