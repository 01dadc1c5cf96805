----------------------------- MODULE LibraryMove -----------------------------
(***************************************************************************)
(* Moving a Portcove library to a new root: library_move.rs, with the      *)
(* lease of library_access.rs, the authority marker and receipt of         *)
(* library_authority.rs, the journal of transfer_journal.rs, the copy of   *)
(* transfer_copy.rs and the ordinary open of library.rs.                   *)
(*                                                                         *)
(* A root is a directory that may hold a library.  A command (start,       *)
(* resume or abort a move) is named by its source root, because it holds   *)
(* that root's exclusive lease from its first step to its return.  Every   *)
(* durable write is a step of its own; a crash or an I/O error ends a      *)
(* command between any two of them and drops its leases.                   *)
(***************************************************************************)
EXTENDS Naturals, FiniteSets

CONSTANTS
  Roots,    \* directories a library may live in
  Ids,      \* transfer identities (fresh UUIDs): bounds the moves started
  Clients,  \* processes that open a library the ordinary way
  Saves,    \* values clients write, each once: bounds the writes
  Edits,    \* files written behind Portcove's back, each once
  NoRoot, NoId

ASSUME NoRootAssumption == NoRoot \notin Roots
ASSUME NoIdAssumption == NoId \notin Ids
\* What another program writes is told apart from what a client writes.
ASSUME EditsAreForeign == Edits \cap Saves = {}

VARIABLES
  dirs,      \* the roots whose directory exists
  marker,    \* .portcove-authority.json of each root
  receipt,   \* .portcove-transfer-receipt.json of each root: a transfer id
  journal,   \* recovery/library-move.json of each root, as a move's source
  archived,  \* ids of the journals kept as recovery/library-move-<id>.json
  files,     \* the content trees of each root
  dbs,       \* the roots with a portcove.sqlite3
  settings,  \* the domain metadata in each root's database
  activity,  \* activity_history in each root's database, per transfer
  pc,        \* the next step of the move command running on each source
  target,    \* the destination a starting move was asked for
  leased,    \* the sources whose command holds its destination's lease
  client,    \* each client: what it asked to open, and where it is
  acked      \* history: the saves written by clients that asked for a root

roots == <<dirs, marker, receipt>>
journals == <<journal, archived>>
databases == <<dbs, settings, activity>>
command == <<pc, target, leased>>
users == <<client, acked>>
disk == <<roots, journals, files, databases>>
vars == <<disk, command, users>>

(***************************** State of the parts **************************)

Data == Saves \cup Edits

NoMarker == [state |-> "none", id |-> NoId, dst |-> NoRoot]
NoJournal == [phase |-> "none", id |-> NoId, dst |-> NoRoot,
              files |-> {}, settings |-> {}]

Marker == [state : {"pending", "moved"}, id : Ids, dst : Roots]

TransferPhase == {"copying", "verified", "published", "complete", "aborted"}

TransferJournal ==
  [phase : TransferPhase, id : Ids, dst : Roots,
   files : SUBSET Data, settings : SUBSET Data]

ActivityStatus == {"absent", "running", "succeeded", "failed"}

Steps ==
  {"idle", "planned", "archived", "begun", "recorded", "gated", "created",
   "reused", "locked", "copying", "copied", "checked", "receipted",
   "verified", "moved", "published", "finishing", "finished",
   "abort", "abort locked", "abort recorded", "abort failed", "abort journaled"}

DiskTypes ==
  /\ dirs \subseteq Roots
  /\ marker \in [Roots -> Marker \cup {NoMarker}]
  /\ receipt \in [Roots -> Ids \cup {NoId}]
  /\ journal \in [Roots -> TransferJournal \cup {NoJournal}]
  /\ archived \in [Roots -> SUBSET Ids]
  /\ files \in [Roots -> SUBSET Data]
  /\ dbs \subseteq Roots
  /\ settings \in [Roots -> SUBSET Data]
  /\ activity \in [Roots -> [Ids -> ActivityStatus]]

CommandTypes ==
  /\ pc \in [Roots -> Steps]
  /\ target \in [Roots -> Roots \cup {NoRoot}]
  /\ leased \subseteq Roots

Gone == [at |-> NoRoot, asked |-> NoRoot, pc |-> "idle"]

Visit == [at : Roots, asked : Roots, pc : {"arriving", "leased", "open"}]

UserTypes ==
  /\ client \in [Clients -> Visit \cup {Gone}]
  /\ acked \in [Roots -> SUBSET Saves]

TypeOK == DiskTypes /\ CommandTypes /\ UserTypes

NoActivity == [i \in Ids |-> "absent"]

Init ==
  /\ dirs = {}
  /\ marker = [r \in Roots |-> NoMarker]
  /\ receipt = [r \in Roots |-> NoId]
  /\ journal = [r \in Roots |-> NoJournal]
  /\ archived = [r \in Roots |-> {}]
  /\ files = [r \in Roots |-> {}]
  /\ dbs = {}
  /\ settings = [r \in Roots |-> {}]
  /\ activity = [r \in Roots |-> NoActivity]
  /\ pc = [r \in Roots |-> "idle"]
  /\ target = [r \in Roots |-> NoRoot]
  /\ leased = {}
  /\ client = [c \in Clients |-> Gone]
  /\ acked = [r \in Roots |-> {}]

(********************************* Leases **********************************)

\* An exclusive lease: a command's own source, or the destination it leased.
HeldExclusively(r) ==
  \/ pc[r] # "idle"
  \/ \E s \in leased : journal[s].dst = r

\* Regression: the lease lives only as long as the open, not the handle.
HeldSharedWhileOpening(r) ==
  \E c \in Clients : client[c].pc = "leased" /\ client[c].at = r

HeldShared(r) ==
  \E c \in Clients : client[c].pc \in {"leased", "open"} /\ client[c].at = r

CanLockExclusively(r) == ~HeldExclusively(r) /\ ~HeldShared(r)

\* Library::initialize creates the database of a root that has none.
Initialize(r) ==
  /\ dbs' = dbs \cup {r}
  /\ UNCHANGED <<settings, activity>>

(****************************** Ordinary open ******************************)

\* LibraryLease::with_access creates <root>/locks, so the directory appears
\* before the lock is tried.
Arrive(c, r) ==
  /\ client[c].pc = "idle"
  /\ dirs' = dirs \cup {r}
  /\ client' = [client EXCEPT ![c] = [at |-> r, asked |-> r, pc |-> "arriving"]]
  /\ UNCHANGED <<marker, receipt, journals, files, databases, command, acked>>

LockShared(c) ==
  /\ client[c].pc = "arriving"
  /\ client' = [client EXCEPT ![c] =
                  IF HeldExclusively(@.at) THEN Gone ELSE [@ EXCEPT !.pc = "leased"]]
  /\ UNCHANGED <<disk, command, acked>>

\* The journal's identity is what the receipt at the destination must carry.
HasReceipt(r, id) == receipt[r] = id

\* open_target: a pending marker stops the open, a moved one redirects it to
\* the destination that holds the matching receipt; the lease taken on the
\* old root is dropped when the next iteration assigns the new one.
OpenTarget(c) ==
  LET r == client[c].at
      m == marker[r]
  IN /\ client[c].pc = "leased"
     /\ CASE m = NoMarker ->
               /\ Initialize(r)
               /\ client' = [client EXCEPT ![c].pc = "open"]
          [] m # NoMarker /\ m.state = "moved" /\ HasReceipt(m.dst, m.id) ->
               /\ client' = [client EXCEPT ![c].pc = "arriving", ![c].at = m.dst]
               /\ UNCHANGED databases
          [] OTHER ->
               /\ client' = [client EXCEPT ![c] = Gone]
               /\ UNCHANGED databases
     /\ UNCHANGED <<roots, journals, files, command, acked>>

Holdings(r) == files[r] \cup settings[r]

\* A client writes a file or a setting of the library it has open ...
Write(c, v) ==
  LET r == client[c].at
  IN /\ client[c].pc = "open"
     /\ \A q \in Roots : v \notin Holdings(q)
     /\ \/ files' = [files EXCEPT ![r] = @ \cup {v}] /\ UNCHANGED settings
        \/ settings' = [settings EXCEPT ![r] = @ \cup {v}] /\ UNCHANGED files
     /\ acked' = [acked EXCEPT ![client[c].asked] = @ \cup {v}]
     /\ UNCHANGED <<roots, journals, dbs, activity, command, client>>

\* ... or deletes one.
Delete(c, v) ==
  LET r == client[c].at
  IN /\ client[c].pc = "open"
     /\ v \in Holdings(r)
     /\ files' = [files EXCEPT ![r] = @ \ {v}]
     /\ settings' = [settings EXCEPT ![r] = @ \ {v}]
     /\ acked' = [q \in Roots |-> acked[q] \ {v}]
     /\ UNCHANGED <<roots, journals, dbs, activity, command, client>>

\* Dropping the last handle, or the death of the process.
Close(c) ==
  /\ client[c].pc # "idle"
  /\ client' = [client EXCEPT ![c] = Gone]
  /\ UNCHANGED <<disk, command, acked>>

\* Another program changes a file of a root without taking any lease.
Edit(r, v) ==
  /\ r \in dirs
  /\ \A q \in Roots : v \notin files[q]
  /\ files' = [files EXCEPT ![r] = @ \cup {v}]
  /\ UNCHANGED <<roots, journals, databases, command, users>>

(****************************** Starting a move ****************************)

Goto(s, step) ==
  /\ pc' = [pc EXCEPT ![s] = step]
  /\ UNCHANGED <<target, leased>>

\* The command returns, with or without an error: its leases are dropped.
Return(s) ==
  /\ pc' = [pc EXCEPT ![s] = "idle"]
  /\ target' = [target EXCEPT ![s] = NoRoot]
  /\ leased' = leased \ {s}

\* Library::open_exclusive: no authority check, and a missing database is
\* created whatever the root turns out to be.
OpenExclusive(s) ==
  /\ pc[s] = "idle"
  /\ s \in dirs
  /\ CanLockExclusively(s)
  /\ Initialize(s)

UsedIds == {i \in Ids : \E r \in Roots : i \in archived[r] \/ journal[r].id = i}

\* Bound: a move is started only while a transfer identity is left for it.
IdsRemain ==
  Cardinality({r \in Roots : pc[r] \in {"planned", "archived"}}) < Cardinality(Ids \ UsedIds)

\* start_move up to the reviewed plan: the destination must not exist yet.
StartMove(s, d) ==
  /\ OpenExclusive(s)
  /\ IdsRemain
  /\ IF marker[s] = NoMarker /\ d # s /\ d \notin dirs
       THEN /\ pc' = [pc EXCEPT ![s] = "planned"]
            /\ target' = [target EXCEPT ![s] = d]
            /\ UNCHANGED leased
       ELSE UNCHANGED command
  /\ UNCHANGED <<roots, journals, files, users>>

Terminal(phase) == phase \in {"complete", "aborted"}

\* TransferJournal::create, first half: a finished predecessor is archived
\* under its own name, which must be free; an unfinished one is refused.
ArchiveJournal(s) ==
  LET j == journal[s]
  IN /\ pc[s] = "planned"
     /\ j # NoJournal
     /\ IF Terminal(j.phase) /\ j.id \notin archived[s]
          THEN /\ archived' = [archived EXCEPT ![s] = @ \cup {j.id}]
               /\ Goto(s, "archived")
          ELSE Return(s) /\ UNCHANGED archived
     /\ UNCHANGED <<roots, journal, files, databases, users>>

\* TransferJournal::create, second half: the journal with the reviewed plan.
\* The plan is what the source holds, which its lease has kept unchanged but
\* for edits made behind it.
CreateJournal(s, id) ==
  /\ \/ pc[s] = "planned" /\ journal[s] = NoJournal
     \/ pc[s] = "archived"
  /\ id \notin UsedIds
  /\ journal' = [journal EXCEPT ![s] =
       [phase |-> "copying", id |-> id, dst |-> target[s],
        files |-> files[s], settings |-> settings[s]]]
  /\ pc' = [pc EXCEPT ![s] = "begun"]
  /\ target' = [target EXCEPT ![s] = NoRoot]
  /\ UNCHANGED <<roots, archived, files, databases, leased, users>>

\* Regressions: an aborted journal is resumed; a published one is not.
MayResumeAborted(s) == journal[s] # NoJournal
MayResumeUnpublished(s) == journal[s].phase \in {"copying", "verified"}

MayResume(s) == journal[s] # NoJournal /\ journal[s].phase # "aborted"

ResumeMove(s) ==
  /\ OpenExclusive(s)
  /\ IF MayResume(s)
       THEN Goto(s, "begun")
       ELSE UNCHANGED command
  /\ UNCHANGED <<roots, journals, files, users>>

(****************************** Continuing it ******************************)

\* ensure_move_activity: the row may be missing only before anything of the
\* destination's database can exist.
MayRecord(s) ==
  \/ activity[s][journal[s].id] # "absent"
  \/ journal[s].phase = "copying" /\ journal[s].dst \notin dbs

RecordActivity(s, next) ==
  /\ IF MayRecord(s)
       THEN /\ activity' = [activity EXCEPT ![s][journal[s].id] =
                              IF @ = "absent" THEN "running" ELSE @]
            /\ Goto(s, next)
       ELSE Return(s) /\ UNCHANGED activity
  /\ UNCHANGED <<roots, journals, files, dbs, settings, users>>

EnsureActivity(s) == pc[s] = "begun" /\ RecordActivity(s, "recorded")

Belongs(m, j) == m # NoMarker /\ m.id = j.id /\ m.dst = j.dst

\* require_pending: the marker gates a root for exactly this transfer.
PendingFor(m, j) == Belongs(m, j) /\ m.state = "pending"

\* verify_source_plan: the source still holds exactly what was reviewed.
SourceUnchecked(s) == TRUE  \* regression

SourceAsPlanned(s) == files[s] = journal[s].files /\ settings[s] = journal[s].settings

SetMarker(r, m) == marker' = [marker EXCEPT ![r] = m]

AuthorityOf(j, state) == [state |-> state, id |-> j.id, dst |-> j.dst]

\* The source is gated before anything is copied.
GateSource(s) ==
  LET j == journal[s]
  IN /\ pc[s] = "recorded"
     /\ CASE Belongs(marker[s], j) -> Goto(s, "gated") /\ UNCHANGED marker
          [] marker[s] = NoMarker /\ j.phase = "copying" /\ SourceAsPlanned(s) ->
               SetMarker(s, AuthorityOf(j, "pending")) /\ Goto(s, "gated")
          [] OTHER -> Return(s) /\ UNCHANGED marker
     /\ UNCHANGED <<dirs, receipt, journals, files, databases, users>>

\* fs::create_dir, and the checks on a directory that was already there.  No
\* lease of the destination is held yet.
MakeDestination(s) ==
  LET j == journal[s]
      d == j.dst
  IN /\ pc[s] = "gated"
     /\ dirs' = dirs \cup {d}
     /\ CASE d \notin dirs -> Goto(s, "created")
          [] d \in dirs /\ (marker[d] # NoMarker \/ HasReceipt(d, j.id)) -> Goto(s, "reused")
          [] OTHER -> Return(s)
     /\ UNCHANGED <<marker, receipt, journals, files, databases, users>>

\* The destination's exclusive lease, tried once.  A created destination is
\* then gated; its marker is published only if none appeared meanwhile.
LockCreated(s) ==
  LET j == journal[s]
      d == j.dst
  IN /\ pc[s] = "created"
     /\ IF CanLockExclusively(d) /\ marker[d] = NoMarker
          THEN /\ SetMarker(d, AuthorityOf(j, "pending"))
               /\ pc' = [pc EXCEPT ![s] = "locked"]
               /\ leased' = leased \cup {s}
               /\ UNCHANGED target
          ELSE Return(s) /\ UNCHANGED marker
     /\ UNCHANGED <<dirs, receipt, journals, files, databases, users>>

\* Regression: a blocking lock instead of one try.
LockReusedWaiting(s) ==
  /\ pc[s] = "reused"
  /\ CanLockExclusively(journal[s].dst)
  /\ pc' = [pc EXCEPT ![s] = "locked"]
  /\ leased' = leased \cup {s}
  /\ UNCHANGED <<disk, target, users>>

LockReused(s) ==
  /\ pc[s] = "reused"
  /\ IF CanLockExclusively(journal[s].dst)
       THEN /\ pc' = [pc EXCEPT ![s] = "locked"]
            /\ leased' = leased \cup {s}
            /\ UNCHANGED target
       ELSE Return(s)
  /\ UNCHANGED <<disk, users>>

\* Regression: an unmarked destination is copied to as well.
MayCopyUnmarked(s) ==
  LET m == marker[journal[s].dst]
  IN (m = NoMarker \/ PendingFor(m, journal[s])) /\ SourceAsPlanned(s)

\* Gated for this transfer, with the source as reviewed.
MayCopy(s) == PendingFor(marker[journal[s].dst], journal[s]) /\ SourceAsPlanned(s)

\* The activated copy, which may hold new saves.
AlreadyActive(s) ==
  LET j == journal[s]
  IN /\ marker[j.dst] = NoMarker /\ HasReceipt(j.dst, j.id)
     /\ marker[s].state = "moved" /\ j.phase \in {"published", "complete"}

\* Only the bookkeeping of an activated copy is finished.
AdmitDestination(s) ==
  /\ pc[s] = "locked"
  /\ CASE MayCopy(s) -> Goto(s, "copying") /\ UNCHANGED databases
       [] ~MayCopy(s) /\ AlreadyActive(s) ->
            Initialize(journal[s].dst) /\ Goto(s, "finishing")
       [] OTHER -> Return(s) /\ UNCHANGED databases
  /\ UNCHANGED <<roots, journals, files, users>>

(********************************* Copying *********************************)

\* Files are published one at a time and never over an existing one.
CopyFile(s, v) ==
  LET j == journal[s]
  IN /\ pc[s] = "copying"
     /\ v \in j.files \ files[j.dst]
     /\ IF v \in files[s]
          THEN /\ files' = [files EXCEPT ![j.dst] = @ \cup {v}]
               /\ UNCHANGED command
          ELSE Return(s) /\ UNCHANGED files
     /\ UNCHANGED <<roots, journals, databases, users>>

\* copy_database: VACUUM INTO a private file, published unless one exists.
CopyDatabase(s) ==
  LET j == journal[s]
      d == j.dst
  IN /\ pc[s] = "copying"
     /\ j.files \subseteq files[d]
     /\ IF d \in dbs
          THEN UNCHANGED databases
          ELSE /\ dbs' = dbs \cup {d}
               /\ settings' = [settings EXCEPT ![d] = settings[s]]
               /\ activity' = [activity EXCEPT ![d] = activity[s]]
     /\ Goto(s, "copied")
     /\ UNCHANGED <<roots, journals, files, users>>

\* verify_destination, then verify_source_plan once more.
DestinationAsPlanned(j) ==
  files[j.dst] = j.files /\ settings[j.dst] = j.settings

CheckCopies(s) ==
  /\ pc[s] = "copied"
  /\ IF DestinationAsPlanned(journal[s]) /\ SourceAsPlanned(s)
       THEN Goto(s, "checked")
       ELSE Return(s)
  /\ UNCHANGED <<disk, users>>

WriteReceipt(s) ==
  LET j == journal[s]
  IN /\ pc[s] = "checked"
     /\ IF receipt[j.dst] \in {NoId, j.id}
          THEN receipt' = [receipt EXCEPT ![j.dst] = j.id] /\ Goto(s, "receipted")
          ELSE Return(s) /\ UNCHANGED receipt
     /\ UNCHANGED <<dirs, marker, journals, files, databases, users>>

(******************************* Publication *******************************)

SetPhase(s, phase) == journal' = [journal EXCEPT ![s].phase = phase]

JournalVerified(s) ==
  /\ pc[s] = "receipted"
  /\ SetPhase(s, "verified")
  /\ Goto(s, "verified")
  /\ UNCHANGED <<roots, archived, files, databases, users>>

\* Regression: the destination is activated while the source is only gated.
RetireSourceSkipped(s) ==
  /\ pc[s] = "verified"
  /\ Goto(s, "moved")
  /\ UNCHANGED <<disk, users>>

\* The source is retired first ...
RetireSource(s) ==
  /\ pc[s] = "verified"
  /\ SetMarker(s, AuthorityOf(journal[s], "moved"))
  /\ Goto(s, "moved")
  /\ UNCHANGED <<dirs, receipt, journals, files, databases, users>>

JournalPublished(s) ==
  /\ pc[s] = "moved"
  /\ SetPhase(s, "published")
  /\ Goto(s, "published")
  /\ UNCHANGED <<roots, archived, files, databases, users>>

\* ... and only then is the destination's gate removed.
ActivateDestination(s) ==
  LET j == journal[s]
      d == j.dst
  IN /\ pc[s] = "published"
     /\ IF HasReceipt(d, j.id) /\ PendingFor(marker[d], j)
          THEN SetMarker(d, NoMarker) /\ Goto(s, "finishing")
          ELSE Return(s) /\ UNCHANGED marker
     /\ UNCHANGED <<dirs, receipt, journals, files, databases, users>>

\* finish_activity_once: a row with the other outcome, or none, is an error.
FinishActivity(s, r, outcome, next) ==
  /\ IF activity[r][journal[s].id] \in {"running", outcome}
       THEN /\ activity' = [activity EXCEPT ![r][journal[s].id] = outcome]
            /\ Goto(s, next)
       ELSE Return(s) /\ UNCHANGED activity
  /\ UNCHANGED <<roots, journals, files, dbs, settings, users>>

FinishMove(s) ==
  pc[s] = "finishing" /\ FinishActivity(s, journal[s].dst, "succeeded", "finished")

JournalComplete(s) ==
  /\ pc[s] = "finished"
  /\ SetPhase(s, "complete")
  /\ Return(s)
  /\ UNCHANGED <<roots, archived, files, databases, users>>

(********************************* Aborting ********************************)

\* abort_library_move up to what it reads of an unleased destination.
AbortRefused(s) ==
  \/ marker[s] # NoMarker /\ (marker[s].state = "moved" \/ marker[s].id # journal[s].id)
  \/ journal[s].phase \in {"published", "complete"}

AbortMove(s) ==
  LET j == journal[s]
  IN /\ OpenExclusive(s)
     /\ CASE j.phase = "aborted" -> Goto(s, "abort journaled")
          [] j.phase \in {"copying", "verified"} /\ ~AbortRefused(s)
               /\ marker[j.dst] # NoMarker -> Goto(s, "abort")
          [] j.phase \in {"copying", "verified"} /\ ~AbortRefused(s)
               /\ marker[j.dst] = NoMarker /\ j.dst \notin dbs -> Goto(s, "abort locked")
          [] OTHER -> UNCHANGED command
     /\ UNCHANGED <<roots, journals, files, users>>

AbortLock(s) ==
  LET j == journal[s]
  IN /\ pc[s] = "abort"
     /\ IF CanLockExclusively(j.dst) /\ PendingFor(marker[j.dst], j)
          THEN /\ pc' = [pc EXCEPT ![s] = "abort locked"]
               /\ leased' = leased \cup {s}
               /\ UNCHANGED target
          ELSE Return(s)
     /\ UNCHANGED <<disk, users>>

AbortRecord(s) == pc[s] = "abort locked" /\ RecordActivity(s, "abort recorded")

AbortFail(s) ==
  pc[s] = "abort recorded" /\ FinishActivity(s, s, "failed", "abort failed")

JournalAborted(s) ==
  /\ pc[s] = "abort failed"
  /\ SetPhase(s, "aborted")
  /\ Goto(s, "abort journaled")
  /\ UNCHANGED <<roots, archived, files, databases, users>>

MayUngateMoved(s) == marker[s].id = journal[s].id /\ marker[s].state = "moved"  \* regression

\* abort_source: only a pending marker of this transfer is removed.
MayUngate(s) == marker[s].id = journal[s].id /\ marker[s].state = "pending"

UngateSource(s) ==
  /\ pc[s] = "abort journaled"
  /\ marker' = IF MayUngate(s) THEN [marker EXCEPT ![s] = NoMarker] ELSE marker
  /\ Return(s)
  /\ UNCHANGED <<dirs, receipt, journals, files, databases, users>>

\* A crash, a power loss or an I/O error ends the command where it is.
Crash(s) ==
  /\ pc[s] # "idle"
  /\ Return(s)
  /\ UNCHANGED <<disk, users>>

(****************************** Specification ******************************)

Continue(s) ==
  \/ EnsureActivity(s) \/ GateSource(s) \/ MakeDestination(s)
  \/ LockCreated(s) \/ LockReused(s) \/ AdmitDestination(s)
  \/ (\E v \in Data : CopyFile(s, v)) \/ CopyDatabase(s) \/ CheckCopies(s)
  \/ WriteReceipt(s) \/ JournalVerified(s) \/ RetireSource(s)
  \/ JournalPublished(s) \/ ActivateDestination(s) \/ FinishMove(s)
  \/ JournalComplete(s)

Abort(s) ==
  \/ AbortLock(s) \/ AbortRecord(s) \/ AbortFail(s) \/ JournalAborted(s)
  \/ UngateSource(s)

Create(s) == ArchiveJournal(s) \/ \E id \in Ids : CreateJournal(s, id)

\* What a running command does next.
Step(s) == Create(s) \/ Continue(s) \/ Abort(s)

Command(s) ==
  \/ \E d \in Roots : StartMove(s, d)
  \/ ResumeMove(s) \/ AbortMove(s)

Stay(c) ==
  \/ LockShared(c) \/ OpenTarget(c) \/ Close(c)
  \/ \E v \in Saves : Write(c, v) \/ Delete(c, v)

ClientStep(c) == Stay(c) \/ \E r \in Roots : Arrive(c, r)

Next ==
  \/ \E s \in Roots : Command(s) \/ Step(s) \/ Crash(s)
  \/ \E c \in Clients : ClientStep(c)
  \/ \E r \in Roots, v \in Edits : Edit(r, v)

Spec == Init /\ [][Next]_vars

(******************************** Properties *******************************)

\* What a client acknowledged under a root is there for every later client
\* that opens the same root, however often the library was moved, aborted or
\* resumed in between (the copy, the verification and the order of
\* publication in continue_move).
SavesFollowTheLibrary ==
  \A c \in Clients : client[c].pc = "open" =>
    acked[client[c].asked] \subseteq Holdings(client[c].at)

Writable(r) == r \in dirs /\ marker[r] = NoMarker

\* The two roots of a transfer are never both writable: a copy that carries
\* the receipt and has lost its gate means that the source is retired to it
\* (RetireSource before ActivateDestination, and abort's refusals).
OneWritableRoot ==
  \A s \in Roots : journal[s].id # NoId /\ HasReceipt(journal[s].dst, journal[s].id)
      /\ Writable(journal[s].dst)
    => /\ marker[s] = AuthorityOf(journal[s], "moved")
       /\ journal[s].phase \in {"published", "complete"}

\* Two clients that ask for the same root never work on different copies.
ClientsAgreeOnTheRoot ==
  \A b, c \in Clients :
    client[b].pc = "open" /\ client[c].pc = "open" /\ client[b].asked = client[c].asked
      => client[b].at = client[c].at

\* No command moves, gates or activates a root while a client has it open.
OpenRootsAreUngated ==
  \A c \in Clients : client[c].pc = "open" => Writable(client[c].at)

\* Recovery never replays the old library over an activated destination,
\* which may hold newer saves or may have lost some: what is in it changes
\* through its clients, or behind Portcove's back.
RecoveryNeverReplays ==
  [][\A d \in Roots : Writable(d) /\ Holdings(d)' # Holdings(d)
       => acked' # acked \/ \E v \in Edits : Edit(d, v)]_vars

\* An aborted transfer is over: its destination never becomes writable.
AbortIsFinal ==
  [][\A s \in Roots : journal[s].phase = "aborted" /\ journal'[s].id = journal[s].id
       => journal'[s].phase = "aborted" /\ marker'[s] # AuthorityOf(journal[s], "moved")]_vars

\* A command never waits for a lease: it returns, whoever holds one.
EveryCommandReturns == \A s \in Roots : []<>(pc[s] = "idle")

(*************************** Inductive invariant ***************************)

Starting == {"planned", "archived"}
CopySteps == {"copying", "copied", "checked", "receipted", "verified", "moved", "published"}
CopiedSteps == CopySteps \ {"copying"}
LockedSteps == CopySteps \cup {"locked", "finishing", "finished"}
AbortSteps == {"abort locked", "abort recorded", "abort failed"}

\* A command acts on a journal, but for the start of a move, which acts on an
\* unmarked source.
StepsHaveAJournal ==
  \A s \in Roots : pc[s] \notin Starting \cup {"idle"} => journal[s] # NoJournal

StartsAreUnmarked ==
  \A s \in Roots : pc[s] \in Starting => marker[s] = NoMarker /\ target[s] \in Roots \ {s}

DestinationsDiffer == \A s \in Roots : journal[s].dst # s

\* A transfer identity is never used twice, and a receipt names a known one.
IdsAreUnique ==
  \A s, q \in Roots : journal[s] # NoJournal /\ journal[s].id = journal[q].id => s = q

PredecessorsAreKept ==
  \A s \in Roots : pc[s] = "archived" => journal[s].id \in archived[s]

ReceiptsAreKnown == \A r \in Roots : receipt[r] \in UsedIds \cup {NoId}

\* The lease of a destination excludes its own commands and other moves to it.
LeasesAreHeldInSteps ==
  \A s \in leased : pc[s] \in LockedSteps \cup AbortSteps \cup {"abort journaled"}

StepsHoldLeases == \A s \in Roots : pc[s] \in LockedSteps => s \in leased

LeasedRootsAreIdle == \A s \in leased : pc[journal[s].dst] = "idle"

LeasesExclude == \A s, q \in leased : journal[q].dst = journal[s].dst => q = s

\* What a command has established by the time it takes a step.
SourcesAreGated ==
  \A s \in Roots : pc[s] \in {"gated", "created", "reused"} \cup LockedSteps =>
    Belongs(marker[s], journal[s])

CopiesAreGated ==
  \A s \in Roots : pc[s] \in CopySteps => PendingFor(marker[journal[s].dst], journal[s])

CopiesHaveADatabase ==
  \A s \in Roots : pc[s] \in CopiedSteps => journal[s].dst \in dbs

RetiredBeforePublished ==
  \A s \in Roots :
    /\ pc[s] \in {"moved", "published"} => marker[s] = AuthorityOf(journal[s], "moved")
    /\ pc[s] = "published" => journal[s].phase = "published"

AbortsAreUnpublished ==
  \A s \in Roots : pc[s] \in AbortSteps =>
    \/ s \in leased /\ PendingFor(marker[journal[s].dst], journal[s])
    \/ receipt[journal[s].dst] # journal[s].id

\* A destination with its receipt is gated for its move, or its source is
\* retired to it; and the receipt is written after the database.
ReceiptsHaveADatabase == \A r \in Roots : receipt[r] # NoId => r \in dbs

ReceiptsAreGuarded ==
  \A s \in Roots : journal[s] # NoJournal /\ HasReceipt(journal[s].dst, journal[s].id) =>
    \/ PendingFor(marker[journal[s].dst], journal[s])
    \/ /\ marker[s] = AuthorityOf(journal[s], "moved")
       /\ journal[s].phase \in {"published", "complete"}

MoveInvariant ==
  /\ TypeOK
  /\ StepsHaveAJournal /\ StartsAreUnmarked /\ DestinationsDiffer
  /\ IdsAreUnique /\ PredecessorsAreKept /\ ReceiptsAreKnown
  /\ LeasesAreHeldInSteps /\ StepsHoldLeases /\ LeasedRootsAreIdle /\ LeasesExclude
  /\ SourcesAreGated /\ CopiesAreGated /\ CopiesHaveADatabase /\ RetiredBeforePublished
  /\ AbortsAreUnpublished
  /\ ReceiptsHaveADatabase /\ ReceiptsAreGuarded

(******************************* Refinement ********************************)

HiddenRoots == {d \in Roots : marker[d].state = "pending" /\ marker[d].dst = d}

Home == INSTANCE LibraryHome
  WITH forward <- [r \in Roots |->
                     IF marker[r].state = "moved" THEN marker[r].dst ELSE r],
       content <- [r \in Roots |->
                     IF r \in HiddenRoots THEN {} ELSE Holdings(r) \cap Saves],
       hidden <- HiddenRoots

\* Every step of moves, crashes and clients is a step of LibraryHome, or
\* changes nothing a client could see.
LibrariesHaveOneHome == Home!Spec

==============================================================================
