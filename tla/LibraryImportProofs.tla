------------------------- MODULE LibraryImportProofs -------------------------
(***************************************************************************)
(* Theorems about LibraryImport, for every set of commands, clients and    *)
(* versions and every history limit.                                       *)
(***************************************************************************)
EXTENDS LibraryImport, TLAPS

USE HistoryAssumption
USE DEF destination, history

(************************** One command at a time **************************)

CommandType ==
  cmd \in [Commands -> [op : {"none", "start", "resume", "abort"}, pc : Steps,
                        phase : Phase \cup {"none"}, new : BOOLEAN]]

\* What a step of p does to the commands.
Moves(p, step, phase) ==
  /\ CommandType'
  /\ cmd'[p].pc = step /\ cmd'[p].phase = phase
  /\ \A q \in Commands \ {p} : cmd'[q] = cmd[q]

\* Going on keeps the phase and the other commands.
LEMMA GoMoves ==
  ASSUME TypeOK, NEW p \in Commands, NEW step \in Steps, Go(p, step)
  PROVE  Moves(p, step, cmd[p].phase)
BY DEF TypeOK, CommandType, Moves, Go

\* A command that returns forgets its journal.
LEMMA ReturnMoves ==
  ASSUME TypeOK, NEW p \in Commands, Return(p)
  PROVE  Moves(p, "idle", "none")
BY DEF TypeOK, CommandType, Moves, Return, Idle, Steps, Phase

\* Writing the gate moves the phase on with it.
LEMMA WriteGateMoves ==
  ASSUME TypeOK, NEW p \in Commands, NEW phase \in Phase, NEW step \in Steps,
         WriteGate(p, phase, step)
  PROVE  /\ Moves(p, step, phase)
         /\ gate' = phase
         /\ UNCHANGED <<exists, archived, versions, user, restored, history,
                        input, client, removed>>
BY DEF TypeOK, CommandType, Moves, WriteGate

\* A step of the command that holds the lease disturbs nobody else.
LEMMA LeasedStepsAreAlone ==
  ASSUME ImportInvariant, NEW p \in Commands, cmd[p].pc \in Leased,
         NEW step \in Steps, NEW phase, Moves(p, step, phase), UNCHANGED client
  PROVE  /\ LeaseExcludes'
         /\ ClientsAreAdmitted'
         /\ \A q \in Commands \ {p} : StepIsCurrent(q)'
<1>1. client = {} /\ \A q \in Commands \ {p} : cmd'[q].pc \notin Leased
  BY DEF ImportInvariant, LeaseExcludes, HeldExclusively, Moves
<1>2. LeaseExcludes'
  BY <1>1 DEF LeaseExcludes, Moves
<1>3. ClientsAreAdmitted'
  BY <1>1 DEF ClientsAreAdmitted
<1>4. ASSUME NEW q \in Commands \ {p} PROVE StepIsCurrent(q)'
  <2>1. cmd'[q].pc \notin Leased /\ cmd'[q].pc \in Steps
    BY <1>1 DEF Moves, CommandType
  <2>. QED BY <2>1 DEF StepIsCurrent, Leased
<1>. QED BY <1>2, <1>3, <1>4

\* Taking the lease is possible only when no one relies on the destination.
LEMMA LeaseIsTakenAlone ==
  ASSUME ImportInvariant, NEW p \in Commands, CanLockExclusively,
         NEW step \in Steps, NEW phase, Moves(p, step, phase), UNCHANGED client
  PROVE  /\ LeaseExcludes'
         /\ ClientsAreAdmitted'
         /\ \A q \in Commands \ {p} : StepIsCurrent(q)'
<1>1. client = {} /\ \A q \in Commands \ {p} : cmd'[q].pc \notin Leased
  BY DEF CanLockExclusively, HeldExclusively, Moves
<1>2. LeaseExcludes'
  BY <1>1 DEF LeaseExcludes, Moves
<1>3. ClientsAreAdmitted'
  BY <1>1 DEF ClientsAreAdmitted
<1>4. ASSUME NEW q \in Commands \ {p} PROVE StepIsCurrent(q)'
  <2>1. cmd'[q].pc \notin Leased /\ cmd'[q].pc \in Steps
    BY <1>1 DEF Moves, CommandType
  <2>. QED BY <2>1 DEF StepIsCurrent, Leased
<1>. QED BY <1>2, <1>3, <1>4

\* A step that ends outside the lease and writes nothing keeps everything.
LEMMA UnleasedStepsKeepTheInvariant ==
  ASSUME ImportInvariant, NEW p \in Commands, NEW step \in Steps \ Leased, NEW phase,
         Moves(p, step, phase), exists' \in BOOLEAN,
         UNCHANGED <<gate, archived, versions, user, restored, history, input,
                     client, removed>>
  PROVE  ImportInvariant'
<1>1. TypeOK'
  BY DEF ImportInvariant, TypeOK, Moves, CommandType
<1>2. LeaseExcludes'
  <2>1. \A q \in Commands : cmd'[q].pc \in Leased => q # p /\ cmd[q].pc \in Leased
    BY DEF Moves
  <2>. QED BY <2>1 DEF ImportInvariant, LeaseExcludes, HeldExclusively
<1>3. ASSUME NEW q \in Commands PROVE StepIsCurrent(q)'
  <2>1. CASE q = p
    BY <2>1 DEF StepIsCurrent, Leased, Moves
  <2>2. CASE q # p
    <3>1. cmd'[q] = cmd[q]
      BY <2>2 DEF Moves
    <3>. QED BY <3>1 DEF ImportInvariant, StepIsCurrent, Whole
  <2>. QED BY <2>1, <2>2
<1>4. ClientsAreAdmitted' /\ OpenedIsWhole' /\ OutcomesAgree' /\ ImportNeverMerges'
  BY DEF ImportInvariant, ClientsAreAdmitted, OpenedIsWhole, Whole, OutcomesAgree, ImportNeverMerges
<1>. QED BY <1>1, <1>2, <1>3, <1>4 DEF ImportInvariant

(****************************** Start, recovery ****************************)

\* Actions of commands that have no lease keep the invariant.
LEMMA UnleasedActions ==
  ASSUME ImportInvariant, NEW p \in Commands,
         \/ Plan(p) \/ CreateDestination(p)
         \/ Observe(p, "resume") \/ Observe(p, "abort")
         \/ Refuse(p) \/ Crash(p)
  PROVE  ImportInvariant'
<1>a. TypeOK
  BY DEF ImportInvariant
<1>1. CASE Plan(p)
  <2>1. Moves(p, "planned", "none")
    BY <1>a, <1>1 DEF Plan, TypeOK, Moves, CommandType, Steps, Phase
  <2>. QED BY <1>a, <1>1, <2>1, UnleasedStepsKeepTheInvariant DEF Plan, TypeOK, Leased, Steps
<1>2. CASE CreateDestination(p)
  <2>1. Moves(p, "created", cmd[p].phase)
    BY <1>a, <1>2, GoMoves DEF CreateDestination, Steps
  <2>. QED BY <1>a, <1>2, <2>1, UnleasedStepsKeepTheInvariant DEF CreateDestination, Leased, Steps
<1>3. ASSUME NEW op \in {"resume", "abort"}, Observe(p, op) PROVE ImportInvariant'
  <2>1. Moves(p, "observed", Journal)
    BY <1>a, <1>3 DEF Observe, TypeOK, Moves, CommandType, Steps, Phase, Journal
  <2>. QED BY <1>a, <1>3, <2>1, UnleasedStepsKeepTheInvariant DEF Observe, TypeOK, Leased, Steps
<1>4. CASE Refuse(p) \/ Crash(p)
  <2>1. Moves(p, "idle", "none")
    BY <1>a, <1>4, ReturnMoves DEF Refuse, Crash
  <2>. QED BY <1>a, <1>4, <2>1, UnleasedStepsKeepTheInvariant DEF Refuse, Crash, TypeOK, Leased, Steps
<1>. QED BY <1>1, <1>2, <1>3, <1>4

\* Starting an import keeps it.
LEMMA StartActions ==
  ASSUME ImportInvariant, NEW p \in Commands, LockDestination(p) \/ WriteIntent(p)
  PROVE  ImportInvariant'
<1>a. TypeOK /\ OpenedIsWhole /\ OutcomesAgree /\ ImportNeverMerges
  BY DEF ImportInvariant
<1>1. CASE LockDestination(p)
  <2>1. Moves(p, "leased", cmd[p].phase)
    BY <1>a, <1>1, GoMoves DEF LockDestination, Steps
  <2>2. LeaseExcludes' /\ ClientsAreAdmitted' /\ \A q \in Commands \ {p} : StepIsCurrent(q)'
    BY <1>1, <2>1, LeaseIsTakenAlone DEF LockDestination, Steps
  <2>3. StepIsCurrent(p)'
    BY <2>1 DEF StepIsCurrent, Moves
  <2>4. TypeOK' /\ OpenedIsWhole' /\ OutcomesAgree' /\ ImportNeverMerges'
    BY <1>a, <1>1, <2>1 DEF LockDestination, TypeOK, Moves, CommandType, OpenedIsWhole, Whole,
                            OutcomesAgree, ImportNeverMerges
  <2>. QED BY <2>2, <2>3, <2>4 DEF ImportInvariant
<1>2. CASE WriteIntent(p)
  <2>1. /\ Moves(p, "entered", "copying")
        /\ gate' = "copying"
        /\ UNCHANGED <<exists, archived, versions, user, restored, history, input, client, removed>>
    BY <1>a, <1>2, WriteGateMoves DEF WriteIntent, Steps, Phase
  <2>2. LeaseExcludes' /\ ClientsAreAdmitted' /\ \A q \in Commands \ {p} : StepIsCurrent(q)'
    BY <1>2, <2>1, LeasedStepsAreAlone DEF WriteIntent, Leased, Steps
  <2>3. StepIsCurrent(p)'
    BY <2>1 DEF StepIsCurrent, Moves
  <2>4. TypeOK' /\ OpenedIsWhole' /\ OutcomesAgree' /\ ImportNeverMerges'
    BY <1>a, <1>2, <2>1 DEF WriteIntent, EmptyDestination, TypeOK, Moves, CommandType, Phase,
                            Published, OpenedIsWhole, OutcomesAgree, ImportNeverMerges
  <2>. QED BY <2>2, <2>3, <2>4 DEF ImportInvariant
<1>. QED BY <1>1, <1>2

\* Taking up an import again, or aborting it, keeps it.
LEMMA RecoverActions ==
  ASSUME ImportInvariant, NEW p \in Commands, Recover(p) \/ AbortStep(p)
  PROVE  ImportInvariant'
<1>a. /\ TypeOK /\ OpenedIsWhole /\ OutcomesAgree /\ ImportNeverMerges
      /\ StepIsCurrent(p)
  BY DEF ImportInvariant
<1>1. CASE Recover(p)
  <2>1. PICK step \in {"abort", "entered"} :
          /\ Moves(p, step, Journal)
          /\ Journal # "none" /\ Journal # "aborted"
          /\ step = "abort" => Journal \notin Published
    <3>1. Journal \in Phase
      BY <1>a, <1>1 DEF Recover, Readable, Journal, TypeOK, Phase
    <3>2. DEFINE next == IF cmd[p].op = "abort" THEN "abort" ELSE "entered"
    <3>3. next \in {"abort", "entered"} /\ next \in Steps
      BY DEF Steps
    <3>4. Moves(p, next, Journal)
      <4>1. cmd' = [cmd EXCEPT ![p].phase = Journal, ![p].pc = next]
        BY <1>1 DEF Recover, PhaseUnderLease
      <4>. HIDE DEF next
      <4>. QED BY <1>a, <3>1, <3>3, <4>1 DEF TypeOK, Moves, CommandType
    <3>5. Journal # "none" /\ Journal # "aborted" /\ (next = "abort" => Journal \notin Published)
      BY <1>1 DEF Recover, Readable, PhaseUnderLease, MayAbort
    <3>. QED BY <3>3, <3>4, <3>5
  <2>2. LeaseExcludes' /\ ClientsAreAdmitted' /\ \A q \in Commands \ {p} : StepIsCurrent(q)'
    BY <1>1, <2>1, LeaseIsTakenAlone DEF Recover, Steps
  <2>3. StepIsCurrent(p)'
    BY <1>a, <1>1, <2>1 DEF Recover, Journal, TypeOK, Phase, Published, StepIsCurrent, Moves
  <2>4. TypeOK' /\ OpenedIsWhole' /\ OutcomesAgree' /\ ImportNeverMerges'
    BY <1>a, <1>1, <2>1 DEF Recover, TypeOK, Moves, CommandType, OpenedIsWhole, Whole,
                            OutcomesAgree, ImportNeverMerges
  <2>. QED BY <2>2, <2>3, <2>4 DEF ImportInvariant
<1>2. CASE BeginAbort(p)
  <2>1. Moves(p, "abort begun", cmd[p].phase)
    BY <1>a, <1>2, GoMoves DEF BeginAbort, Steps
  <2>2. LeaseExcludes' /\ ClientsAreAdmitted' /\ \A q \in Commands \ {p} : StepIsCurrent(q)'
    BY <1>2, <2>1, LeasedStepsAreAlone DEF BeginAbort, Leased, Steps
  <2>3. StepIsCurrent(p)'
    BY <1>a, <1>2, <2>1 DEF BeginAbort, StepIsCurrent, Moves, Whole, EnsureActivity, HasActivity, Published
  <2>4. TypeOK' /\ OpenedIsWhole' /\ OutcomesAgree' /\ ImportNeverMerges'
    BY <1>a, <1>2, <2>1 DEF BeginAbort, TypeOK, Moves, CommandType, StepIsCurrent, OpenedIsWhole, Whole,
                            OutcomesAgree, ImportNeverMerges, EnsureActivity, HasActivity, Published
  <2>. QED BY <2>2, <2>3, <2>4 DEF ImportInvariant
<1>3. CASE RecordAbort(p)
  <2>1. Moves(p, "abort failed", cmd[p].phase)
    BY <1>a, <1>3, GoMoves DEF RecordAbort, Steps
  <2>2. LeaseExcludes' /\ ClientsAreAdmitted' /\ \A q \in Commands \ {p} : StepIsCurrent(q)'
    BY <1>3, <2>1, LeasedStepsAreAlone DEF RecordAbort, Leased, Steps
  <2>3. StepIsCurrent(p)'
    BY <1>a, <1>3, <2>1 DEF RecordAbort, StepIsCurrent, Moves, Whole, FinishActivity, Published
  <2>4. TypeOK' /\ OpenedIsWhole' /\ OutcomesAgree' /\ ImportNeverMerges'
    BY <1>a, <1>3, <2>1 DEF RecordAbort, TypeOK, Moves, CommandType, StepIsCurrent, OpenedIsWhole, Whole,
                            OutcomesAgree, ImportNeverMerges, FinishActivity, Published
  <2>. QED BY <2>2, <2>3, <2>4 DEF ImportInvariant
<1>4. CASE WriteAborted(p)
  <2>1. Moves(p, "idle", "none")
    BY <1>a, <1>4, ReturnMoves DEF WriteAborted
  <2>2. LeaseExcludes' /\ ClientsAreAdmitted' /\ \A q \in Commands \ {p} : StepIsCurrent(q)'
    BY <1>4, <2>1, LeasedStepsAreAlone DEF WriteAborted, Leased, Steps
  <2>3. StepIsCurrent(p)'
    BY <1>a, <1>4, <2>1 DEF WriteAborted, StepIsCurrent, Moves, Whole, Phase, Published
  <2>4. TypeOK' /\ OpenedIsWhole' /\ OutcomesAgree' /\ ImportNeverMerges'
    BY <1>a, <1>4, <2>1 DEF WriteAborted, TypeOK, Moves, CommandType, StepIsCurrent, OpenedIsWhole, Whole,
                            OutcomesAgree, ImportNeverMerges, Phase, Published
  <2>. QED BY <2>2, <2>3, <2>4 DEF ImportInvariant
<1>. QED BY <1>1, <1>2, <1>3, <1>4 DEF AbortStep

(***************************** Continue import *****************************)

\* Preparing the destination keeps it.
LEMMA PrepareActions ==
  ASSUME ImportInvariant, NEW p \in Commands, ContinueComplete(p) \/ Enter(p) \/ RestoreMetadata(p)
  PROVE  ImportInvariant'
<1>a. /\ TypeOK /\ OpenedIsWhole /\ OutcomesAgree /\ ImportNeverMerges
      /\ StepIsCurrent(p)
  BY DEF ImportInvariant
<1>1. CASE ContinueComplete(p)
  <2>1. Moves(p, "archiving", cmd[p].phase)
    BY <1>a, <1>1, GoMoves DEF ContinueComplete, Steps
  <2>2. LeaseExcludes' /\ ClientsAreAdmitted' /\ \A q \in Commands \ {p} : StepIsCurrent(q)'
    BY <1>1, <2>1, LeasedStepsAreAlone DEF ContinueComplete, Leased, Steps
  <2>3. StepIsCurrent(p)'
    BY <1>a, <1>1, <2>1 DEF ContinueComplete, StepIsCurrent, Moves, Whole
  <2>4. TypeOK' /\ OpenedIsWhole' /\ OutcomesAgree' /\ ImportNeverMerges'
    BY <1>a, <1>1, <2>1 DEF ContinueComplete, TypeOK, Moves, CommandType, StepIsCurrent, OpenedIsWhole, Whole,
                            OutcomesAgree, ImportNeverMerges
  <2>. QED BY <2>2, <2>3, <2>4 DEF ImportInvariant
<1>2. CASE Enter(p)
  <2>1. PICK step \in {"copying", "finishing"} :
          /\ Moves(p, step, cmd[p].phase)
          /\ step = "finishing" <=> cmd[p].phase = "published"
    BY <1>a, <1>2, GoMoves DEF Enter, MayReplay, Steps
  <2>2. LeaseExcludes' /\ ClientsAreAdmitted' /\ \A q \in Commands \ {p} : StepIsCurrent(q)'
    BY <1>2, <2>1, LeasedStepsAreAlone DEF Enter, Leased, Steps
  <2>3. StepIsCurrent(p)'
    BY <1>a, <1>2, <2>1 DEF Enter, HasActivity, MayContinue, EnsureActivity, TypeOK, Phase,
                            StepIsCurrent, Moves
  <2>4. TypeOK' /\ OpenedIsWhole' /\ OutcomesAgree' /\ ImportNeverMerges'
    BY <1>a, <1>2, <2>1 DEF Enter, HasActivity, MayContinue, EnsureActivity, TypeOK, Moves,
                            CommandType, Published, StepIsCurrent, OpenedIsWhole, Whole,
                            OutcomesAgree, ImportNeverMerges
  <2>. QED BY <2>2, <2>3, <2>4 DEF ImportInvariant
<1>3. CASE RestoreMetadata(p)
  <2>1. Moves(p, "restored", cmd[p].phase)
    BY <1>a, <1>3, GoMoves DEF RestoreMetadata, Steps
  <2>2. LeaseExcludes' /\ ClientsAreAdmitted' /\ \A q \in Commands \ {p} : StepIsCurrent(q)'
    BY <1>3, <2>1, LeasedStepsAreAlone DEF RestoreMetadata, Leased, Steps
  <2>3. StepIsCurrent(p)'
    BY <1>a, <1>3, <2>1 DEF RestoreMetadata, StepIsCurrent, Moves, Whole, CopiedContent, Published
  <2>4. TypeOK' /\ OpenedIsWhole' /\ OutcomesAgree' /\ ImportNeverMerges'
    BY <1>a, <1>3, <2>1 DEF RestoreMetadata, TypeOK, Moves, CommandType, StepIsCurrent, OpenedIsWhole, Whole,
                            OutcomesAgree, ImportNeverMerges, CopiedContent, Published
  <2>. QED BY <2>2, <2>3, <2>4 DEF ImportInvariant
<1>. QED BY <1>1, <1>2, <1>3

\* Copying what the backup holds keeps it.
LEMMA CopyActions ==
  ASSUME ImportInvariant, NEW p \in Commands, CopyStep(p)
  PROVE  ImportInvariant'
<1>a. /\ TypeOK /\ OpenedIsWhole /\ OutcomesAgree /\ ImportNeverMerges
      /\ StepIsCurrent(p)
  BY DEF ImportInvariant
<1>1. /\ UNCHANGED <<exists, gate, archived, restored, history, input, cmd, client, removed>>
      /\ versions \subseteq versions' /\ versions' \subseteq Versions
      /\ user' = user \/ (user = "none" /\ user' = "backup")
  BY <1>a DEF CopyStep, CopyVersion, CopyUserData, TypeOK
<1>2. TypeOK'
  BY <1>a, <1>1 DEF TypeOK
<1>3. LeaseExcludes' /\ ClientsAreAdmitted'
  BY <1>1 DEF ImportInvariant, LeaseExcludes, HeldExclusively, ClientsAreAdmitted
<1>4. Whole => Whole'
  BY <1>1 DEF Whole
<1>5. \A q \in Commands : StepIsCurrent(q)'
  BY <1>1, <1>4 DEF ImportInvariant, StepIsCurrent
<1>6. OpenedIsWhole' /\ OutcomesAgree' /\ ImportNeverMerges'
  BY <1>a, <1>1, <1>4 DEF OpenedIsWhole, OutcomesAgree, ImportNeverMerges
<1>. QED BY <1>2, <1>3, <1>5, <1>6 DEF ImportInvariant

\* Publishing and finishing keep it.
LEMMA PublishActions ==
  ASSUME ImportInvariant, NEW p \in Commands, 
         \/ WriteVerified(p) \/ RecordSuccess(p) \/ WritePublished(p)
         \/ WriteComplete(p) \/ ArchiveJournal(p) \/ RemoveGate(p)
  PROVE  ImportInvariant'
<1>a. /\ TypeOK /\ OpenedIsWhole /\ OutcomesAgree /\ ImportNeverMerges
      /\ StepIsCurrent(p)
  BY DEF ImportInvariant
<1>1. CASE WriteVerified(p)
  <2>1. /\ Moves(p, "verified", "verified")
        /\ gate' = "verified"
        /\ UNCHANGED <<exists, archived, versions, user, restored, history, input, client, removed>>
    BY <1>a, <1>1, WriteGateMoves DEF WriteVerified, Steps, Phase
  <2>2. LeaseExcludes' /\ ClientsAreAdmitted' /\ \A q \in Commands \ {p} : StepIsCurrent(q)'
    BY <1>1, <2>1, LeasedStepsAreAlone DEF WriteVerified, Leased, Steps
  <2>3. StepIsCurrent(p)'
    BY <1>a, <1>1, <2>1 DEF WriteVerified, StepIsCurrent, Moves, Whole, CopiedContent, Published
  <2>4. TypeOK' /\ OpenedIsWhole' /\ OutcomesAgree' /\ ImportNeverMerges'
    BY <1>a, <1>1, <2>1 DEF WriteVerified, TypeOK, Moves, CommandType, StepIsCurrent, OpenedIsWhole, Whole,
                            OutcomesAgree, ImportNeverMerges, CopiedContent, Published, Phase
  <2>. QED BY <2>2, <2>3, <2>4 DEF ImportInvariant
<1>2. CASE RecordSuccess(p)
  <2>1. Moves(p, "succeeded", cmd[p].phase)
    BY <1>a, <1>2, GoMoves DEF RecordSuccess, Steps
  <2>2. LeaseExcludes' /\ ClientsAreAdmitted' /\ \A q \in Commands \ {p} : StepIsCurrent(q)'
    BY <1>2, <2>1, LeasedStepsAreAlone DEF RecordSuccess, Leased, Steps
  <2>3. StepIsCurrent(p)'
    BY <1>a, <1>2, <2>1 DEF RecordSuccess, StepIsCurrent, Moves, Whole, FinishActivity, Published
  <2>4. TypeOK' /\ OpenedIsWhole' /\ OutcomesAgree' /\ ImportNeverMerges'
    BY <1>a, <1>2, <2>1 DEF RecordSuccess, TypeOK, Moves, CommandType, StepIsCurrent, OpenedIsWhole, Whole,
                            OutcomesAgree, ImportNeverMerges, FinishActivity, Published
  <2>. QED BY <2>2, <2>3, <2>4 DEF ImportInvariant
<1>3. CASE WritePublished(p)
  <2>1. /\ Moves(p, "finishing", "published")
        /\ gate' = "published"
        /\ UNCHANGED <<exists, archived, versions, user, restored, history, input, client, removed>>
    BY <1>a, <1>3, WriteGateMoves DEF WritePublished, Steps, Phase
  <2>2. LeaseExcludes' /\ ClientsAreAdmitted' /\ \A q \in Commands \ {p} : StepIsCurrent(q)'
    BY <1>3, <2>1, LeasedStepsAreAlone DEF WritePublished, Leased, Steps
  <2>3. StepIsCurrent(p)'
    BY <1>a, <1>3, <2>1 DEF WritePublished, StepIsCurrent, Moves, Whole, Published
  <2>4. TypeOK' /\ OpenedIsWhole' /\ OutcomesAgree' /\ ImportNeverMerges'
    BY <1>a, <1>3, <2>1 DEF WritePublished, TypeOK, Moves, CommandType, StepIsCurrent, OpenedIsWhole, Whole,
                            OutcomesAgree, ImportNeverMerges, Published, Phase
  <2>. QED BY <2>2, <2>3, <2>4 DEF ImportInvariant
<1>4. CASE WriteComplete(p)
  <2>1. /\ Moves(p, "archiving", "complete")
        /\ gate' = "complete"
        /\ UNCHANGED <<exists, archived, versions, user, restored, history, input, client, removed>>
    BY <1>a, <1>4, WriteGateMoves DEF WriteComplete, Steps, Phase
  <2>2. LeaseExcludes' /\ ClientsAreAdmitted' /\ \A q \in Commands \ {p} : StepIsCurrent(q)'
    BY <1>4, <2>1, LeasedStepsAreAlone DEF WriteComplete, Leased, Steps
  <2>3. StepIsCurrent(p)'
    BY <1>a, <1>4, <2>1 DEF WriteComplete, StepIsCurrent, Moves, Whole, Published
  <2>4. TypeOK' /\ OpenedIsWhole' /\ OutcomesAgree' /\ ImportNeverMerges'
    BY <1>a, <1>4, <2>1 DEF WriteComplete, TypeOK, Moves, CommandType, StepIsCurrent, OpenedIsWhole, Whole,
                            OutcomesAgree, ImportNeverMerges, Published, Phase
  <2>. QED BY <2>2, <2>3, <2>4 DEF ImportInvariant
<1>5. CASE ArchiveJournal(p)
  <2>1. Moves(p, "archived", cmd[p].phase)
    BY <1>a, <1>5, GoMoves DEF ArchiveJournal, Steps
  <2>2. LeaseExcludes' /\ ClientsAreAdmitted' /\ \A q \in Commands \ {p} : StepIsCurrent(q)'
    BY <1>5, <2>1, LeasedStepsAreAlone DEF ArchiveJournal, Leased, Steps
  <2>3. StepIsCurrent(p)'
    BY <1>a, <1>5, <2>1 DEF ArchiveJournal, StepIsCurrent, Moves, Whole, Published
  <2>4. TypeOK' /\ OpenedIsWhole' /\ OutcomesAgree' /\ ImportNeverMerges'
    BY <1>a, <1>5, <2>1 DEF ArchiveJournal, TypeOK, Moves, CommandType, StepIsCurrent, OpenedIsWhole, Whole,
                            OutcomesAgree, ImportNeverMerges, Published
  <2>. QED BY <2>2, <2>3, <2>4 DEF ImportInvariant
<1>6. CASE RemoveGate(p)
  <2>1. Moves(p, "idle", "none")
    BY <1>a, <1>6, ReturnMoves DEF RemoveGate
  <2>2. LeaseExcludes' /\ ClientsAreAdmitted' /\ \A q \in Commands \ {p} : StepIsCurrent(q)'
    BY <1>6, <2>1, LeasedStepsAreAlone DEF RemoveGate, Leased, Steps
  <2>3. StepIsCurrent(p)'
    BY <1>a, <1>6, <2>1 DEF RemoveGate, StepIsCurrent, Moves, Whole, Published
  <2>4. TypeOK' /\ OpenedIsWhole' /\ OutcomesAgree' /\ ImportNeverMerges'
    BY <1>a, <1>6, <2>1 DEF RemoveGate, TypeOK, Moves, CommandType, StepIsCurrent, OpenedIsWhole, Whole,
                            OutcomesAgree, ImportNeverMerges, Published
  <2>. QED BY <2>2, <2>3, <2>4 DEF ImportInvariant
<1>. QED BY <1>1, <1>2, <1>3, <1>4, <1>5, <1>6

(****************************** Everyone else ******************************)

\* Clients of the destination keep it.
LEMMA ClientActions ==
  ASSUME ImportInvariant, NEW c \in Clients,
         OpenLibrary(c) \/ CloseLibrary(c) \/ ClientStep(c)
  PROVE  ImportInvariant'
<1>a. /\ TypeOK /\ LeaseExcludes /\ OpenedIsWhole /\ OutcomesAgree /\ ImportNeverMerges
      /\ ClientsAreAdmitted
  BY DEF ImportInvariant
<1>1. CASE OpenLibrary(c)
  <2>1. TypeOK' /\ OpenedIsWhole' /\ OutcomesAgree' /\ ImportNeverMerges' /\ ClientsAreAdmitted'
    BY <1>a, <1>1 DEF OpenLibrary, Openable, TypeOK, OpenedIsWhole, Whole, OutcomesAgree,
                      ImportNeverMerges, ClientsAreAdmitted
  <2>2. LeaseExcludes'
    BY <1>a, <1>1 DEF OpenLibrary, LeaseExcludes, HeldExclusively
  <2>3. \A q \in Commands : StepIsCurrent(q)'
    BY <1>1 DEF OpenLibrary, ImportInvariant, StepIsCurrent, Whole
  <2>. QED BY <2>1, <2>2, <2>3 DEF ImportInvariant
<1>2. CASE CloseLibrary(c)
  <2>1. TypeOK' /\ OpenedIsWhole' /\ OutcomesAgree' /\ ImportNeverMerges' /\ ClientsAreAdmitted'
    BY <1>a, <1>2 DEF CloseLibrary, TypeOK, OpenedIsWhole, Whole, OutcomesAgree,
                      ImportNeverMerges, ClientsAreAdmitted
  <2>2. LeaseExcludes'
    BY <1>a, <1>2 DEF CloseLibrary, LeaseExcludes, HeldExclusively
  <2>3. \A q \in Commands : StepIsCurrent(q)'
    BY <1>2 DEF CloseLibrary, ImportInvariant, StepIsCurrent, Whole
  <2>. QED BY <2>1, <2>2, <2>3 DEF ImportInvariant
<1>3. CASE ClientStep(c)
  <2>1. /\ UNCHANGED <<exists, gate, archived, restored, input, cmd, client>>
        /\ client # {}
        /\ activity' = activity \/ (activity = "succeeded" /\ activity' = "absent")
        /\ versions \cup removed \subseteq versions' \cup removed'
        /\ user' = user \/ user' = "client"
    BY <1>3 DEF ClientStep, Save, RemoveVersion, FinishOtherActivity
  <2>2. TypeOK'
    <3>1. newer' \in 0..HistoryLimit - 1
      BY <1>a, <1>3 DEF ClientStep, Save, RemoveVersion, FinishOtherActivity, TypeOK
    <3>2. versions' \subseteq Versions /\ removed' \subseteq Versions
      BY <1>a, <1>3 DEF ClientStep, Save, RemoveVersion, FinishOtherActivity, TypeOK
    <3>. QED BY <1>a, <2>1, <3>1, <3>2 DEF TypeOK
  <2>3. LeaseExcludes' /\ \A q \in Commands : cmd'[q].pc \notin Leased /\ cmd'[q].pc \in Steps
    BY <1>a, <2>1 DEF LeaseExcludes, HeldExclusively, TypeOK
  <2>4. \A q \in Commands : StepIsCurrent(q)'
    BY <2>3 DEF StepIsCurrent, Leased
  <2>5. OpenedIsWhole' /\ OutcomesAgree' /\ ImportNeverMerges' /\ ClientsAreAdmitted'
    BY <1>a, <2>1 DEF OpenedIsWhole, Whole, OutcomesAgree, ImportNeverMerges, ClientsAreAdmitted,
                      Published
  <2>. QED BY <2>2, <2>3, <2>4, <2>5 DEF ImportInvariant
<1>. QED BY <1>1, <1>2, <1>3

\* A backup that changes or is unplugged keeps it.
LEMMA InputActions ==
  ASSUME ImportInvariant, EditInput \/ Disconnect \/ Reconnect \/ UNCHANGED vars
  PROVE  ImportInvariant'
<1>1. /\ input' \in {"reviewed", "edited", "offline"}
      /\ UNCHANGED <<destination, history, cmd, client, removed>>
  BY DEF EditInput, Disconnect, Reconnect, vars, ImportInvariant, TypeOK
<1>2. TypeOK'
  BY <1>1 DEF ImportInvariant, TypeOK
<1>3. LeaseExcludes'
  BY <1>1 DEF ImportInvariant, LeaseExcludes, HeldExclusively
<1>4. \A q \in Commands : StepIsCurrent(q)'
  BY <1>1 DEF ImportInvariant, StepIsCurrent, Whole
<1>5. ClientsAreAdmitted' /\ OpenedIsWhole' /\ OutcomesAgree' /\ ImportNeverMerges'
  BY <1>1 DEF ImportInvariant, ClientsAreAdmitted, OpenedIsWhole, Whole, OutcomesAgree,
              ImportNeverMerges
<1>. QED BY <1>2, <1>3, <1>4, <1>5 DEF ImportInvariant

(********************************* Theorems ********************************)

\* The invariant holds at the start.
LEMMA InvariantStarts == Init => ImportInvariant
<1>. SUFFICES ASSUME Init PROVE ImportInvariant
  OBVIOUS
<1>1. TypeOK
  <2>1. Idle \in [op : {"none", "start", "resume", "abort"}, pc : Steps,
                   phase : Phase \cup {"none"}, new : BOOLEAN]
    BY DEF Idle, Steps
  <2>2. cmd \in [Commands -> [op : {"none", "start", "resume", "abort"}, pc : Steps,
                             phase : Phase \cup {"none"}, new : BOOLEAN]]
    BY <2>1 DEF Init
  <2>3. newer \in 0..HistoryLimit - 1
    BY DEF Init
  <2>. QED BY <2>2, <2>3, Zenon DEF Init, TypeOK
<1>2. \A p \in Commands : cmd[p].pc = "idle"
  BY DEF Init, Idle
<1>3. LeaseExcludes /\ \A p \in Commands : StepIsCurrent(p)
  BY <1>2 DEF LeaseExcludes, HeldExclusively, Leased, StepIsCurrent
<1>4. ClientsAreAdmitted /\ OpenedIsWhole /\ OutcomesAgree /\ ImportNeverMerges
  BY DEF Init, ClientsAreAdmitted, OpenedIsWhole, OutcomesAgree, ImportNeverMerges, Published
<1>. QED BY <1>1, <1>3, <1>4 DEF ImportInvariant

\* Every step keeps the invariant.
LEMMA InvariantStays == ImportInvariant /\ [Next]_vars => ImportInvariant'
<1>1. ASSUME ImportInvariant, NEW p \in Commands, Step(p) PROVE ImportInvariant'
  BY <1>1, UnleasedActions, StartActions, RecoverActions, PrepareActions, CopyActions,
     PublishActions DEF Step, ContinueStep
<1>. QED BY <1>1, UnleasedActions, ClientActions, InputActions DEF Next

\* The inductive invariant of start_import, recover_import and continue_import:
\* whoever holds the lease works on the journal as it is, in every reachable
\* state, whatever was cut off before.
THEOREM ImportInvariantHolds == Spec => []ImportInvariant
BY InvariantStarts, InvariantStays, PTL DEF Spec

\* The journal, the activity and the archive agree: verify_publication_record
\* never meets a published journal of a failed import.
THEOREM ImportOutcomesAgree == Spec => []OutcomesAgree
<1>1. ImportInvariant => OutcomesAgree
  BY DEF ImportInvariant
<1>. QED BY <1>1, ImportInvariantHolds, PTL

\* check_open lets nobody into a part of a backup.
THEOREM ImportsOpenWhole == Spec => []NothingImportedIsMissing
<1>1. ImportInvariant => NothingImportedIsMissing
  BY DEF ImportInvariant, NothingImportedIsMissing, ClientsAreAdmitted, OpenedIsWhole, Whole
<1>. QED BY <1>1, ImportInvariantHolds, PTL

\* ensure_empty_destination under the lease keeps imports out of used libraries.
THEOREM ImportsDoNotMerge == Spec => []ImportNeverMerges
<1>1. ImportInvariant => ImportNeverMerges
  BY DEF ImportInvariant
<1>. QED BY <1>1, ImportInvariantHolds, PTL

\* No step of any command closes a gate that was open to clients.
THEOREM PublishedStaysPublished == Spec => PublicationIsPermanent
<1>1. ASSUME ImportInvariant, [Next]_vars, gate \in Published
      PROVE  gate' \in Published \cup {"none"}
  <2>1. ASSUME NEW p \in Commands, Step(p) PROVE gate' \in Published \cup {"none"}
    <3>1. CASE UNCHANGED gate
      BY <1>1, <3>1
    <3>2. CASE WriteIntent(p)
      BY <1>1, <3>2 DEF WriteIntent, EmptyDestination, Published
    <3>3. CASE WriteAborted(p)
      BY <1>1, <3>3 DEF WriteAborted, ImportInvariant, StepIsCurrent, Published
    <3>4. CASE WriteVerified(p)
      BY <1>1, <3>4 DEF WriteVerified, ImportInvariant, StepIsCurrent, Published
    <3>5. CASE WritePublished(p) \/ WriteComplete(p) \/ RemoveGate(p)
      BY <3>5 DEF WritePublished, WriteComplete, RemoveGate, WriteGate, Published
    <3>. QED BY <2>1, <3>1, <3>2, <3>3, <3>4, <3>5
         DEF Step, CreateDestination, LockDestination, Recover, AbortStep, BeginAbort, RecordAbort,
             ContinueStep, ContinueComplete, Enter, CopyStep, CopyVersion, CopyUserData,
             RestoreMetadata, RecordSuccess, ArchiveJournal, Refuse
  <2>2. CASE ~\E p \in Commands : Step(p)
    <3>1. UNCHANGED gate
      BY <1>1, <2>2 DEF Next, Plan, Observe, Crash, OpenLibrary, CloseLibrary, ClientStep, Save,
                        RemoveVersion, FinishOtherActivity, EditInput, Disconnect, Reconnect, vars
    <3>. QED BY <1>1, <3>1
  <2>. QED BY <2>1, <2>2
<1>2. ImportInvariant /\ [Next]_vars => [(gate \in Published) => gate' \in Published \cup {"none"}]_vars
  BY <1>1
<1>. QED BY <1>2, ImportInvariantHolds, PTL DEF Spec, PublicationIsPermanent

=============================================================================
