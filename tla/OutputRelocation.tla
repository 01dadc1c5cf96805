--------------------------- MODULE OutputRelocation -------------------------
(***************************************************************************)
(* Moving the installed versions of a game to another folder              *)
(* (output_relocation.rs): copy the reviewed trees into private staging,   *)
(* rename each to its place, change all paths in one transaction, remove   *)
(* the old trees.  A journal is written between the steps, and the next    *)
(* start goes on from it.                                                  *)
(*                                                                         *)
(* A version's tree holds its own copy of the saves and the launched       *)
(* marker, so both are copied with it; data and launched are those at the  *)
(* path the database names.                                                *)
(***************************************************************************)
EXTENDS PlayerData

VARIABLES
    relocation,     \* the journal row of an unfinished relocation
    oldCopies       \* the trees left at the old paths after the paths changed

relocationVars == <<relocation, oldCopies>>
PlayerVars == <<user, versionVars, sessionVars, backupVars>>

\* What matters here of a version's tree.
Tree(i) == [saves |-> data[i], marked |-> i \in launched]
TreesOfVersions == [saves : Trees, marked : BOOLEAN]

NoRelocation ==
    [phase |-> "none", reviewed |-> [i \in Installs |-> NoTree], staged |-> None,
     copied |-> {}, placed |-> {}, moved |-> FALSE]

RelocationTypeOK ==
    /\ relocation \in
         [phase : {"none", "copying", "prepared", "published", "committed", "cleanup"},
          reviewed : [Installs -> TreesOfVersions \cup {NoTree}],
          staged : Installs \cup {None},
          copied : SUBSET Installs, placed : SUBSET Installs, moved : BOOLEAN]
    /\ oldCopies \in [Installs -> TreesOfVersions \cup {NoTree}]
    /\ relocation.phase = "none" => relocation = NoRelocation

Relocating == {"relocate", "recover relocate"}

\* authority_state: every row is the reviewed one, at its old or at its new path.
\* A row also says whether its version is staged.
Authority(moved) == relocation.moved = moved /\ staged = relocation.staged

\* verify_old_authority and copy_reviewed_tree: no file of a tree has changed.
SourcesAsReviewed == \A i \in Installs : Tree(i) = relocation.reviewed[i]

-----------------------------------------------------------------------------
(* relocate_output: the plan is made again under the lock, and journaled.  *)

BeginRelocation ==
    /\ Lockable /\ relocation.phase = "none"
    /\ relocation' = [NoRelocation EXCEPT
                        !.phase = "copying", !.staged = staged,
                        !.reviewed = [i \in Installs |-> Tree(i)]]
    /\ op' = Command("relocate", "copy")
    /\ UNCHANGED <<data, launched, oldCopies, PlayerVars, mishaps>>

CopyVersion ==
    /\ op.kind \in Relocating /\ op.step = "copy"
    /\ \E i \in Installs \ relocation.copied :
         relocation' = [relocation EXCEPT !.copied = @ \cup {i}]
    /\ UNCHANGED <<data, launched, oldCopies, PlayerVars, op, mishaps>>

PrepareRelocation ==
    /\ op.kind \in Relocating /\ op.step = "copy"
    /\ relocation.copied = Installs /\ SourcesAsReviewed
    /\ relocation' = [relocation EXCEPT !.phase = "prepared"]
    /\ op' = Then("place")
    /\ UNCHANGED <<data, launched, oldCopies, PlayerVars, mishaps>>

\* Regression of PlaceVersion: the staged copy is copied, not renamed.
PlaceCopy ==
    /\ op.kind \in Relocating /\ op.step = "place"
    /\ \E i \in relocation.copied \ relocation.placed :
         relocation' = [relocation EXCEPT !.placed = @ \cup {i}]
    /\ UNCHANGED <<data, launched, oldCopies, PlayerVars, op, mishaps>>

\* Of a staged and a final copy exactly one must be there.
PlaceVersion ==
    /\ op.kind \in Relocating /\ op.step = "place"
    /\ \E i \in relocation.copied \ relocation.placed :
         relocation' = [relocation EXCEPT !.copied = @ \ {i}, !.placed = @ \cup {i}]
    /\ UNCHANGED <<data, launched, oldCopies, PlayerVars, op, mishaps>>

PublishRelocation ==
    /\ op.kind \in Relocating /\ op.step = "place"
    /\ relocation.placed = Installs
    /\ relocation' = [relocation EXCEPT !.phase = "published"]
    /\ op' = Then("move")
    /\ UNCHANGED <<data, launched, oldCopies, PlayerVars, mishaps>>

\* commit_new_authority: from now on the versions are the copies.
MoveRows ==
    /\ op.kind \in Relocating /\ op.step = "move"
    /\ Authority(FALSE)
    /\ relocation' = [relocation EXCEPT !.moved = TRUE]
    /\ oldCopies' = [i \in Installs |-> Tree(i)]
    /\ data' = [i \in Installs |-> relocation.reviewed[i].saves]
    /\ launched' = {i \in Installs : relocation.reviewed[i].marked}
    /\ UNCHANGED <<PlayerVars, op, mishaps>>

CommitRelocation ==
    /\ op.kind \in Relocating /\ op.step = "move"
    /\ Authority(TRUE)
    /\ relocation' = [relocation EXCEPT !.phase = "committed"]
    /\ op' = Then("clean")
    /\ UNCHANGED <<data, launched, oldCopies, PlayerVars, mishaps>>

\* verify_remaining_tree: nothing in the old tree that was not reviewed.
Removable(i) ==
    oldCopies[i] # NoTree =>
      LET old == oldCopies[i]  reviewed == relocation.reviewed[i]
      IN  /\ \A e \in Entries : old.saves[e] \in {0, reviewed.saves[e]}
          /\ old.marked => reviewed.marked

RemoveOldCopy ==
    /\ op.kind \in Relocating /\ op.step = "clean"
    /\ Authority(TRUE)
    /\ \E i \in Installs :
         /\ oldCopies[i] # NoTree /\ Removable(i)
         /\ oldCopies' = [oldCopies EXCEPT ![i] = NoTree]
    /\ UNCHANGED <<data, launched, relocation, PlayerVars, op, mishaps>>

\* A tree that changed, or cannot be removed, is kept, and so is the journal.
KeepOldCopies ==
    /\ op.kind \in Relocating /\ op.step = "clean"
    /\ Authority(TRUE)
    /\ \/ /\ \E i \in Installs : ~Removable(i)
          /\ \A i \in Installs : oldCopies[i] # NoTree => ~Removable(i)
          /\ UNCHANGED mishaps
       \/ Mishap
    /\ relocation' = [relocation EXCEPT !.phase = "cleanup"]
    /\ op' = Idle
    /\ UNCHANGED <<data, launched, oldCopies, PlayerVars>>

RetireRelocation ==
    /\ op.kind \in Relocating /\ op.step = "clean"
    /\ Authority(TRUE)
    /\ \A i \in Installs : oldCopies[i] = NoTree
    /\ relocation' = NoRelocation
    /\ op' = Idle
    /\ UNCHANGED <<data, launched, oldCopies, PlayerVars, mishaps>>

-----------------------------------------------------------------------------
(* Any step may fail, a full or unplugged disk at the least; the journal   *)
(* stays, the lock does not, and the game can be played.                   *)

RelocationFails ==
    /\ op.kind \in Relocating
    /\ Mishap
    /\ op' = Idle
    /\ UNCHANGED <<data, launched, relocationVars, PlayerVars>>

\* At the next start.  Copying goes on only from the reviewed trees; later steps
\* look at the rows and at the copies.
Resumable ==
    CASE relocation.phase = "copying" -> Authority(FALSE) /\ SourcesAsReviewed
      [] relocation.phase = "prepared" -> TRUE
      [] relocation.phase = "published" -> staged = relocation.staged
      [] relocation.phase \in {"committed", "cleanup"} -> Authority(TRUE)
      [] OTHER -> FALSE

StepOf(phase) ==
    CASE phase = "copying" -> "copy"
      [] phase = "prepared" -> "place"
      [] phase = "published" -> "move"
      [] OTHER -> "clean"

\* Regression of RecoverRelocation: a finished move of the rows is not recognised.
RecoverUnmoved ==
    /\ Lockable /\ Resumable
    /\ relocation.moved => relocation.phase = "cleanup"
    /\ op' = Command("recover relocate", StepOf(relocation.phase))
    /\ UNCHANGED <<data, launched, relocationVars, PlayerVars, mishaps>>

RecoverRelocation ==
    /\ Lockable /\ Resumable
    /\ op' = Command("recover relocate", StepOf(relocation.phase))
    /\ UNCHANGED <<data, launched, relocationVars, PlayerVars, mishaps>>

RelocateOn ==
    \/ CopyVersion \/ PrepareRelocation \/ PlaceVersion \/ PublishRelocation
    \/ MoveRows \/ CommitRelocation \/ RemoveOldCopy \/ KeepOldCopies
    \/ RetireRelocation

RelocationNext ==
    BeginRelocation \/ RelocateOn \/ RelocationFails \/ RecoverRelocation
=============================================================================
