---------------------------- MODULE VersionSwitch ---------------------------
(***************************************************************************)
(* Moving a game to another installed version: rollback to the previous    *)
(* one (service.rs, rollback) and activation of a staged one, which keeps  *)
(* a journal (service.rs, activate_staged_locked; recovery.rs,             *)
(* recover_activation).  Each collects the active version's saves if it    *)
(* ran, provides them to the target, and only then moves the pointers.     *)
(***************************************************************************)
EXTENDS PlayerData

Elsewhere == <<sessionVars, backupVars>>

Switching == {"rollback", "activate", "recover activate"}
Target(kind) == IF kind = "rollback" THEN previous ELSE activation

\* Regression of BeginRollback: nobody asks whether there is a previous version.
RollbackToNothing ==
    /\ Lockable /\ Collectable
    /\ op' = CollectFirst("rollback", "provide", previous)
    /\ UNCHANGED <<copyVars, versionVars, Elsewhere, mishaps>>

BeginRollback ==
    /\ Lockable /\ previous # None /\ Collectable
    /\ op' = CollectFirst("rollback", "provide", previous)
    /\ UNCHANGED <<copyVars, versionVars, Elsewhere, mishaps>>

\* Bound: the module follows one activation journal at a time.
BeginActivation ==
    /\ Lockable /\ staged # None /\ activation = None /\ Collectable
    /\ activation' = staged
    /\ op' = CollectFirst("activate", "provide", staged)
    /\ UNCHANGED <<copyVars, active, previous, staged, Elsewhere, mishaps>>

ProvideToTarget ==
    /\ op.kind \in Switching /\ Copied("collect")
    /\ op' = Copying("provide", Target(op.kind))
    /\ UNCHANGED <<copyVars, versionVars, Elsewhere, mishaps>>

\* library.rollback and library.activate_staged, each one transaction.
MovePointers ==
    /\ op.kind \in Switching /\ Copied("provide")
    /\ active' = Target(op.kind)
    /\ previous' = active
    /\ IF op.kind = "rollback"
       THEN op' = Idle /\ UNCHANGED staged
       ELSE op' = Then("retire") /\ staged' = None
    /\ UNCHANGED <<copyVars, activation, Elsewhere, mishaps>>

RetireActivation ==
    /\ op.kind \in Switching /\ op.step = "retire"
    /\ activation' = None
    /\ op' = Idle
    /\ UNCHANGED <<copyVars, active, previous, staged, Elsewhere, mishaps>>

\* A failing step ends the command.  An activation command that had not reached
\* its commit takes its journal away with it.
SwitchFails ==
    /\ op.kind \in Switching
    /\ Mishap
    /\ activation' = IF op.kind = "activate" /\ op.step # "retire" THEN None ELSE activation
    /\ op' = Idle
    /\ UNCHANGED <<copyVars, active, previous, staged, Elsewhere>>

\* At the next start: an activation that reached its commit is only retired, one
\* that did not is done again from the collection on, if its target is still staged.
RecoverActivation ==
    /\ Lockable /\ activation # None
    /\ \/ /\ activation = active
          /\ op' = Command("recover activate", "retire")
       \/ /\ activation # active /\ activation = staged /\ Collectable
          /\ op' = CollectFirst("recover activate", "provide", activation)
    /\ UNCHANGED <<copyVars, versionVars, Elsewhere, mishaps>>

SwitchNext ==
    \/ BeginRollback \/ BeginActivation \/ ProvideToTarget \/ MovePointers
    \/ RetireActivation \/ SwitchFails \/ RecoverActivation
=============================================================================
