---------------------------- MODULE LaunchSession ---------------------------
(***************************************************************************)
(* A supervised launch (service.rs, supervise_launch_identified) and the   *)
(* recovery of one whose supervisor is gone (recover_launch_session).      *)
(*                                                                         *)
(* The supervisor holds the port lock from the request until the saves of  *)
(* the game are collected.  The session row is what survives it: preparing *)
(* and spawning before the game exists, running and collecting after.      *)
(***************************************************************************)
EXTENDS PlayerData

Others == <<versionVars, backupVars>>

\* The row, moved to its next phase or with what is known of the game.
InPhase(phase) == [session EXCEPT !.phase = phase]
WithChild(child) == [session EXCEPT !.child = child]

\* finish_launch_session: the outcome and the activity in one transaction.
Close == session' = NoSession

\* The supervisor gives up the lock and exits; the row stays for recovery.
Leave == op' = Idle /\ UNCHANGED session

-----------------------------------------------------------------------------
(* Preparing: nothing of the game runs yet and a request can still cancel. *)

\* Regression of AcceptLaunch: the pending restore is not looked at.
AcceptDuringRestore ==
    /\ Lockable
    /\ op' = CollectFirst("launch", "provide", active)
    /\ session' = [NoSession EXCEPT !.phase = "preparing", !.install = active]
    /\ UNCHANGED <<copyVars, played, written, Others, mishaps>>

AcceptLaunch ==
    /\ Lockable /\ NoRestorePending
    /\ op' = CollectFirst("launch", "provide", active)
    /\ session' = [NoSession EXCEPT !.phase = "preparing", !.install = active]
    /\ UNCHANGED <<copyVars, played, written, Others, mishaps>>

\* Any client, while the cancellation window is open.
RequestCancel ==
    /\ session.phase = "preparing" /\ session.window = "open" /\ ~session.asked
    /\ session' = [session EXCEPT !.asked = TRUE]
    /\ UNCHANGED <<copyVars, played, written, Others, op, mishaps>>

\* A checkpoint sees the request, or a step of the preparation fails.
GiveUpPreparing ==
    /\ op.kind = "launch" /\ op.step \in {"collect", "provide", "close", "spawn"}
    /\ session.child = "none"
    /\ \/ session.asked /\ op.step \in {"collect", "provide"} /\ UNCHANGED mishaps
       \/ Mishap
    /\ Close /\ op' = Idle
    /\ UNCHANGED <<copyVars, played, written, Others>>

ProvideForLaunch ==
    /\ op.kind = "launch" /\ session.phase = "preparing" /\ Copied("collect")
    /\ op' = Copying("provide", session.install)
    /\ UNCHANGED <<copyVars, sessionVars, Others, mishaps>>

\* Regression of CloseWindow: the window closes over a request.
CloseOverRequest ==
    /\ op.kind = "launch" /\ Copied("provide")
    /\ session' = [session EXCEPT !.window = "closed"]
    /\ op' = Then("close")
    /\ UNCHANGED <<copyVars, played, written, Others, mishaps>>

\* begin_publication: one conditional update closes the window or finds the
\* request already there.
CloseWindow ==
    /\ op.kind = "launch" /\ Copied("provide")
    /\ ~session.asked
    /\ session' = [session EXCEPT !.window = "closed"]
    /\ op' = Then("close")
    /\ UNCHANGED <<copyVars, played, written, Others, mishaps>>

RecordSpawning ==
    /\ op.kind = "launch" /\ op.step = "close"
    /\ session' = InPhase("spawning")
    /\ op' = Then("spawn")
    /\ UNCHANGED <<copyVars, played, written, Others, mishaps>>

-----------------------------------------------------------------------------
(* The game.                                                               *)

Spawn ==
    /\ op.kind = "launch" /\ op.step = "spawn"
    /\ session' = WithChild("alive")
    /\ op' = Then("identify")
    /\ UNCHANGED <<copyVars, played, written, Others, mishaps>>

\* The game writes an entry, or deletes one, whoever supervises it.
GameWrites ==
    /\ session.child = "alive"
    /\ written < MaxVersion
    /\ written' = written + 1
    /\ \E e \in Entries, v \in {0, written + 1} :
         data' = [data EXCEPT ![session.install][e] = v]
    /\ UNCHANGED <<user, launched, session, played, Others, op, mishaps>>

GameExits ==
    /\ session.child = "alive"
    /\ session' = WithChild("gone")
    /\ UNCHANGED <<copyVars, played, written, Others, op, mishaps>>

\* The child's identity is read and recorded: as running, or as collecting when
\* it is gone before it could be identified.
RecordChild ==
    /\ op.kind = "launch" /\ op.step = "identify"
    /\ \E phase \in {"running", "collecting"} :
         /\ phase = "collecting" => session.child = "gone"
         /\ session' = InPhase(phase)
    /\ played' = played \cup {session.install}
    /\ op' = Then("mark")
    /\ UNCHANGED <<copyVars, written, Others, mishaps>>

\* It cannot be identified or recorded: it is killed, and the row, which still
\* says spawning, is finished as failed without collecting.
KillUnrecorded ==
    /\ op.kind = "launch" /\ op.step = "identify"
    /\ Mishap
    /\ session' = WithChild("gone")
    /\ op' = Then("finish")
    /\ UNCHANGED <<copyVars, played, written, Others>>

\* The marker; failing to write it is remembered and the game goes on.
WriteMarker ==
    /\ op.kind = "launch" /\ op.step = "mark"
    /\ \/ /\ launched' = launched \cup {session.install}
          /\ op' = Then("wait")
          /\ UNCHANGED mishaps
       \/ /\ Mishap
          /\ op' = Failing(Then("wait"))
          /\ UNCHANGED launched
    /\ UNCHANGED <<user, data, sessionVars, Others>>

\* child.wait returns; failing to move the row on is remembered too.
GameEnded ==
    /\ op.kind = "launch" /\ op.step = "wait" /\ session.child = "gone"
    /\ \/ /\ session' = InPhase("collecting")
          /\ op' = Copying("collect", session.install)
          /\ UNCHANGED mishaps
       \/ /\ Mishap
          /\ op' = Failing(Copying("collect", session.install))
          /\ UNCHANGED session
    /\ UNCHANGED <<copyVars, played, written, Others>>

\* child.wait fails, or an entry cannot be collected: the outcome is unknown,
\* so the row stays as it is.
LeaveUncertain ==
    /\ op.kind = "launch" /\ op.step \in {"wait", "collect"}
    /\ session.phase \in {"running", "collecting"}
    /\ Mishap
    /\ Leave
    /\ UNCHANGED <<copyVars, played, written, Others>>

FinishCollecting ==
    /\ op.kind \in {"launch", "recover launch"} /\ session.phase # "preparing"
    /\ Copied("collect")
    /\ op' = Then("finish")
    /\ UNCHANGED <<copyVars, sessionVars, Others, mishaps>>

\* Any remembered failure leaves the row; so does a failure to finish it.
Finish ==
    /\ op.kind \in {"launch", "recover launch"} /\ op.step = "finish"
    /\ \/ ~op.failed /\ Close /\ UNCHANGED mishaps
       \/ op.failed /\ UNCHANGED <<session, mishaps>>
       \/ Mishap /\ UNCHANGED session
    /\ op' = Idle
    /\ UNCHANGED <<copyVars, played, written, Others>>

-----------------------------------------------------------------------------
(* Recovery, at the start of a desktop or by an explicit command, once the *)
(* supervisor is gone.  A row that still says spawning is left alone.      *)

RecoverPreparing ==
    /\ LockFree /\ session.phase = "preparing"
    /\ Close
    /\ UNCHANGED <<copyVars, played, written, Others, op, mishaps>>

\* Regression of RecoverLaunch: a row that already says collecting is skipped.
RecoverRunningOnly ==
    /\ LockFree /\ session.phase = "running"
    /\ op' = Command("recover launch", "wait")
    /\ UNCHANGED <<copyVars, sessionVars, Others, mishaps>>

RecoverLaunch ==
    /\ LockFree /\ session.phase \in {"running", "collecting"}
    /\ op' = IF session.phase = "running"
             THEN Command("recover launch", "wait")
             ELSE On(Command("recover launch", "collect"), session.install)
    /\ UNCHANGED <<copyVars, sessionVars, Others, mishaps>>

\* Regression of RecoverEnded: the session is finished without collecting.
FinishUncollected ==
    /\ op.kind = "recover launch" /\ op.step = "wait" /\ session.child = "gone"
    /\ session' = InPhase("collecting")
    /\ op' = Then("finish")
    /\ UNCHANGED <<copyVars, played, written, Others, mishaps>>

\* wait_for_process_exit, then the row.
RecoverEnded ==
    /\ op.kind = "recover launch" /\ op.step = "wait" /\ session.child = "gone"
    /\ session' = InPhase("collecting")
    /\ op' = Copying("collect", session.install)
    /\ UNCHANGED <<copyVars, played, written, Others, mishaps>>

\* A failing step of the recovery leaves the row for the next one.
RecoverFails ==
    /\ op.kind = "recover launch" /\ op.step \in {"wait", "collect"}
    /\ Mishap
    /\ Leave
    /\ UNCHANGED <<copyVars, played, written, Others>>

Supervise ==
    \/ AcceptLaunch \/ GiveUpPreparing \/ ProvideForLaunch
    \/ CloseWindow \/ RecordSpawning \/ Spawn
    \/ RecordChild \/ KillUnrecorded \/ WriteMarker
    \/ GameEnded \/ LeaveUncertain \/ FinishCollecting \/ Finish

RecoverSession ==
    RecoverPreparing \/ RecoverLaunch \/ RecoverEnded \/ RecoverFails

LaunchNext ==
    Supervise \/ RecoverSession \/ RequestCancel \/ GameWrites \/ GameExits
=============================================================================
