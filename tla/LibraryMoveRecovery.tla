------------------------- MODULE LibraryMoveRecovery -------------------------
(***************************************************************************)
(* What a user who retries gets from LibraryMove: every library comes      *)
(* back.  At some point crashes stop and no new client arrives; resume and *)
(* abort are asked for again and again; a client does not stay between     *)
(* taking a lease and learning what the root is.                           *)
(***************************************************************************)
EXTENDS LibraryMove

VARIABLE settled  \* nothing crashes and nobody arrives any more

allVars == <<vars, settled>>

Settle == ~settled /\ settled' = TRUE /\ UNCHANGED vars

RecoveryNext ==
  \/ /\ \/ \E s \in Roots : Command(s) \/ Step(s)
        \/ \E c \in Clients : Stay(c)
        \/ \E r \in Roots, v \in Edits : Edit(r, v)
     /\ UNCHANGED settled
  \/ /\ ~settled
     /\ (\E s \in Roots : Crash(s)) \/ (\E c \in Clients, r \in Roots : Arrive(c, r))
     /\ UNCHANGED settled
  \/ Settle

\* Steps are told apart from crashes, which may look like a command's return.
PatientSpec ==
  /\ Init /\ settled = FALSE
  /\ [][RecoveryNext]_allVars
  /\ WF_allVars(Settle)
  /\ \A s \in Roots :
       /\ WF_allVars(Step(s) /\ UNCHANGED settled)
       /\ SF_allVars(ResumeMove(s) /\ UNCHANGED settled)
       /\ SF_allVars(AbortMove(s) /\ UNCHANGED settled)
  /\ \A c \in Clients : WF_allVars(OpenTarget(c) /\ UNCHANGED settled)

\* Another library, or another transfer, holds the directory that this move
\* chose: the code then retains everything and waits for a person.
Contested(j) ==
  \/ marker[j.dst] # NoMarker /\ ~Belongs(marker[j.dst], j)
  \/ marker[j.dst] = NoMarker /\ j.dst \in dbs /\ ~HasReceipt(j.dst, j.id)

GatedSource(s) == marker[s].state = "pending" /\ marker[s].dst # s

\* A library gated by its own move comes back, at one root or the other, if
\* somebody keeps resuming and aborting: no crash in continue_move or
\* abort_library_move leaves a gate that no command can open.
GateIsOpened ==
  \A s \in Roots :
    GatedSource(s) ~> (~GatedSource(s) \/ Contested(journal[s]))

\* A retired source leads to a library that can be opened: a crash between
\* RetireSource and ActivateDestination is repaired by resume_library_move.
RetiredSourceLeadsSomewhere ==
  \A s \in Roots :
    (marker[s].state = "moved") ~> (marker[s].state = "moved" /\ Writable(marker[s].dst))

==============================================================================
