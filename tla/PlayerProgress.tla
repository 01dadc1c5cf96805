--------------------------- MODULE PlayerProgress ---------------------------
(***************************************************************************)
(* What Portcove promises about the progress a player makes in one game,   *)
(* without directories, journals, versions or locks: there is one current  *)
(* state of the saves; only the game changes it, or a restore the player   *)
(* confirmed, and a backup is a true copy of it.  PlayerLibrary implements *)
(* this module.                                                            *)
(***************************************************************************)
EXTENDS Naturals

CONSTANTS
    Entries,        \* the save files and settings the game declares
    Backups,        \* identities a backup may get
    MaxVersion,     \* bound: contents an entry may have; 0 is "no such entry"
    NoTree          \* a directory that does not exist

VARIABLES
    saves,          \* what the player would find in the game now
    before,         \* while a game is starting: what it was before
    game,           \* "off", "starting" until its start is on record, then "on"
    copies,         \* the backups the player is shown
    chosen          \* the snapshot of a restore that is under way

vars == <<saves, before, game, copies, chosen>>

Trees == [Entries -> 0 .. MaxVersion]
Empty == [e \in Entries |-> 0]

Init ==
    /\ saves \in Trees
    /\ before = Empty
    /\ game = "off"
    /\ copies = [b \in Backups |-> NoTree]
    /\ chosen = NoTree

\* A version may bring its own defaults for entries the player does not have,
\* never for one the player has.
Fills(t) == {u \in Trees : \A e \in Entries : t[e] = 0 \/ u[e] = t[e]}

Start ==
    /\ game = "off" /\ chosen = NoTree
    /\ game' = "starting"
    /\ before' = saves
    /\ saves' \in Fills(saves)
    /\ UNCHANGED <<copies, chosen>>

Report ==
    /\ game = "starting" /\ game' = "on"
    /\ before' = Empty
    /\ UNCHANGED <<saves, copies, chosen>>

Play(e, v) ==
    /\ game # "off"
    /\ saves' = [saves EXCEPT ![e] = v]
    /\ UNCHANGED <<before, game, copies, chosen>>

\* The game ends and what it wrote stays.
Stop ==
    /\ game # "off" /\ game' = "off"
    /\ before' = Empty
    /\ UNCHANGED <<saves, copies, chosen>>

\* The one way to lose something: a game whose start was never put on record is
\* stopped, and the player is told the launch failed.
Drop ==
    /\ game = "starting" /\ game' = "off"
    /\ saves' = before
    /\ before' = Empty
    /\ UNCHANGED <<copies, chosen>>

Copy(b) ==
    /\ game = "off"
    /\ copies[b] = NoTree
    /\ copies' = [copies EXCEPT ![b] = saves]
    /\ UNCHANGED <<saves, before, game, chosen>>

Delete(b) ==
    /\ copies[b] # NoTree
    /\ copies' = [copies EXCEPT ![b] = NoTree]
    /\ UNCHANGED <<saves, before, game, chosen>>

\* A restore is accepted only with the saves it will replace among the backups.
Choose(b) ==
    /\ game = "off" /\ chosen = NoTree
    /\ copies[b] # NoTree
    /\ saves = Empty \/ \E c \in Backups : copies[c] = saves
    /\ chosen' = copies[b]
    /\ UNCHANGED <<saves, before, game, copies>>

Refuse ==
    /\ chosen # NoTree /\ chosen' = NoTree
    /\ UNCHANGED <<saves, before, game, copies>>

Apply ==
    /\ chosen # NoTree /\ chosen' = NoTree
    /\ saves' = chosen
    /\ UNCHANGED <<before, game, copies>>

Next ==
    \/ Start \/ Report \/ Stop \/ Drop \/ Refuse \/ Apply
    \/ \E e \in Entries, v \in 0 .. MaxVersion : Play(e, v)
    \/ \E b \in Backups : Copy(b) \/ Delete(b) \/ Choose(b)

Spec == Init /\ [][Next]_vars
=============================================================================
