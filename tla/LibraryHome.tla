----------------------------- MODULE LibraryHome -----------------------------
(***************************************************************************)
(* What library moves promise: a library can be changed at one root only,  *)
(* a move forwards its old root, for good, to a root nobody could open,    *)
(* and that root appears holding exactly the saves the old one had.        *)
(***************************************************************************)
EXTENDS FiniteSets

CONSTANTS Roots, Saves

VARIABLES
  forward,  \* the root that a root leads to, itself when it was never moved
  content,  \* the saves in the library at a root
  hidden    \* roots gated as the destination of a move
vars == <<forward, content, hidden>>

Init ==
  /\ forward = [r \in Roots |-> r]
  /\ content = [r \in Roots |-> {}]
  /\ hidden = {}

Change(r, saves) ==
  /\ forward[r] = r /\ r \notin hidden
  /\ content' = [content EXCEPT ![r] = saves]
  /\ UNCHANGED <<forward, hidden>>

Write(r) == \E v \in Saves \ content[r] : Change(r, content[r] \cup {v})

Delete(r) == \E v \in content[r] : Change(r, content[r] \ {v})

\* A root that nothing leads to may be gated as the destination of a move.
Hide(d) ==
  /\ d \notin hidden
  /\ \A q \in Roots : forward[q] = d <=> q = d
  /\ hidden' = hidden \cup {d}
  /\ content' = [content EXCEPT ![d] = {}]
  /\ UNCHANGED forward

\* The library at s is retired to the hidden root d.
Retire(s, d) ==
  /\ forward[s] = s /\ s \notin hidden
  /\ d \in hidden \ {s}
  /\ forward' = [forward EXCEPT ![s] = d]
  /\ UNCHANGED <<content, hidden>>

\* The destination can be opened, holding what the retired root still holds.
Reveal(d) ==
  /\ d \in hidden
  /\ hidden' = hidden \ {d}
  /\ \E s \in Roots \ {d} :
       forward[s] = d /\ content' = [content EXCEPT ![d] = content[s]]
  /\ UNCHANGED forward

Next ==
  \/ \E r \in Roots : Write(r) \/ Delete(r) \/ Hide(r) \/ Reveal(r)
  \/ \E s, d \in Roots : Retire(s, d)

Spec == Init /\ [][Next]_vars

==============================================================================
