SPECIFICATION Spec
CONSTANTS
  Roots = {r1, r2}
  Ids = {i1, i2}
  Clients = {c1, c2}
  Saves = {v1}
  Edits = {e1}
  NoRoot = NoRoot
  NoId = NoId
SYMMETRY Symmetry
INVARIANTS
  MoveInvariant
  SavesFollowTheLibrary
  OneWritableRoot
  OpenRootsAreUngated
  ClientsAgreeOnTheRoot
PROPERTIES
  RecoveryNeverReplays
  AbortIsFinal
