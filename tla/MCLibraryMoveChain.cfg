SPECIFICATION Spec
CONSTANTS
  Roots = {r1, r2, r3}
  Ids = {i1, i2}
  Clients = {c1}
  Saves = {v1}
  Edits = {}
  NoRoot = NoRoot
  NoId = NoId
SYMMETRY Symmetry
CONSTRAINT ChainedMoves
PROPERTY LibrariesHaveOneHome
