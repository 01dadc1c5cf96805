SPECIFICATION PatientSpec
CONSTANTS
  Roots = {r1, r2}
  Ids = {i1}
  Clients = {c1}
  Saves = {v1}
  Edits = {}
  NoRoot = NoRoot
  NoId = NoId
PROPERTIES
  GateIsOpened
  RetiredSourceLeadsSomewhere
  EveryCommandReturns
CHECK_DEADLOCK FALSE
