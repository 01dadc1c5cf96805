SPECIFICATION PatientSpec
CONSTANTS
  Commands = {p1, p2}
  Clients = {c1, c2}
  Versions = {v1, v2}
  HistoryLimit = 2
INVARIANTS
  ImportInvariant
  OutcomesAgree
  NothingImportedIsMissing
  ImportNeverMerges
PROPERTIES
  PublicationIsPermanent
  EveryImportSettles
  PublishedImportsFinish
CHECK_DEADLOCK FALSE
