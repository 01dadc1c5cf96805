SPECIFICATION Spec
CONSTANTS
  Commands = {p1}
  Clients = {c1}
  Versions = {v1}
  HistoryLimit = 2
INVARIANT PublishedLibraryOpens
