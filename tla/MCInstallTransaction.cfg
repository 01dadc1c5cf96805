CONSTANTS
    Ids = {i1, i2}
    Builds = {b1}
    Workers = {w1, w2}
    Nobody = Nobody
    NoId = NoId
    NoBuild = NoBuild
    Workload = {"install", "cancel"}
    Faults = {"install", "activity"}
SPECIFICATION Spec
SYMMETRY Interchangeable
INVARIANTS
    TypeOK
    CancelledIsNeverPublished
    JournalMatchesStep
    PublishedFilesHaveAnOwner
    RetiredJournalsStayRetired
PROPERTIES
    SealedWorkIsNotDiscarded
    OutcomesAreFinal
