CONSTANTS
    Ids = {i1, i2, i3}
    Builds = {b1, b2}
    Workers = {w1}
    Nobody = Nobody
    NoId = NoId
    NoBuild = NoBuild
    Workload = {"install", "stage", "activate", "rollback", "remove"}
    Faults = {"activate", "remove", "activity"}
SPECIFICATION Spec
SYMMETRY Interchangeable
INVARIANTS
    PointersAgree
    RegisteredPayloadIsKept
    PrivateFilesHaveAJournal
