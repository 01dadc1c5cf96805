CONSTANTS
    Ids = {i1, i2, i3}
    Builds = {b1, b2}
    Workers = {w1}
    Nobody = Nobody
    NoId = NoId
    NoBuild = NoBuild
    Workload = {"install", "remove"}
    Faults = {"remove"}
SPECIFICATION Spec
SYMMETRY Interchangeable
PROPERTIES OnlyReviewedRowsAreRemoved
