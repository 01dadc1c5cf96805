CONSTANTS
    Installs = {i1, i2}
    Entries = {e1, e2}
    Backups = {b1, b2}
    MaxVersion = 2
    MaxMishaps = 2
    None = None
    NoTree = NoTree

SPECIFICATION Spec
SYMMETRY Symmetry
\* A supervisor that dies between recording that it spawns the game and
\* recording the game leaves a row for the player to review.
CHECK_DEADLOCK FALSE

INVARIANTS
    TypeOK
    
    
    CancelledNeverPlays

PROPERTIES
    ProgressIsKept
    GameKeepsItsFiles
    ClosedOnlyWhenCollected
