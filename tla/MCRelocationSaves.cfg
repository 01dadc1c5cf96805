CONSTANTS
    Installs = {i1, i2}
    Entries = {e1}
    Backups = {}
    MaxVersion = 2
    MaxMishaps = 1
    None = None
    NoTree = NoTree

SPECIFICATION RSpec
CHECK_DEADLOCK FALSE

PROPERTY RelocationKeepsSaves
