SPECIFICATION FairSpec
CONSTANTS
    Procs = {window, daemon}
    Nothing = Nothing
    Stale = 3
    Patience = 4
    MaxClock = 6
    MaxSaves = 1
INVARIANTS
    SoleServer
    NothingSavedOver
PROPERTIES
    AloneAgain
