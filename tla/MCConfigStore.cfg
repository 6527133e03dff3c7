SPECIFICATION Spec
CONSTANTS
    Handlers = {"h1", "h2"}
    Values <- MCValues
    Length <- MCLength
    InitialConfig <- MCInitial
    MaxCalls = 3
    MaxCrashes = 1
INVARIANTS
    UpdatesKept
    
    NothingWiped
CHECK_DEADLOCK FALSE
