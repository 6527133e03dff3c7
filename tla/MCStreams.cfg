SPECIFICATION FairSpec
CONSTANTS
    Cams <- OneCam
    Procs = {"p1", "p2", "p3", "p4"}
    Loops = {"w1", "w2"}
    Callers = {"web", "boot"}
    MaxCalls = 2
    MaxFaults = 1
INVARIANTS
    NoOrphan
    
PROPERTIES
    CamerasReturn
CHECK_DEADLOCK FALSE
