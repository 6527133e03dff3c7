SPECIFICATION FairSpec
CONSTANTS
    Names = {"p", "q"}
    RealNames = {"q"}
    Values = {"v", "w"}
    First = "v"
    Handlers = {"h1", "h2"}
    ChanCap = 1
    MaxUp = 2
    MaxCalls = 3
INVARIANTS
    TypeOK
    CacheCoherent
    
    NoEcho
PROPERTIES
    
    LoadingEnds
