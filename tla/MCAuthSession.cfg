SPECIFICATION FairSpec
CONSTANTS
    Conns <- MCConns
    Tokens <- MCTokens
    Callers = {"web", "vpn"}
    MaxFaults = 2
    MaxCalls = 1
INVARIANTS
    LockHeld
    AloneIsClean
PROPERTIES
    SessionReturns
    StopEndsKeepalive
CHECK_DEADLOCK FALSE
