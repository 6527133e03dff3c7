SPECIFICATION Spec
CONSTANTS
    Nodes <- MCNodes
    Egress <- LateRoute
    DialFails = TRUE
    Writers = {"forward", "keepalive"}
    Reports = {}
INVARIANTS
    TypeOK
    SubscribedOrSignalled
    OneUplink
    DeadOnlyWhileReplaced
