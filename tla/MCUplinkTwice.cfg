SPECIFICATION Spec
CONSTANTS
    Nodes <- MCNodes
    Egress <- LateRoute
    DialFails = FALSE
    Writers = {}
    Reports = {}
INVARIANTS
    ClosedOnce
