SPECIFICATION FairSpec
CONSTANTS
    Nodes <- MCNodes
    Egress <- StableRoute
    DialFails = FALSE
    Writers = {}
    Reports = {"network", "invalid", "restored"}
PROPERTIES
    HealthReturns
