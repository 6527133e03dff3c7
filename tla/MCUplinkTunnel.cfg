SPECIFICATION FairSpec
CONSTANTS
    Nodes <- MCNodes
    Egress <- Roaming
    DialFails = FALSE
    Writers = {}
    Reports = {}
PROPERTIES
    MovesToTunnel
