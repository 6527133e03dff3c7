SPECIFICATION Spec
CONSTANTS
    Strings <- MCStrings
    Numbers16 <- MCNumbers16
    Numbers64 <- MCNumbers64
    Codes <- MCCodes
    MaxModelLen = 1
    MaxPending = 2
INVARIANTS
    
    AcceptsEveryWhole
    RequestsDelimited
