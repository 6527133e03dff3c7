SPECIFICATION BeatFairSpec
CONSTANTS
    Loss = 2
    RecoverN = 2
    HBCap = 3
    EvalPeriod = 2
    GenMod = 3
    Writers = {"server", "web"}
    Sendings <- OneCopy
INVARIANTS
    TypeOK
    TxOnActiveLink
    RecoveryArmed
    FailoverInTime
PROPERTIES
    NotJudgedEarly
    ImplementsChoice
    SettlesOnBestLink
    
