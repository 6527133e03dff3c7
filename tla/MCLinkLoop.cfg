SPECIFICATION LoopSpec
CONSTANTS
    HealthPeriod = 10
    HBPeriod = 20
    HealthOffset = 5
    Push = 4
    MaxGap = 12
    Calm = 6
INVARIANTS
    LoopTypeOK
    HealthOnTime
PROPERTIES
    HeartbeatResumes
