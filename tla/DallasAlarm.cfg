SPECIFICATION AlarmFairSpec
CONSTANTS
    N = 4
    CHECK = 1
    Sensors <- MCSensors
    MaxSwings = 2
INVARIANTS
    Enumerates
PROPERTIES
    EndsWhenSteady
