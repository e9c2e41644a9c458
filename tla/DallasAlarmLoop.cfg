SPECIFICATION AlarmFairSpec
CONSTANTS
    N = 4
    CHECK = 1
    Sensors <- MCSensors
    MaxSwings = 1
PROPERTIES
    AlarmLoopEnds
