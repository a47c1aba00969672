SPECIFICATION MCSpec
CONSTANTS
    Firmware = {"A", "B"}
    Shipped = "A"
    Partitions = {"ota_0", "ota_1"}
    FirstPartition = "ota_0"
    QueueSize = 1
    MaxLost = 1
INVARIANTS
    SettingsSurvive
    StaysReachable
    ReportsAreTrue
CHECK_DEADLOCK FALSE
