SPECIFICATION Spec
CONSTANTS
    Callers = {c1, c2}
    PowerOwners = {"OTA"}
    QueueLength = 1
    CoolTime = 2
    Scenarios <- Surroundings
SYMMETRY CallerSymmetry
INVARIANTS
    PauseHolds
    MaintenanceHeld
    MaintenanceClaimed
    StoppedIsOff
    RoundEndsSafe
    IoExclusive
    FanUnderControl
PROPERTIES
    RecoveryNeedsCooldown
