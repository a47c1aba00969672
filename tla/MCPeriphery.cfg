SPECIFICATION MCSpec
CONSTANTS
    LastStage = 3
    PowerStage = 2
    BuildMax = 3
    PoweredBuild = TRUE
    MaxLease = 2
    MaxTime = 4
INVARIANTS
    TypeOK
    RailAccounted
    SafeOffIsOff
    MaintenanceIsOff
    DispatchIsLeased
    DoubtIsSettled
    BridgeIsTrusted
    RailIsRegulated
    FanCools
    ChannelInStep
PROPERTIES
    FaultNeedsProof
    EnergizedUnderAuthority
CHECK_DEADLOCK FALSE
