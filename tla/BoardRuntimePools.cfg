SPECIFICATION Spec
CONSTANTS
    Watchdog = 2
    BridgeLease = 2
    Levels = 2
PROPERTIES
    PoolLossIsNoFault
