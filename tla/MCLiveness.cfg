SPECIFICATION MCSpec
CONSTANTS
    Watchdog = 2
    BridgeLease = 2
    Levels = 2
INVARIANTS
    BoardIsSafe
PROPERTIES
    StopTakesEffect
    CallsAnswered
    DeadManSwitch
    UnhealthyBoardIsCut
    ClientReturns
CHECK_DEADLOCK FALSE
