SPECIFICATION MCSpec
CONSTANTS
    AsicCount = 2
    Rows = 6
    Columns = 1
    Holes <- TwoHoles
    ConfirmSamples = 2
    Attempts = 1
    CleanWindows = 1
    MaxWindows = 2
    TopClock = 2
INVARIANTS
    BringUpVerified
    BitmainAsBelieved
PROPERTIES
    StepsAreSafe
CHECK_DEADLOCK FALSE
