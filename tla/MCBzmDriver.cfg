SPECIFICATION Spec
CONSTANTS
    Capacity = 3
    EngineCount = 2
    SequenceSpace = 2
    DedupCapacity = 2
    PendingCapacity = 1
    Variants = 2
    MaxTransit = 1
    MaxGeneration = 5
    MaxPool = 2
INVARIANTS
    AttributionSound
    CurrentAddressable
    NoFalseRejection
    ReplacementCoversEngines
PROPERTIES
    NoRepeatWithinWindow
