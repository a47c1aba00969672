SPECIFICATION Spec
CONSTANTS
    Pools = {0, 1}
    QueueLength = 1
    MaxEra = 2
    MaxSession = 2
    MaxInputs = 1
INVARIANTS
    TypeOK
    GenerationNamesSession
PROPERTIES
    ImplementsShareDelivery
