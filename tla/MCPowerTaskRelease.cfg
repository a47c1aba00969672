SPECIFICATION Spec
CONSTANTS
    Callers = {c1, c2}
    PowerOwners = {"OTA"}
    QueueLength = 1
    CoolTime = 1
    Scenarios <- Quiet
INVARIANT OwnershipEnds
