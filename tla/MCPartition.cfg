SPECIFICATION SettledSpec
CONSTANTS
    None = None
    cm = cm
    sec = sec
    k1 = k1
    k2 = k2
    c1 = c1
    c2 = c2
    e1 = e1
    e2 = e2
    Keys = {k1, k2}
    Names <- MCNames
    KindOf <- MCKindOf
    Contents <- MCContents
    Base64 <- MCBase64
    Backend <- MCBackend
    Specs <- HeldSpecs
    SpecEdits <- HeldEdits
    InitialInputs <- NoInputs
    InputEdits <- NoInputEdits
    Replicas = 2
    MaxChanges = 1
    MaxEvictions = 1
    MaxFaults = 0
INVARIANT PartitionHolds
CHECK_DEADLOCK FALSE
