SPECIFICATION Spec
CONSTANTS
    None = None
    cm = cm
    sec = sec
    k1 = k1
    k2 = k2
    c1 = c1
    c2 = c2
    e1 = e1
    e2 = e2
    Keys = {k1, k2}
    Names <- MCNames
    KindOf <- MCKindOf
    Contents <- MCContents
    Base64 <- MCBase64
    Backend <- MCBackend
    Specs <- MCSpecs
    SpecEdits <- MCSpecEdits
    InitialInputs <- MCInitialInputs
    InputEdits <- MCInputEdits
    Replicas = 2
    MaxChanges = 2
    MaxEvictions = 1
    MaxFaults = 1
INVARIANTS MissingIsStuck PolicyFollowsConfig
PROPERTIES HashTracksContent EventuallyFresh
CHECK_DEADLOCK FALSE
