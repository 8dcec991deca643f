SPECIFICATION FairSpec
CONSTANTS
    None = None
    Absent = Absent
    NoKey = NoKey
    c1 = c1
    c2 = c2
    i1 = i1
    img1 = img1
    Contents <- MCContents
    Inputs <- MCInputs
    BackendOf <- MCBackend
    Images = {img1}
    Classes = {"standard", "fast"}
    DefaultClass = "standard"
    NodePorts = {30001}
    Specs <- SpecsDrift
    LaggyKinds = {}
    ForeignKinds = {}
    Disturbances = {"update"}
    MaxUid = 1
    MaxGen = 2
    MaxChurn = 1
    MaxFaults = 0
INVARIANTS
    DriftLeavesWorkloadAlone
CHECK_DEADLOCK FALSE
