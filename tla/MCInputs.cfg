SPECIFICATION FairSpec
CONSTANTS
    None = None
    Absent = Absent
    NoKey = NoKey
    c1 = c1
    c2 = c2
    i1 = i1
    img1 = img1
    Contents <- MCContents
    Inputs <- MCInputs
    BackendOf <- MCBackend
    Images = {img1}
    Classes = {"standard", "fast"}
    DefaultClass = "standard"
    NodePorts = {30001}
    Specs <- SpecsInputs
    LaggyKinds = {i1}
    ForeignKinds = {}
    Disturbances = {"update", "input", "restart"}
    MaxUid = 1
    MaxGen = 2
    MaxChurn = 2
    MaxFaults = 1
INVARIANTS
    TypeOK
    ChildrenConverged
    StatusConverged
PROPERTIES
    EventuallyQuiet
CHECK_DEADLOCK FALSE
