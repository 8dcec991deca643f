SPECIFICATION KeyedSpec
CONSTANTS
    None = None
    Absent = Absent
    NoKey = NoKey
    c1 = c1
    c2 = c2
    i1 = i1
    img1 = img1
    Contents <- OneContent
    Inputs <- MCInputs
    BackendOf <- OneBackend
    Images = {img1}
    Classes = {"standard", "fast"}
    DefaultClass = "standard"
    NodePorts = {30001}
    Specs <- SpecsFile
    LaggyKinds = {"HermesAgent", i1}
    ForeignKinds = {}
    Disturbances = {"update", "input", "delete"}
    MaxUid = 2
    MaxGen = 2
    MaxChurn = 2
    MaxFaults = 0
INVARIANTS
    ChildrenConverged
PROPERTIES
    OwnersMoveForward
    ControlRefined
    ObservedGenerationAdvances
CHECK_DEADLOCK FALSE
