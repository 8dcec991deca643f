SPECIFICATION OnePodSpec
CONSTANTS
    None = None
    Absent = Absent
    NoKey = NoKey
    c1 = c1
    c2 = c2
    i1 = i1
    img1 = img1
    Contents <- MCContents
    Inputs <- MCInputs
    BackendOf <- MCBackend
    Images = {img1}
    Classes = {"standard", "fast"}
    DefaultClass = "standard"
    NodePorts = {30001}
    Specs <- SpecsLag
    LaggyKinds = {"config", "StatefulSet"}
    ForeignKinds = {}
    Disturbances = {"meddle"}
    MaxUid = 1
    MaxGen = 1
    MaxChurn = 2
    MaxFaults = 0
INVARIANTS
    ChildrenConverged
    StatusConverged
    StatusCoherent
CHECK_DEADLOCK FALSE
