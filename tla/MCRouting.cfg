SPECIFICATION Spec
CONSTANTS
    None = None
    a = a
    b = b
    cm = cm
    aConfig = aConfig
    aGatewayConfig = aGatewayConfig
    bGatewayConfig = bGatewayConfig
    k1 = k1
    c1 = c1
    c2 = c2
    e1 = e1
    e2 = e2
    Keys = {k1}
    FileKey = k1
    Agents = {a, b}
    Names <- MCNames
    KindOf <- MCKindOf
    Contents <- MCContents
    Base64 <- MCBase64
    Backend <- MCBackend
    GeneratedName <- MCGeneratedName
    InitialAgents <- MCAgents
    AgentEdits <- MCAgentEdits
    InitialObjects <- MCObjects
    ObjectEdits <- MCObjectEdits
    MaxChanges = 2
INVARIANT NoLostWakeup
PROPERTIES OthersConfigMapsKept Served
CHECK_DEADLOCK FALSE
