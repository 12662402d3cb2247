\* Three overlapping runs over one record, with the application changing it in between.
CONSTANTS
    Tasks = {t1, t2, t3}
    ClaimNames = {c1, c2}
    ClaimValues = {v1, v2}
    RequiredClaims = {c1}
    Documents = {d1, d2}
    RequiredDocuments = {d1}
    c1 = c1
    c2 = c2
    v1 = v1
    v2 = v2
    d1 = d1
    d2 = d2
    d3 = d3
    DocumentsExtension = TRUE
    Requests <- MCRequests
    OperatorStatuses = {"active", "suspended"}
    MaxTime = 1
    None = None
    EmptyWord = EmptyWord
    ServiceDocuments = service_documents
    ImproperWord = improper
    Nothing = None
    Improper = {improper}
    Loopback = {"localhost", "127.0.0.1"}
    Numeric = {"127.0.0.1"}
    Variable = "{}"
    MaxMethods = 2
    MaxAssertion = 300
    MaxBlocks = 3
    MaxDepth = 2
    Services <- MCServices
    Later <- MCLater
    Agents <- MCAgents
    References <- MCReferences
    Wishes <- MCWishes
    Operations <- MCOperations
    MaxCalls = 2
    MaxEvents = 1
SYMMETRY TaskSymmetry
SPECIFICATION MCSpec
INVARIANTS
    LostClaimsNeedOverlap
    AcknowledgedWasDeclared
    RequiredClaimsHeld
    ServicesUsable
    OperationsResolved
PROPERTIES
    UpdatesPreserve
\* every run done, the clock at its bound, the application satisfied
CHECK_DEADLOCK FALSE
