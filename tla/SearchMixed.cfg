SPECIFICATION Spec
SYMMETRY MCNames
CONSTANTS
    PartNames <- MCPartNames
    Keys = {1, 2, 3}
    Gets <- MCGets
    Points <- MCPoints
    Queries <- MCQueries
    Metrics = {"L2", "IP"}
    FieldMetric = "IP"
    IndexNames = {i, j}
    Legacies = {TRUE, FALSE}
    Dynamic = TRUE
    RrfK = 60
    MaxWrites = 1
    MaxOps = 2
    MaxLimit = 2
    MaxFaults = 1
INVARIANTS
    TypeOK
    EngineFollowsCatalog
    SearchFindsNearest
    GetFindsEveryKey
    QueryReturnsEveryRow
    FusionKeepsAgreement
