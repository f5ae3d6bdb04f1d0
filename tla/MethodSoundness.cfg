CONSTANTS
    ReferenceOrder <- MCReferenceOrder
    Object = "java/lang/Object"
    Supertypes <- MCSupertypes
    Instantiable <- MCInstantiable
    Ints <- MCInts
    Arrays <- MCArrays
    Identities <- OnePerPlace
    Values <- MCValues
    Methods <- MCMethods
    Hierarchy <- MCHierarchy
    Env <- MCEnvOf
    Linked = {}
    Truth <- MCTruth
    Configs <- MCConfigs
    Orders <- MCOrders
SPECIFICATION Spec
INVARIANTS
    FramesDescribeRuns OriginsIdentify ReturnsDescribed ReturnedParameterIsArgument
    LocalTypesDescribe SolverComputesSolveFrames FramesAreClosed
CHECK_DEADLOCK FALSE
