CONSTANTS
    ReferenceOrder <- MCReferenceOrder
    Object = "java/lang/Object"
    Supertypes <- MCSupertypes
    Instantiable <- MCInstantiable
    Ints <- MCInts
    Arrays = {}
    Values <- MCValues
    Identities <- TwoObjects
    Methods <- MCMethods
    Hierarchy <- NoHierarchy
    Env <- MCEnv
    Truth <- MCTruth
    Linked <- MCLinked
    Programs <- MCPrograms
    MaxDepth = 4
SPECIFICATION Spec
INVARIANTS SummariesMeetFrames ReturnsDescribed ReturnedParameterIsArgument PublishedAreJustified
CHECK_DEADLOCK FALSE
