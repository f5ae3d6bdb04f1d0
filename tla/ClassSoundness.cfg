CONSTANTS
    ReferenceOrder <- MCReferenceOrder
    Object = "java/lang/Object"
    Supertypes <- MCSupertypes
    Instantiable <- MCInstantiable
    Ints <- MCInts
    Arrays = {}
    Values <- MCValues
    Identities <- TwoObjects
    Methods <- MCMethods
    Hierarchy <- NoHierarchy
    Env <- MCEnv
    Truth <- MCTruth
    Linked <- MCLinked
    Programs <- MCPrograms
    Classes <- MCClasses
    MaxDepth = 3
    MaxCalls = 1
SPECIFICATION Spec
INVARIANTS FramesDescribeRuns SummariesMeetFrames ReturnsDescribed PublishedAreJustified
CHECK_DEADLOCK FALSE
