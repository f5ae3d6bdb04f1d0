CONSTANTS
    ReferenceOrder <- MCReferenceOrder
    Object = "java/lang/Object"
    Supertypes <- MCSupertypes
    Instantiable <- MCInstantiable
    Ints <- MCInts
    Arrays = {}
    Values <- MCValues
    Identities <- TwoObjects
    Methods <- MCMethods
    Hierarchy <- NoHierarchy
    Env <- MCEnv
    Truth <- MCTruth
    Linked <- MCLinked
    Programs <- MCPrograms
    Classes <- WritingClasses
    MaxDepth = 3
    MaxCalls = 2
SPECIFICATION Spec
INVARIANTS ReturnsDescribed
CHECK_DEADLOCK FALSE
