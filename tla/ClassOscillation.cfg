CONSTANTS
    ReferenceOrder <- MCReferenceOrder
    Object = "java/lang/Object"
    Supertypes <- MCSupertypes
    Instantiable <- MCInstantiable
    Ints <- MCInts
    Arrays = {}
    Values <- MCValues
    Identities <- TwoObjects
    Methods <- MCMethods
    Hierarchy <- NoHierarchy
    Env <- MCEnv
    Truth <- MCTruth
    Linked <- MCLinked
    Programs <- MCPrograms
    Classes <- FailingClasses
    MaxDepth = 3
    MaxCalls = 1
SPECIFICATION FairSpec
PROPERTIES Termination
CHECK_DEADLOCK FALSE
