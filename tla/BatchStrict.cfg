CONSTANTS
    ReferenceOrder <- MCReferenceOrder
    Object = "java/lang/Object"
SPECIFICATION Spec
INVARIANTS StrictRejectsReported
CHECK_DEADLOCK FALSE
