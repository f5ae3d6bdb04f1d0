CONSTANTS
    ReferenceOrder <- MCReferenceOrder
    Object = "java/lang/Object"
    Worlds <- MCWorlds
    Values <- MCValues
    Arrivals <- MCArrivals
    MaxArrivals = 3
SPECIFICATION Spec
INVARIANTS ArrivalsDescribed TreeJoinIsLeast
PROPERTIES MergesSettle
CHECK_DEADLOCK FALSE
