SPECIFICATION Spec

CONSTANTS
    r1 = r1
    r2 = r2
    r3 = r3
    Requests <- ThreeRequests
    Quantity <- Quantities
    Stocks <- EveryStock
    MaxRestocks = 1
    MaxEdits = 2
    MaxFaults = 1

SYMMETRY RequestSymmetry

INVARIANTS
    TypeOK
    LimitedStaysLimited
    StockWasOrdered
    SoldWasOrdered
