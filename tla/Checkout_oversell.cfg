SPECIFICATION Spec

CONSTANTS
    r1 = r1
    r2 = r2
    r3 = r3
    Requests <- TwoRequests
    Quantity <- Quantities
    Stocks <- OneUnit
    MaxRestocks = 0
    MaxEdits = 0
    MaxFaults = 0

SYMMETRY RequestSymmetry

INVARIANTS
    NoOversell
