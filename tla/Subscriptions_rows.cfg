SPECIFICATION Spec

CONSTANTS
    s1 = s1
    s2 = s2
    t1 = t1
    t2 = t2
    u1 = u1
    basic = basic
    plus = plus
    None = None
    Subs <- TwoSubs
    Users <- OneUser
    Owner <- Owners
    Tasks <- TwoTasks
    Products <- TwoProducts
    Plan <- AllBasic
    Duration <- Lasting
    Year = 2
    QuotaLimit <- LessForPlus
    Upgradable <- FirstOnly
    Amounts <- OneOrTwo
    MaxTime = 2
    MaxBought = 2
    MaxFaults = 1
    MaxGranted = 2

SYMMETRY TaskSymmetry

CONSTRAINT Focus

INVARIANTS
    TypeOK
    UsedWithinLimit
    ChargedWasGranted
    TimeWasBought
    ExpiredWasDue
