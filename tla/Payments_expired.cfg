SPECIFICATION Spec
CONSTANTS
    o1 = o1
    o2 = o2
    i1 = i1
    i2 = i2
    t1 = t1
    t2 = t2
    None = None
    Orders <- MCOrders
    Subscribing <- MCOrders
    Intents <- OneIntent
    Tasks <- MCTasks
    Methods = {"stripe"}
    Lenient = {}
    Enveloped = FALSE
    OrderTTL = 1
    PaymentTTL = 1
    MaxTime = 2
    MaxFaults = 0
    MaxRepeats = 0
SYMMETRY TaskSymmetry
INVARIANTS
    PaidOrderIsNotExpired
CHECK_DEADLOCK FALSE
