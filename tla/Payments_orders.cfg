SPECIFICATION Spec
CONSTANTS
    o1 = o1
    o2 = o2
    i1 = i1
    i2 = i2
    t1 = t1
    t2 = t2
    None = None
    Orders <- TwoOrders
    Subscribing <- MCOrders
    Intents <- MCIntents
    Tasks <- MCTasks
    Methods = {"stripe"}
    Lenient = {}
    Enveloped = FALSE
    OrderTTL = 0
    PaymentTTL = 0
    MaxTime = 1
    MaxFaults = 0
    MaxRepeats = 0
SYMMETRY Symmetry
PROPERTIES
    KeepsLedger
CHECK_DEADLOCK FALSE
