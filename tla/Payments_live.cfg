SPECIFICATION FairSpec
CONSTANTS
    o1 = o1
    o2 = o2
    i1 = i1
    i2 = i2
    t1 = t1
    t2 = t2
    None = None
    Orders <- MCOrders
    Subscribing <- MCOrders
    Intents <- OneIntent
    Tasks <- MCTasks
    Methods = {"stripe"}
    Lenient = {}
    Enveloped = FALSE
    OrderTTL = 0
    PaymentTTL = 0
    MaxTime = 1
    MaxFaults = 1
    MaxRepeats = 0
PROPERTIES
    CapturedIsPaid
    CapturedIsAcknowledged
CHECK_DEADLOCK FALSE
