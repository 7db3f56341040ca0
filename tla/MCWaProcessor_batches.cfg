\* Five messages of one new contact in two batches: the daily
\* maximum and the stored history both overflow.
SPECIFICATION Spec
CONSTANTS
    t1 = t1
    t2 = t2
    t3 = t3
    i1 = i1
    o1 = o1
    customer = customer
    advisor = advisor
    d1 = d1
    d2 = d2
    Asesor = advisor
    Phones <- BothPhones
    Messages <- AllMessages
    From <- FromOf
    Kind <- KindOf
    Deliveries <- TwoDeliveries
    Payload <- Batches
    MaxMsgs = 3
    MaxHistory = 2
    LastDay = 0
    MaxFaults = 0
    MaxExpiries = 0
    MaxCrashes = 0
INVARIANTS
    DisclaimerOnce
    DailyQuota
    LossNeedsDisturbance
    HistoryOfExchanges
