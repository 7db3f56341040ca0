\* An image posted twice around midnight: up to two failed calls, an expired
\* key and a restart anywhere.
SPECIFICATION Spec
CONSTANTS
    t1 = t1
    t2 = t2
    t3 = t3
    i1 = i1
    o1 = o1
    customer = customer
    advisor = advisor
    d1 = d1
    d2 = d2
    Asesor = advisor
    Phones <- BothPhones
    Messages <- RedeliveredMessages
    From <- RedeliveredFrom
    Kind <- RedeliveredKind
    Deliveries <- TwoDeliveries
    Payload <- Redelivery
    MaxMsgs = 3
    MaxHistory = 2
    LastDay = 1
    MaxFaults = 2
    MaxExpiries = 1
    MaxCrashes = 1
INVARIANTS
    OneDeliveryPerMessage
    SilenceHasCause
    ArchiveBacked
PROPERTIES
    StallsOnlyAtGemini
    AnswersArchived
