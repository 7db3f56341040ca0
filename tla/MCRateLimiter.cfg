\* Two callers, two contacts, two days of one conversation.
SPECIFICATION Spec
CONSTANTS
    p1 = p1
    p2 = p2
    c1 = c1
    c2 = c2
    Callers <- TwoCallers
    Phones <- TwoPhones
    LastDay = 1
    Limit = 1
    AlertAt = 1
INVARIANTS
    OvershootBound
    EveryContactCounted
    NoWarningForgotten
PROPERTY
    ImplementsDailyAdmission
