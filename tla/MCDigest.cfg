\* Two runners that may overlap, one failed call anywhere, what is repeated and
\* what is mailed in the end.
SPECIFICATION Spec
CONSTANTS
    t1 = t1
    t2 = t2
    cron = cron
    admin = admin
    Turns <- TwoTurns
    Runners <- BothRunners
    Cron = cron
    Window = 1
    Day = 1
    Second = 2
    MaxTime = 2
    MaxFaults = 1
INVARIANT
    NothingSkipped
PROPERTIES
    RepeatsAreRecent
    EventuallyMailed
