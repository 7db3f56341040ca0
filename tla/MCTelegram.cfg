\* Two texts of one chat and a picture of another, two at a time.
SPECIFICATION Spec
CONSTANTS
    t1 = t1
    t2 = t2
    p1 = p1
    Messages <- ThreeMessages
    Chat <- ChatOf
    MessageID <- IDOf
    Kind <- KindOf
    Channel <- ChannelOf
    Values <- Ranges
    Initially <- AtStart
    ToolLoopMax = 2
    Retries = 1
    MaxHistory = 2
    MaxActive = 2
    MaxEvents = 1
PROPERTY
    WorkEnds
INVARIANTS
    SilenceHasACause
    PromisedAdvisorTold
\* A message is handled once.
CHECK_DEADLOCK FALSE
