\* A reset while a question waits for its answer.
SPECIFICATION Spec
CONSTANTS
    q1 = q1
    q2 = q2
    NoSession = NoSession
    Requests <- TwoRequests
    MaxActive = 2
    MaxResets = 1
    MaxExpiries = 0
    MaxFaults = 0
INVARIANT
    ResetForgets
