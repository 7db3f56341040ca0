\* Two requests of a customer at once, one administrator.
SPECIFICATION Spec
CONSTANTS
    r1 = r1
    r2 = r2
    admin = admin
    Readers <- TwoReaders
    Editors <- OneAdmin
    Limits <- Quotas
    LastTable = 1
    Speeds = 1
    TTL = 2
    MaxTime = 2
    MaxEdits = 1
    MaxQuotes = 2
    MaxRows = 2
    MaxFaults = 1
SYMMETRY Symmetry
INVARIANTS
    ConfigIsRecent
    QuotesAccounted
    QuotaOvershoot
    DuplicatesBounded
