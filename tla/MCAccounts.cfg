SPECIFICATION Spec
CONSTANTS
    Cedulas = {c1, c2, spelt}
    Plain = {c1, c2}
    Emails = {e1}
    Passwords = {x, y}
    Requests = {p, q}
    None = None
    MaxUsers = 2
    MaxTokens = 2
    MaxBegun = 3
SYMMETRY Symmetry
INVARIANTS
    AccountRecognised
    EmailsDistinct
    LastWordStands
    LinkWorksOnce
CHECK_DEADLOCK FALSE
