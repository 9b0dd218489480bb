SPECIFICATION Spec
CONSTANTS
    Browsers = {b1, b2}
    Passwords = {1, 2, 3}
    Generations = 2
    Cap = 1
    Threshold = 1
    ResetCount = 2
    MaxIssued = 2
    MaxOpened = 3
    MaxRequests = 3
    MaxRaced = 4
SYMMETRY BrowserSymmetry
INVARIANTS
    TypeOK
    CredentialsAgree
PROPERTIES
    SessionsAreDue
CHECK_DEADLOCK FALSE
