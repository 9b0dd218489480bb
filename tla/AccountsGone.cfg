SPECIFICATION Spec
CONSTANTS
    Browsers = {b1}
    Passwords = {1}
    Generations = 1
    Cap = 1
    Threshold = 1
    ResetCount = 2
    MaxIssued = 1
    MaxOpened = 1
    MaxRequests = 2
    MaxRaced = 0

INVARIANT AnonymizedStaysDisabled
CHECK_DEADLOCK FALSE
