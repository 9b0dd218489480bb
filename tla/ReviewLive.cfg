SPECIFICATION FairSpec
CONSTANTS
    u1 = u1
    u2 = u2
    q1 = q1
    q2 = q2
    Opener = Opener
    Users <- OneUser
    Requests <- OneRequest
    Cycles <- OneCycle
    Reminders <- TwoReminders
    Window = 3
    Cadence = 3
    MaxDay = 3
    MaxAborts = 1
INVARIANTS
    RemindersAreTimely
PROPERTIES
    EveryCycleCloses
CHECK_DEADLOCK FALSE
