\* One component at a time; see MCReviewsAndScope.
SPECIFICATION BothSpec
CONSTANTS
    u1 = u1
    u2 = u2
    q1 = q1
    q2 = q2
    Opener = Opener
    Users <- TwoUsers
    Requests <- OneRequest
    Cycles <- TwoCycles
    Reminders <- OneReminder
    Window = 2
    Cadence = 2
    MaxDay = 2
    MaxAborts = 1
    Keys <- KeysDef
    Fold <- FoldDef
    Inventories <- InventoriesDef
    Sheets <- SheetsDef
    Edits <- EditsDef
    ScRequests <- TwoUsers
    MaxResults = 2
    MaxRaced = 1
    MaxEdits = 2
SYMMETRY UserSymmetry
CONSTRAINT BothSlice
INVARIANTS
    BothTypeOK
    ClosingIsHonest
    CyclesFollowAnswers
    DecisionsAreSound
PROPERTIES
    AnswersAreFinal
    SourcesKeepTheirRank
CHECK_DEADLOCK FALSE
