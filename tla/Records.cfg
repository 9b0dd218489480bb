\* One component at a time; see MCRecords.
SPECIFICATION RecordsSpec
CONSTANTS
    c1 = c1
    c2 = c2
    r1 = r1
    r2 = r2
    Objectives <- OneObjective
    Contacts <- TwoContacts
    RoleHolders <- TheOfficer
    DocRequests <- TwoRequests
    Cadences <- TwoCadences
    DueSoon = 1
    MaxVersions = 3
    DocMaxRaced = 2
    MaxTime = 1
    Columns <- TwoColumns
    Practices <- TwoPractices
    Sheets <- TwoSheets
    Entries <- SomeEntries
    Rewrites <- OneRewrite
    Requests <- TwoRequests
    MaxTemplate = 3
    MaxOwn = 3
    MaxRaced = 2
SYMMETRY RequestSymmetry
CONSTRAINT ListSlice
INVARIANTS
    RecordsTypeOK
    DocumentsAreSound
PROPERTIES
    PublishedIsFinal
    ListsKeepWork
CHECK_DEADLOCK FALSE
